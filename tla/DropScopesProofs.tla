---------------------------- MODULE DropScopesProofs ---------------------------
(* That the compiled code of any body without a known defect implements         *)
(* Ownership: bodies of any length, any number of values.  First the closing of *)
(* blocks and the jumps out of them keep the outline of the code (DropOutlines),*)
(* then each action of the compiler does, then each instruction does as the     *)
(* outline says.                                                                *)
EXTENDS DropOutlines

--------------------------------------------------------------------------------

(* The fields of a flow. *)
LEMMA FlowShape ==
  ASSUME NEW f, IsFlow(f)
  PROVE  /\ f = [reach |-> f.reach, must |-> f.must, may |-> f.may]
         /\ f.reach \in BOOLEAN /\ f.must \subseteq Nat /\ f.may \subseteq Nat /\ f.must \subseteq f.may
         /\ (~f.reach => f.may = {})
  BY DEF IsFlow

(* What Restrict does. *)
LEMMA RestrictFacts ==
  ASSUME NEW f, IsFlow(f), NEW X
  PROVE  /\ IsFlow(Restrict(f, X)) /\ Restrict(f, X).reach = f.reach
         /\ Restrict(f, X).must = f.must \cap X /\ Restrict(f, X).may = f.may \cap X
<1>1. Restrict(f, X) = [reach |-> f.reach, must |-> f.must \cap X, may |-> f.may \cap X]
  BY FlowExceptAll DEF Restrict
<1> DEFINE g == Restrict(f, X)
<1>2. g.reach = f.reach /\ g.must = f.must \cap X /\ g.may = f.may \cap X
      /\ g = [reach |-> f.reach, must |-> f.must \cap X, may |-> f.may \cap X]
  BY <1>1
<1> HIDE DEF g
<1>3. IsFlow(g)
  BY <1>2, FlowShape DEF IsFlow
<1> QED
  BY <1>2, <1>3 DEF g

(* What Join does. *)
LEMMA JoinFacts ==
  ASSUME NEW f, NEW g, IsFlow(f), IsFlow(g)
  PROVE  /\ IsFlow(Join(f, g)) /\ (Join(f, g).reach <=> f.reach \/ g.reach)
         /\ f.reach => Join(f, g).must \subseteq f.must /\ f.may \subseteq Join(f, g).may
         /\ g.reach => Join(f, g).must \subseteq g.must /\ g.may \subseteq Join(f, g).may
         /\ \A y \in Join(f, g).may : y \in f.may \/ y \in g.may
<1>0. IsFlow(f) /\ IsFlow(g) /\ f.reach \in BOOLEAN /\ g.reach \in BOOLEAN /\ f.may \subseteq Nat /\ g.may \subseteq Nat
      /\ f.must \subseteq f.may /\ g.must \subseteq g.may /\ (~f.reach => f.may = {}) /\ (~g.reach => g.may = {})
  BY FlowShape
<1>1. CASE ~f.reach
  BY <1>0, <1>1 DEF Join
<1>2. CASE f.reach /\ ~g.reach
  BY <1>0, <1>2 DEF Join
<1>3. CASE f.reach /\ g.reach
  <2>1. Join(f, g) = [reach |-> TRUE, must |-> f.must \cap g.must, may |-> f.may \cup g.may]
    BY <1>3 DEF Join, Reach
  <2> DEFINE h == Join(f, g)
  <2>2. h.reach = TRUE /\ h.must = f.must \cap g.must /\ h.may = f.may \cup g.may
        /\ h \in [reach : BOOLEAN, must : SUBSET Nat, may : SUBSET Nat]
    BY <1>0, <2>1
  <2> HIDE DEF h
  <2>3. IsFlow(h)
    BY <1>0, <2>2 DEF IsFlow
  <2>4. /\ IsFlow(h) /\ h.reach
        /\ h.must \subseteq f.must /\ f.may \subseteq h.may
        /\ h.must \subseteq g.must /\ g.may \subseteq h.may
        /\ \A y \in h.may : y \in f.may \/ y \in g.may
    BY <2>2, <2>3
  <2> QED
    BY <1>3, <2>4 DEF h
<1> QED
  BY <1>0, <1>1, <1>2, <1>3

(* States of one of two joined flows are states of the join. *)
LEMMA JoinArrives ==
  ASSUME NEW f, NEW g, IsFlow(f), IsFlow(g), NEW l, NEW t
  PROVE  /\ Arrives(l, f, t) \/ Arrives(l, g, t) => Arrives(l, Join(f, g), t)
         /\ \A n : Ends(l, n, f, t) \/ Ends(l, n, g, t) => Ends(l, n, Join(f, g), t)
<1> DEFINE h == Join(f, g)
<1>1. /\ h.reach <=> f.reach \/ g.reach
      /\ f.reach => h.must \subseteq f.must /\ f.may \subseteq h.may
      /\ g.reach => h.must \subseteq g.must /\ g.may \subseteq h.may
  BY JoinFacts
<1> HIDE DEF h
<1>2. ASSUME Arrives(l, f, t) \/ Arrives(l, g, t) PROVE Arrives(l, h, t)
  BY <1>1, <1>2 DEF Arrives
<1>3. ASSUME NEW n, Ends(l, n, f, t) \/ Ends(l, n, g, t) PROVE Ends(l, n, h, t)
  BY <1>1, <1>3 DEF Ends
<1> QED
  BY <1>2, <1>3 DEF h

(* A join stays within the blocks that both flows stay within. *)
LEMMA JoinCarried ==
  ASSUME NEW f, NEW g, NEW b, NEW bs, NEW s, NEW ls, Carried(f, b, bs, s, ls), Carried(g, b, bs, s, ls)
  PROVE  Carried(Join(f, g), b, bs, s, ls)
<1> DEFINE h == Join(f, g)
<1>1. IsFlow(h) /\ \A y \in h.may : y \in f.may \/ y \in g.may
  BY JoinFacts DEF Carried
<1> HIDE DEF h
<1>2. \A k \in 1 .. Len(bs) - 1 : Fits(h, bs[k], ls)
  BY <1>1 DEF Carried, Fits
<1>3. Carried(h, b, bs, s, ls)
  BY <1>1, <1>2 DEF Carried
<1> QED
  BY <1>3 DEF h

(* The flow out of the last block, at its entry and at its exits. *)
LEMMA LastCarried ==
  ASSUME NEW s, NEW ls, NEW bs, NEW f, NEW z, NEW N, NEW W, Scoped(s, ls, bs, f, z, N, W),
         NEW b, b = bs[Len(bs)]
  PROVE  /\ Carried(Restrict(f, OuterBits(b)), b, bs, s, ls)
         /\ Carried(b.entry, b, bs, s, ls) /\ Carried(b.exit, b, bs, s, ls)
<1>1. /\ IsSeq(bs) /\ Len(bs) >= 1 /\ Len(bs) \in Nat /\ IsFlow(f) /\ f.may \subseteq Pending(s)
      /\ IsFlow(bs[Len(bs)].entry) /\ IsFlow(bs[Len(bs)].exit)
      /\ \A y \in bs[Len(bs)].entry.may \cup bs[Len(bs)].exit.may : y < bs[Len(bs)].nbits /\ y \in Pending(s)
      /\ \A k \in 1 .. Len(bs) : Fits(f, bs[k], ls)
      /\ bs[Len(bs)].nbits \in Nat
  BY BlockFacts
<1>2. \A k \in 1 .. Len(bs) - 1 : Fits(b.entry, bs[k], ls) /\ Fits(b.exit, bs[k], ls)
  BY <1>1, WithinFacts DEF Within
<1> DEFINE g == Restrict(f, OuterBits(b))
<1>3. IsFlow(g) /\ g.may = f.may \cap OuterBits(b) /\ b.nbits \in Nat
  BY <1>1, RestrictFacts
<1> HIDE DEF g
<1>4. \A y \in g.may : y \in f.may /\ y < b.nbits
  BY <1>3 DEF OuterBits
<1>5. \A k \in 1 .. Len(bs) - 1 : Fits(g, bs[k], ls)
  BY <1>1, <1>4 DEF Fits
<1>6. Carried(g, b, bs, s, ls)
  BY <1>1, <1>3, <1>4, <1>5 DEF Carried
<1> QED
  BY <1>1, <1>2, <1>6 DEF Carried, g

(* Stack o is s after a scope saved as v is popped. *)
Popped(s, o, v) == Trimmed(s, o, v.top, v.first, ScopeBits(s))

(* What the last block is. *)
LEMMA LastFacts ==
  ASSUME NEW s, NEW ls, NEW bs, NEW f, NEW z, NEW N, NEW W, Scoped(s, ls, bs, f, z, N, W), NEW b, IsLast(b, bs)
  PROVE  /\ Nested(b, s.first, s.top, s, ls, z) /\ IsBlock(b) /\ b.kind \notin Bottom
         /\ b.nbits \in Nat /\ b.nlocals \in Nat /\ b.nlocals <= Len(ls)
         /\ b.stmt.first \in Nat /\ b.stmt.top \in Nat /\ b.scope.first \in Nat /\ b.scope.top \in Nat
         /\ z <= b.stmt.top /\ b.stmt.top <= b.scope.top /\ b.scope.top <= s.top
         /\ b.stmt.first <= b.nbits /\ b.nbits <= s.first /\ b.scope.first <= b.nbits
         /\ b.kind = "letloop" => b.scope.first = b.stmt.first /\ b.scope.top = b.stmt.top + 1
         /\ b.kind # "letloop" => b.scope.first = b.nbits
         /\ \A y \in Pending(s) : y < s.first => /\ SlotAt(s.leafs, y) < b.scope.top
                                                 /\ b.kind \notin {"match", "guarded"} => y < b.nbits
         /\ \A y \in Pending(s) : y < b.nbits => SlotAt(s.leafs, y) < b.stmt.top
<1>1. /\ Len(bs) \in 1 .. Len(bs) /\ Len(bs) # 1
  BY BlockFacts DEF IsLast
<1>2. /\ Nested(b, s.first, s.top, s, ls, z) /\ b.kind \notin Bottom
  BY <1>1, BlockFacts DEF IsLast, InnerFirst, InnerTop
<1>3. b.kind \notin {"letloop", "void", "returns"} <=> b.kind # "letloop"
  BY <1>2 DEF Bottom
<1>4. IsBlock(b)
  BY <1>2 DEF Nested
<1>5. /\ b.nbits \in Nat /\ b.nlocals \in Nat
      /\ b.stmt.first \in Nat /\ b.stmt.top \in Nat /\ b.scope.first \in Nat /\ b.scope.top \in Nat
  BY <1>4 DEF IsBlock
<1> QED
  BY <1>2, <1>3, <1>4, <1>5 DEF Nested

(* The block scope of the last block is popped. *)
LEMMA PopBody ==
  ASSUME NEW s, NEW ls, NEW bs, NEW f, NEW z, NEW N, NEW W, Scoped(s, ls, bs, f, z, N, W), NEW b, IsLast(b, bs),
         NEW o, Popped(s, o, b.scope)
  PROVE  /\ IsStack(o, z, N) /\ o.leafs = s.leafs /\ o.top = b.scope.top /\ o.first = b.scope.first
         /\ \A y : y \in Pending(o) <=> y \in Pending(s) /\ y < s.first
         /\ b.kind \notin {"match", "guarded"} => \A y : y \in Pending(o) <=> y \in Pending(s) /\ y < b.nbits
<1>1. IsStack(s, z, N)
  BY BlockFacts
<1>2. /\ z \in Nat /\ N \in Nat /\ Len(s.leafs) \in Nat /\ s.top \in Nat /\ s.top <= N
      /\ s.first \in Nat /\ s.first <= Len(s.leafs)
      /\ Bits(s) = 0 .. Len(s.leafs) - 1 /\ Pending(s) \subseteq Bits(s)
      /\ \A y \in Pending(s) : y \in Nat /\ y < Len(s.leafs)
  BY <1>1, StackFacts
<1>3. /\ z <= b.stmt.top /\ b.stmt.top <= b.scope.top /\ b.scope.top <= s.top /\ b.scope.first <= b.nbits
      /\ b.stmt.top \in Nat /\ b.scope.top \in Nat /\ b.scope.first \in Nat /\ b.nbits \in Nat /\ b.nbits <= s.first
  BY LastFacts
<1>4. \A y \in Pending(s) : y < s.first => /\ SlotAt(s.leafs, y) < b.scope.top
                                           /\ b.kind \notin {"match", "guarded"} => y < b.nbits
  BY LastFacts
<1> DEFINE X == ScopeBits(s)
           t == b.scope.top
           m == b.scope.first
<1>5. X \subseteq Bits(s) /\ \A y \in Pending(s) : y \in X <=> ~(y < s.first)
  BY <1>2 DEF ScopeBits
<1>6. t \in z .. N /\ m \in 0 .. Len(s.leafs) /\ Trimmed(s, o, t, m, X)
  <2>1. Trimmed(s, o, t, m, X)
    BY DEF Popped
  <2> HIDE DEF X
  <2>2. /\ z \in Nat /\ N \in Nat /\ s.top \in Nat /\ s.top <= N /\ s.first \in Nat /\ s.first <= Len(s.leafs)
        /\ Len(s.leafs) \in Nat
    BY <1>2
  <2>3. z <= t /\ t <= N /\ t \in Nat
    BY <1>3, <2>2
  <2>4. m <= Len(s.leafs) /\ m \in Nat
    BY <1>3, <2>2
  <2> HIDE DEF t, m
  <2> QED
    BY <2>1, <2>2, <2>3, <2>4
<1>7. \A y \in Pending(s) : y \in X \/ SlotAt(s.leafs, y) < t
  BY <1>3, <1>4, <1>5
<1> HIDE DEF X, t, m
<1>8. /\ IsStack(o, z, N) /\ o.leafs = s.leafs /\ o.top = t /\ o.first = m
      /\ \A y : y \in Pending(o) <=> y \in Pending(s) /\ y \notin X
  BY <1>1, <1>5, <1>6, <1>7, TrimmedOk
<1>9. \A y : y \in Pending(o) <=> y \in Pending(s) /\ y < s.first
  BY <1>5, <1>8
<1>10. ASSUME b.kind \notin {"match", "guarded"}, NEW y PROVE y \in Pending(o) <=> y \in Pending(s) /\ y < b.nbits
  <2>1. y \in Pending(s) => y \in Nat /\ (y < b.nbits => y < s.first)
    BY <1>2, <1>3
  <2> QED
    BY <1>3, <1>4, <1>9, <1>10, <2>1
<1> QED
  BY <1>8, <1>9, <1>10 DEF t, m

(* Then its statement scope. *)
LEMMA PopStmt ==
  ASSUME NEW s, NEW ls, NEW bs, NEW f, NEW z, NEW N, NEW W, Scoped(s, ls, bs, f, z, N, W), NEW b, IsLast(b, bs),
         NEW o, Popped(s, o, b.scope), NEW u, Popped(o, u, b.stmt), b.kind # "letloop"
  PROVE  /\ IsStack(u, z, N) /\ u.leafs = s.leafs /\ u.top = b.stmt.top /\ u.first = b.stmt.first
         /\ \A y : y \in Pending(u) <=> y \in Pending(s) /\ y < b.nbits
<1>1. /\ IsStack(o, z, N) /\ o.leafs = s.leafs /\ o.top = b.scope.top /\ o.first = b.scope.first
      /\ \A y : y \in Pending(o) <=> y \in Pending(s) /\ y < s.first
  BY PopBody
<1>2. /\ z \in Nat /\ N \in Nat /\ Len(o.leafs) \in Nat /\ o.top <= N
      /\ Bits(o) = 0 .. Len(o.leafs) - 1 /\ Pending(o) \subseteq Bits(o)
      /\ \A y \in Pending(o) : y \in Nat /\ y < Len(o.leafs)
  BY <1>1, StackFacts
<1>3. /\ z <= b.stmt.top /\ b.stmt.top <= b.scope.top /\ b.scope.first = b.nbits /\ b.stmt.first <= b.nbits
      /\ b.stmt.top \in Nat /\ b.stmt.first \in Nat /\ b.scope.top \in Nat /\ b.nbits \in Nat /\ b.nbits <= s.first
      /\ \A y \in Pending(s) : y < b.nbits => SlotAt(s.leafs, y) < b.stmt.top
  BY LastFacts
<1>9. s.first \in Nat /\ s.first <= Len(s.leafs)
  BY BlockFacts, StackFacts
<1> DEFINE X == ScopeBits(o)
           t == b.stmt.top
           m == b.stmt.first
<1>4. X \subseteq Bits(o) /\ \A y \in Pending(o) : y \in X <=> ~(y < b.nbits)
  BY <1>1, <1>2, <1>3 DEF ScopeBits
<1>5. t \in z .. N /\ m \in 0 .. Len(o.leafs) /\ Trimmed(o, u, t, m, X)
  <2>1. Trimmed(o, u, t, m, X)
    BY DEF Popped
  <2> HIDE DEF X
  <2>2. z <= t /\ t <= N /\ m <= Len(o.leafs) /\ t \in Nat /\ m \in Nat
    BY <1>1, <1>2, <1>3, <1>9
  <2> HIDE DEF t, m
  <2> QED
    BY <1>2, <2>1, <2>2
<1>6. \A y \in Pending(o) : y \in X \/ SlotAt(o.leafs, y) < t
  BY <1>1, <1>3, <1>4
<1> HIDE DEF X, t, m
<1>7. /\ IsStack(u, z, N) /\ u.leafs = o.leafs /\ u.top = t /\ u.first = m
      /\ \A y : y \in Pending(u) <=> y \in Pending(o) /\ y \notin X
  BY <1>1, <1>4, <1>5, <1>6, TrimmedOk
<1>8. \A y : y \in Pending(u) <=> y \in Pending(s) /\ y < b.nbits
  <2> TAKE y
  <2>1. y \in Pending(u) <=> y \in Pending(o) /\ y < b.nbits
    BY <1>4, <1>7
  <2>2. y \in Pending(s) => y \in Nat
    BY BlockFacts, StackFacts
  <2> QED
    BY <1>1, <1>3, <1>9, <2>1, <2>2
<1> QED
  BY <1>1, <1>7, <1>8 DEF t, m

(* A prefix of a sequence. *)
LEMMA SubSeqFacts ==
  ASSUME NEW q, IsSeq(q), NEW n \in Nat, n <= Len(q)
  PROVE  /\ IsSeq(SubSeq(q, 1, n)) /\ Len(SubSeq(q, 1, n)) = n
         /\ \A k \in 1 .. n : SubSeq(q, 1, n)[k] = q[k]
<1>1. PICK S : q \in Seq(S)
  BY DEF IsSeq
<1>2. SubSeq(q, 1, n) \in Seq(S)
  BY <1>1
<1>3. Len(SubSeq(q, 1, n)) = n
  BY <1>1
<1>4. \A k \in 1 .. n : SubSeq(q, 1, n)[k] = q[k]
  BY <1>1
<1> QED
  BY <1>2, <1>3, <1>4 DEF IsSeq

(* The last block is closed: u is the stack after it. *)
LEMMA ScopedEnd ==
  ASSUME NEW s, NEW ls, NEW bs, NEW f, NEW z, NEW N, NEW W, Scoped(s, ls, bs, f, z, N, W), NEW b, IsLast(b, bs),
         NEW u, IsStack(u, z, N), u.leafs = s.leafs, u.first = b.stmt.first, u.top >= b.stmt.top,
         \A y : y \in Pending(u) <=> y \in Pending(s) /\ y < b.nbits,
         NEW g, Carried(g, b, bs, s, ls)
  PROVE  LET ms == SubSeq(ls, 1, b.nlocals)
             cs == SubSeq(bs, 1, Len(bs) - 1)
         IN  /\ Scoped(u, ms, cs, g, z, N, W) /\ \A k \in 1 .. Len(cs) : Agree(cs[k], ls, ms)
             /\ IsSeq(cs) /\ Len(cs) = Len(bs) - 1 /\ \A k \in 1 .. Len(bs) - 1 : cs[k] = bs[k]
<1> DEFINE n == Len(bs) - 1
           ms == SubSeq(ls, 1, b.nlocals)
           cs == SubSeq(bs, 1, n)
<1>1. IsSeq(bs) /\ Len(bs) > 1 /\ IsSeq(ls) /\ b = bs[Len(bs)] /\ Len(bs) \in Nat /\ Len(ls) \in Nat
  BY BlockFacts DEF IsLast
<1>2. b.nlocals \in Nat /\ b.nlocals <= Len(ls)
  BY LastFacts
<1>3. IsSeq(cs) /\ Len(cs) = n /\ \A k \in 1 .. n : cs[k] = bs[k]
  <2>1. n \in Nat /\ n <= Len(bs)
    BY <1>1
  <2> HIDE DEF n
  <2> QED
    BY <1>1, <2>1, SubSeqFacts
<1>4. IsSeq(ms) /\ Len(ms) = b.nlocals /\ \A j \in 1 .. b.nlocals : ms[j] = ls[j]
  BY <1>1, <1>2, SubSeqFacts
<1>5. IsFlow(g) /\ (\A y \in g.may : y \in Pending(u)) /\ \A k \in 1 .. Len(bs) - 1 : Fits(g, bs[k], ls)
  BY DEF Carried
<1> HIDE DEF ms, cs
<1>6. /\ \A j \in 1 .. Len(ms) : ms[j] = ls[j]
      /\ g.may \subseteq Pending(u) /\ Len(cs) = Len(bs) - 1 /\ \A k \in 1 .. Len(cs) : cs[k] = bs[k]
  BY <1>3, <1>4, <1>5
<1>7. Scoped(u, ms, cs, g, z, N, W)
  <2>1. /\ Len(bs) > 1 /\ b = bs[Len(bs)] /\ IsSeq(ms) /\ Len(ms) = b.nlocals /\ \A j \in 1 .. Len(ms) : ms[j] = ls[j]
        /\ IsFlow(g) /\ g.may \subseteq Pending(u) /\ \A k \in 1 .. Len(bs) - 1 : Fits(g, bs[k], ls)
        /\ IsSeq(cs) /\ Len(cs) = Len(bs) - 1 /\ \A k \in 1 .. Len(cs) : cs[k] = bs[k]
    BY <1>1, <1>3, <1>4, <1>5, <1>6
  <2> QED
    BY SMTT(15), <2>1, ScopedClose
<1>8. ASSUME NEW k \in 1 .. Len(cs) PROVE Agree(cs[k], ls, ms)
  <2>1. k \in 1 .. Len(bs) /\ Len(bs) \in 1 .. Len(bs) /\ k < Len(bs) /\ cs[k] = bs[k]
    BY <1>1, <1>3
  <2>2. bs[k].nlocals <= b.nlocals /\ (bs[k].kind = "guarded" => bs[k].nlocals < b.nlocals) /\ bs[k].nlocals \in Nat
    BY <1>1, <2>1, WithinFacts, BlockFacts
  <2>3. \A j \in 1 .. bs[k].nlocals : ms[j] = ls[j]
    BY <1>2, <1>4, <2>2
  <2>4. bs[k].kind = "guarded" => ms[bs[k].nlocals + 1] = ls[bs[k].nlocals + 1]
    BY <1>2, <1>4, <2>2
  <2> QED
    BY <2>1, <2>3, <2>4 DEF Agree
<1>9. /\ Scoped(u, ms, cs, g, z, N, W) /\ \A k \in 1 .. Len(cs) : Agree(cs[k], ls, ms)
      /\ IsSeq(cs) /\ Len(cs) = Len(bs) - 1 /\ \A k \in 1 .. Len(bs) - 1 : cs[k] = bs[k]
  BY <1>3, <1>7, <1>8
<1> QED
  BY <1>9 DEF ms, cs

LeafsAre(o, l) == o.leafs = l
ScopeDropShape(s) == IsSeq(ScopeDrop(s)) /\ NoHole(ScopeDrop(s))

(* A drop bit not below n is dropped by the LocalDrop of stack o. *)
LEMMA DropRuns ==
  ASSUME NEW o, NEW l, LeafsAre(o, l), NEW z, NEW N, Slotted(l, z, N), o.first \in Nat,
         NEW F, F \subseteq 0 .. Len(l) - 1, Apart(l, F)
  PROVE  /\ ScopeDropShape(o)
         /\ \E G : /\ Runs(ScopeDrop(o), l, N, Settled(l, F), Settled(l, G)) /\ Settled(l, G) \in State(l, N)
                   /\ G \subseteq 0 .. Len(l) - 1 /\ Apart(l, G) /\ \A y : y \in G <=> y \in F /\ y < o.first
<1> DEFINE G == F \ ScopeBits(o)
           O == {}
<1>1. O \subseteq 0 .. N - 1 /\ O \cap SlotsOf(l, F) = {} /\ O = {}
  OBVIOUS
<1>2. G \subseteq F /\ G = F \ ScopeBits(o) /\ \A y : y \in G <=> y \in F /\ y \notin ScopeBits(o)
  OBVIOUS
<1>3. Len(l) \in Nat
  BY DEF Slotted
<1>4. \A y \in F : y \in ScopeBits(o) <=> ~(y < o.first)
  BY <1>3 DEF ScopeBits, LeafsAre
<1> HIDE DEF O, G
<1>5. /\ IsSeq(ScopeDrop(o)) /\ Runs(ScopeDrop(o), l, N, Holding(l, F, O), Holding(l, G, O))
      /\ \A k \in 1 .. Len(ScopeDrop(o)) : ScopeDrop(o)[k].op # "Skipped"
  BY <1>1, <1>2, ScopeDropRun DEF LeafsAre
<1>6. Holding(l, F, O) = Settled(l, F) /\ Holding(l, G, O) = Settled(l, G)
  BY <1>1 DEF Holding, Settled
<1>7. G \in SUBSET (0 .. Len(l) - 1) /\ Apart(l, G)
  BY <1>2 DEF Apart
<1>8. Settled(l, G) \in State(l, N)
  BY <1>1, <1>7, HoldingState
<1>9. \A y : y \in G <=> y \in F /\ y < o.first
  BY <1>2, <1>4
<1> QED
  BY <1>5, <1>6, <1>7, <1>8, <1>9 DEF ScopeDropShape, NoHole

(* The drops of the block scope lead to states of the flow out of the block. *)
LEMMA InnerRuns ==
  ASSUME NEW s, NEW ls, NEW bs, NEW f, NEW z, NEW N, NEW W, Scoped(s, ls, bs, f, z, N, W), NEW b, IsLast(b, bs),
         NEW g, g = Restrict(f, OuterBits(b)), NEW t, Arrives(s.leafs, f, t)
  PROVE  \E v \in State(s.leafs, N) :
            /\ Runs(ScopeDrop(s), s.leafs, N, t, v) /\ Ends(s.leafs, b.nbits, g, v)
            /\ b.kind \notin {"match", "guarded"} => Arrives(s.leafs, g, v)
<1> DEFINE l == s.leafs
<1>1. /\ IsStack(s, z, N) /\ IsFlow(f) /\ f.may \subseteq Pending(s)
  BY BlockFacts
<1>2. Slotted(l, z, N) /\ s.first \in Nat /\ Len(l) \in Nat /\ \A y \in Pending(s) : y \in Nat
  BY <1>1, StackFrame, StackFacts
<1>3. /\ b.nbits \in Nat /\ b.nbits <= s.first
      /\ \A y \in Pending(s) : y < s.first => (b.kind \notin {"match", "guarded"} => y < b.nbits)
  BY LastFacts
<1>4. g.reach = f.reach /\ g.must = f.must \cap (0 .. b.nbits - 1) /\ g.may = f.may \cap (0 .. b.nbits - 1)
  BY <1>1, RestrictFacts DEF OuterBits
<1>5. PICK F : /\ t = Settled(l, F) /\ F \subseteq 0 .. Len(l) - 1 /\ Apart(l, F)
               /\ f.must \subseteq F /\ F \subseteq f.may
  BY DEF Arrives
<1>6. f.reach
  BY DEF Arrives
<1>7. PICK G : /\ Runs(ScopeDrop(s), l, N, Settled(l, F), Settled(l, G)) /\ Settled(l, G) \in State(l, N)
               /\ G \subseteq 0 .. Len(l) - 1 /\ Apart(l, G) /\ \A y : y \in G <=> y \in F /\ y < s.first
  <2>1. LeafsAre(s, l) /\ F \subseteq 0 .. Len(l) - 1 /\ Apart(l, F)
    BY <1>5 DEF LeafsAre
  <2> QED
    BY <1>2, <2>1, DropRuns
<1>8. g.must \subseteq G
  <2> SUFFICES ASSUME NEW y \in g.must PROVE y \in G
    OBVIOUS
  <2>1. y \in F /\ y \in Nat /\ y < b.nbits
    BY <1>3, <1>4, <1>5
  <2> QED
    BY <1>2, <1>3, <1>7, <2>1
<1>9. \A y \in G : y \in f.may /\ y \in Nat /\ y \in Pending(s) /\ y < s.first
  BY <1>1, <1>2, <1>5, <1>7
<1>10. \A y \in G : y < b.nbits => y \in g.may
  BY <1>3, <1>4, <1>9
<1>11. Ends(l, b.nbits, g, Settled(l, G))
  BY <1>4, <1>6, <1>7, <1>8, <1>10 DEF Ends
<1>12. ASSUME b.kind \notin {"match", "guarded"} PROVE Arrives(l, g, Settled(l, G))
  <2>1. G \subseteq g.may
    BY <1>3, <1>9, <1>10, <1>12
  <2> QED
    BY <1>4, <1>6, <1>7, <1>8, <2>1 DEF Arrives
<1> QED
  BY <1>5, <1>7, <1>11, <1>12

(* The drops of the statement scope leave the bits registered before it. *)
LEMMA OuterRuns ==
  ASSUME NEW o, NEW l, LeafsAre(o, l), NEW z, NEW N, Slotted(l, z, N), o.first \in Nat, NEW g, NEW t, Ends(l, o.first, g, t),
         \A y \in g.must : y < o.first
  PROVE  \E v \in State(l, N) : Runs(ScopeDrop(o), l, N, t, v) /\ Arrives(l, g, v)
<1>1. PICK F : /\ t = Settled(l, F) /\ F \subseteq 0 .. Len(l) - 1 /\ Apart(l, F)
               /\ g.must \subseteq F /\ \A y \in F : y < o.first => y \in g.may
  BY DEF Ends
<1>2. g.reach
  BY DEF Ends
<1>3. PICK G : /\ Runs(ScopeDrop(o), l, N, Settled(l, F), Settled(l, G)) /\ Settled(l, G) \in State(l, N)
               /\ G \subseteq 0 .. Len(l) - 1 /\ Apart(l, G) /\ \A y : y \in G <=> y \in F /\ y < o.first
  <2>1. F \subseteq 0 .. Len(l) - 1 /\ Apart(l, F)
    BY <1>1
  <2> QED
    BY <2>1, DropRuns
<1>4. g.must \subseteq G /\ G \subseteq g.may
  BY <1>1, <1>3
<1>5. Arrives(l, g, Settled(l, G))
  BY <1>2, <1>3, <1>4 DEF Arrives
<1> QED
  BY <1>1, <1>3, <1>5

(* The states at the end of the last block b, its block scope popped. *)
Ended(Q, n, l, b, g) ==
  \A t \in Q[n] : Ends(l, b.nbits, g, t) /\ (b.kind \notin {"match", "guarded"} => Arrives(l, g, t))

(* The block scope of the last block is popped, its drops emitted. *)
LEMMA CloseInner ==
  ASSUME NEW R, NEW c, NEW s, NEW ls, NEW bs, NEW f, NEW z, NEW N, NEW W, Compiling(R, c, s, ls, bs, f, z, N, W),
         NEW b, IsLast(b, bs), NEW g, g = Restrict(f, OuterBits(b)), NEW d, d = c \o ScopeDrop(s)
  PROVE  \E Q : Traced(Q, d, s.leafs, z, N, bs, ls, {}) /\ Ended(Q, Len(d), s.leafs, b, g)
<1> USE DEF Ended
<1> DEFINE l == s.leafs
           X == {v \in State(l, N) : /\ Ends(l, b.nbits, g, v)
                                     /\ b.kind \notin {"match", "guarded"} => Arrives(l, g, v)}
           E0 == {}
<1>1. /\ Scoped(s, ls, bs, f, z, N, W) /\ Traced(R, c, l, z, N, bs, ls, E0) /\ \A t \in R[Len(c)] : Arrives(l, f, t)
      /\ IsStack(s, z, N)
  BY CompilingFacts
<1>2. IsSeq(ScopeDrop(s)) /\ \A k \in 1 .. Len(ScopeDrop(s)) : ScopeDrop(s)[k].op # "Skipped"
  <2> DEFINE F == {}
  <2>1. Slotted(l, z, N) /\ s.first \in Nat /\ LeafsAre(s, l)
    BY <1>1, StackFrame, StackFacts DEF LeafsAre
  <2>2. F \subseteq 0 .. Len(l) - 1 /\ Apart(l, F)
    BY DEF Apart
  <2> HIDE DEF F
  <2> QED
    BY <2>1, <2>2, DropRuns DEF ScopeDropShape, NoHole
<1>3. \A t \in R[Len(c)] : \E v \in X : Runs(ScopeDrop(s), l, N, t, v)
  <2> SUFFICES ASSUME NEW t \in R[Len(c)] PROVE \E v \in X : Runs(ScopeDrop(s), l, N, t, v)
    OBVIOUS
  <2>1. Arrives(s.leafs, f, t)
    BY <1>1
  <2>2. \E v \in State(s.leafs, N) :
            /\ Runs(ScopeDrop(s), s.leafs, N, t, v) /\ Ends(s.leafs, b.nbits, g, v)
            /\ b.kind \notin {"match", "guarded"} => Arrives(s.leafs, g, v)
    BY <1>1, <2>1, InnerRuns
  <2> QED
    BY <2>2
<1> HIDE DEF X, E0
<1>4. PICK Q : /\ Traced(Q, c \o ScopeDrop(s), l, z, N, bs, ls, E0) /\ Keeps(R, Q, Len(c))
               /\ Q[Len(c \o ScopeDrop(s))] \subseteq X
  BY <1>1, <1>2, <1>3, TracedRuns
<1> QED
  BY <1>4 DEF X, E0

(* The statement scope of the last block is popped, its drops emitted. *)
LEMMA EndStmtStep ==
  ASSUME NEW s, NEW ls, NEW bs, NEW f, NEW z, NEW N, NEW W \in Nat, Scoped(s, ls, bs, f, z, N, W), NEW b, IsLast(b, bs),
         NEW o, Popped(s, o, b.scope), NEW u, Popped(o, u, b.stmt), b.kind # "letloop",
         NEW R, NEW d, NEW cs, Traced(R, d, s.leafs, z, N, cs, ls, {}), cs = SubSeq(bs, 1, Len(bs) - 1),
         NEW g, Carried(g, b, bs, s, ls), \A t \in R[Len(d)] : Ends(s.leafs, b.nbits, g, t)
  PROVE  \E Q : Compiling(Q, d \o ScopeDrop(o), u, SubSeq(ls, 1, b.nlocals), cs, g, z, N, W)
<1> DEFINE l == s.leafs
           X == {v \in State(l, N) : Arrives(l, g, v)}
           E0 == {}
           ms == SubSeq(ls, 1, b.nlocals)
           e == d \o ScopeDrop(o)
<1>1. /\ IsStack(o, z, N) /\ o.leafs = s.leafs /\ o.first = b.scope.first
  BY PopBody
<1>2. /\ IsStack(u, z, N) /\ u.leafs = s.leafs /\ u.top = b.stmt.top /\ u.first = b.stmt.first
      /\ \A y : y \in Pending(u) <=> y \in Pending(s) /\ y < b.nbits
  BY PopStmt
<1>3. Slotted(l, z, N) /\ o.first \in Nat /\ o.first = b.nbits /\ b.stmt.top \in Nat /\ Len(l) \in Nat
  BY <1>1, LastFacts, StackFrame
<1>4. /\ Scoped(u, ms, cs, g, z, N, W) /\ \A k \in 1 .. Len(cs) : Agree(cs[k], ls, ms)
  BY <1>2, <1>3, ScopedEnd
<1>5. \A y \in g.must : y < o.first
  BY <1>3 DEF Carried, IsFlow
<1>6. IsSeq(ScopeDrop(o)) /\ \A k \in 1 .. Len(ScopeDrop(o)) : ScopeDrop(o)[k].op # "Skipped"
  <2> DEFINE F == {}
  <2>2. F \subseteq 0 .. Len(l) - 1 /\ Apart(l, F) /\ LeafsAre(o, l)
    BY <1>1 DEF Apart, LeafsAre
  <2> HIDE DEF F
  <2> QED
    BY <1>3, <2>2, DropRuns DEF ScopeDropShape, NoHole
<1>7. \A t \in R[Len(d)] : \E v \in X : Runs(ScopeDrop(o), l, N, t, v)
  <2> SUFFICES ASSUME NEW t \in R[Len(d)] PROVE \E v \in X : Runs(ScopeDrop(o), l, N, t, v)
    OBVIOUS
  <2>1. Ends(l, o.first, g, t) /\ LeafsAre(o, l)
    BY <1>1, <1>3 DEF LeafsAre
  <2>2. \E v \in State(l, N) : Runs(ScopeDrop(o), l, N, t, v) /\ Arrives(l, g, v)
    BY <1>3, <1>5, <2>1, OuterRuns
  <2> QED
    BY <2>2
<1>8. Traced(R, d, l, z, N, cs, ls, E0)
  OBVIOUS
<1> HIDE DEF X, E0, ms
<1>9. PICK Q : Traced(Q, d \o ScopeDrop(o), l, z, N, cs, ls, E0) /\ Q[Len(d \o ScopeDrop(o))] \subseteq X
  BY <1>6, <1>7, <1>8, TracedRuns
<1>10. Extends(l, l)
  BY <1>3, ExtendsItself
<1> HIDE DEF e
<1>11. Traced(Q, d \o ScopeDrop(o), l, z, N, cs, ms, E0)
  <2>1. Traced(Q, d \o ScopeDrop(o), l, z, N, cs, ls, E0) /\ \A k \in 1 .. Len(cs) : Agree(cs[k], ls, ms)
    BY <1>4, <1>9
  <2> QED
    BY <1>3, <1>10, <2>1, TracedGrow
<1>12. \A t \in Q[Len(d \o ScopeDrop(o))] : Arrives(l, g, t)
  BY <1>9 DEF X
<1>13. Compiling(Q, d \o ScopeDrop(o), u, ms, cs, g, z, N, W)
  BY <1>2, <1>4, <1>11, <1>12 DEF Compiling, E0
<1> QED
  BY <1>13 DEF ms

(* A jump to x. *)
LEMMA JumpOk ==
  ASSUME NEW R, NEW h \in Nat, NEW x \in Nat, NEW l, \A t \in R[h] : Clean(l, t) /\ t \in R[x]
  PROVE  StepOk(R, Jump(x - h), h, l) /\ Jump(x - h).op # "Skipped"
<1> DEFINE i == Jump(x - h)
<1>1. i.op = "Jump" /\ i.off = x - h
  BY DEF Jump
<1> HIDE DEF i
<1>2. Nexts(i, h) = {x}
  BY <1>1 DEF Nexts
<1>3. \A t : After(i, l, t) = t /\ (Clean(l, t) => Safe(i, l, t))
  BY <1>1 DEF After, Safe
<1>4. StepOk(R, i, h, l) /\ i.op # "Skipped"
  BY <1>1, <1>2, <1>3 DEF StepOk
<1> QED
  BY <1>4 DEF i

(* A conditional jump to x. *)
LEMMA JumpFOk ==
  ASSUME NEW R, NEW h \in Nat, NEW x \in Nat, NEW l, NEW sure \in BOOLEAN,
         \A t \in R[h] : Clean(l, t) /\ t \in R[h + 1] /\ (sure \/ t \in R[x])
  PROVE  StepOk(R, JumpF(x - h, sure), h, l) /\ JumpF(x - h, sure).op # "Skipped"
<1> DEFINE i == JumpF(x - h, sure)
<1>1. i.op = "JumpF" /\ i.off = x - h /\ i.sure = sure
  BY DEF JumpF
<1> HIDE DEF i
<1>2. \A y \in Nexts(i, h) : y = h + 1 \/ (~sure /\ y = x)
  BY <1>1 DEF Nexts
<1>3. \A t : After(i, l, t) = t /\ (Clean(l, t) => Safe(i, l, t))
  BY <1>1 DEF After, Safe
<1>4. \A t \in R[h] : \A y \in Nexts(i, h) : y \in Nat /\ t \in R[y]
  BY <1>2
<1>5. StepOk(R, i, h, l) /\ i.op # "Skipped"
  BY <1>1, <1>3, <1>4 DEF StepOk
<1> QED
  BY <1>5 DEF i

Frees(D, E, b) == E \cup Holes(b) \subseteq D

(* The last block's holes are left over when it is closed. *)
LEMMA TracedEnd ==
  ASSUME NEW R, NEW c, NEW l, NEW z, NEW N, NEW bs, NEW ls, NEW E, Traced(R, c, l, z, N, bs, ls, E),
         NEW b, IsLast(b, bs), NEW D, Frees(D, E, b)
  PROVE  Traced(R, c, l, z, N, SubSeq(bs, 1, Len(bs) - 1), ls, D)
<1> DEFINE n == Len(bs) - 1
           cs == SubSeq(bs, 1, n)
<1>1. IsSeq(bs) /\ Len(bs) > 1 /\ Len(bs) \in Nat /\ b = bs[Len(bs)]
  BY IsSeqFacts DEF IsLast
<1>2. n \in Nat /\ n <= Len(bs) /\ Len(bs) = n + 1
  BY <1>1
<1> HIDE DEF n
<1>3. IsSeq(cs) /\ Len(cs) = n /\ \A k \in 1 .. n : cs[k] = bs[k]
  BY <1>1, <1>2, SubSeqFacts
<1>4. E \cup Holes(bs[n + 1]) \subseteq D
  BY <1>1, <1>2 DEF Frees
<1> HIDE DEF cs
<1>5. Traced(R, c, l, z, N, cs, ls, D)
  BY <1>2, <1>3, <1>4, TracedClose
<1> QED
  BY <1>5 DEF cs, n

(* The holes of the innermost block. *)
LEMMA LastHole ==
  ASSUME NEW R, NEW c, NEW l, NEW z, NEW N, NEW bs, NEW ls, NEW E, Traced(R, c, l, z, N, bs, ls, E),
         NEW b, IsLast(b, bs)
  PROVE  /\ HoleOk(R, l, b, ls) /\ Placed(b, Len(c)) /\ Len(c) \in Nat /\ IsSeq(c)
         /\ \A h \in Holes(b) : h \in 0 .. Len(c) - 1 /\ h \in Nat /\ h < Len(c) /\ R[h] \in SUBSET State(l, N)
         /\ R[Len(c)] \in SUBSET State(l, N)
<1>1. Len(bs) \in 1 .. Len(bs) /\ b = bs[Len(bs)]
  BY IsSeqFacts DEF IsLast
<1>2. HoleOk(R, l, b, ls) /\ Placed(b, Len(c)) /\ Len(c) \in Nat /\ R \in [Nat -> SUBSET State(l, N)] /\ IsSeq(c)
  BY <1>1, TracedFacts
<1>3. \A h \in Holes(b) : h \in 0 .. Len(c) - 1
  BY <1>2 DEF Placed
<1> QED
  BY <1>2, <1>3

(* `}` of a block *)
LEMMA CloseBlockStep ==
  ASSUME NEW R, NEW c, NEW s, NEW ls, NEW bs, NEW f, NEW z, NEW N, NEW W, Compiling(R, c, s, ls, bs, f, z, N, W),
         NEW b, IsLast(b, bs), b.kind = "block", NEW o, Popped(s, o, b.scope), NEW u, Popped(o, u, b.stmt),
         NEW g, g = Restrict(f, OuterBits(b)), NEW e, e = c \o ScopeDrop(s)
  PROVE  \E Q : Compiling(Q, e \o ScopeDrop(o), u, SubSeq(ls, 1, b.nlocals), SubSeq(bs, 1, Len(bs) - 1), g, z, N, W)
<1> DEFINE l == s.leafs
           E0 == {}
           cs == SubSeq(bs, 1, Len(bs) - 1)
<1>1. Scoped(s, ls, bs, f, z, N, W) /\ W \in Nat
  BY CompilingFacts
<1>2. PICK Q : Traced(Q, e, l, z, N, bs, ls, E0) /\ \A t \in Q[Len(e)] : Ends(l, b.nbits, g, t)
  BY CloseInner DEF Ended
<1>3. Frees(E0, E0, b)
  BY DEF Frees, Holes, Falls, Exits
<1> HIDE DEF E0
<1>4. Traced(Q, e, l, z, N, cs, ls, E0)
  BY <1>2, <1>3, TracedEnd
<1>5. Carried(g, b, bs, s, ls)
  BY <1>1, LastCarried DEF IsLast
<1>6. b.kind # "letloop" /\ Traced(Q, e, s.leafs, z, N, cs, ls, {}) /\ \A t \in Q[Len(e)] : Ends(s.leafs, b.nbits, g, t)
  BY <1>2, <1>4 DEF E0
<1>7. cs = SubSeq(bs, 1, Len(bs) - 1)
  OBVIOUS
<1> HIDE DEF cs
<1> QED
  BY <1>1, <1>5, <1>6, <1>7, EndStmtStep

(* Instruction i may be put at h once h's states reach the end n of the code.   *)
Fillable(R, i, h, l, n) == i.op # "Skipped" /\ \A Q : Widened(R, Q, n, R[h]) => StepOk(Q, i, h, l)

(* Hole h of block b: D are the others and E. *)
FreesOne(D, E, b, h) == h \in Holes(b) /\ Frees(D \cup {h}, E, b)

Leads(R, Q, c, d, h) == Widened(R, Q, Len(c), R[h]) /\ Len(d) = Len(c)

(* A hole of the last block leads to the end of the code, and the block is      *)
(* closed.                                                                      *)
LEMMA FillLast ==
  ASSUME NEW R, NEW c, NEW l, NEW z, NEW N, NEW bs, NEW ls, NEW E, Traced(R, c, l, z, N, bs, ls, E),
         NEW b, IsLast(b, bs), NEW h, NEW i, Fillable(R, i, h, l, Len(c)),
         NEW D, FreesOne(D, E, b, h)
  PROVE  \E Q : /\ Traced(Q, Patch(c, h, i), l, z, N, SubSeq(bs, 1, Len(bs) - 1), ls, D)
                /\ Leads(R, Q, c, Patch(c, h, i), h)
<1> DEFINE cs == SubSeq(bs, 1, Len(bs) - 1)
           d == [c EXCEPT ![h + 1] = i]
           X == R[h]
           H == D \cup {h}
<1>1. h \in 0 .. Len(c) - 1 /\ X \in SUBSET State(l, N)
  BY LastHole DEF FreesOne
<1>2. i.op # "Skipped" /\ \A Q : Widened(R, Q, Len(c), X) => StepOk(Q, i, h, l)
  BY DEF Fillable
<1>3. Frees(H, E, b) /\ H \subseteq D \cup {h}
  BY DEF FreesOne
<1>4. Patch(c, h, i) = d
  BY DEF Patch
<1> HIDE DEF X, H
<1>5. PICK Q : Traced(Q, c, l, z, N, bs, ls, E) /\ Widened(R, Q, Len(c), X)
  BY <1>1, TracedWiden
<1>6. Traced(Q, c, l, z, N, cs, ls, H)
  BY <1>3, <1>5, TracedEnd
<1>7. StepOk(Q, i, h, l)
  BY <1>2, <1>5
<1> HIDE DEF cs
<1>8. Traced(Q, d, l, z, N, cs, ls, D) /\ Len(d) = Len(c)
  BY <1>1, <1>2, <1>3, <1>6, <1>7, TracedFill
<1> HIDE DEF d
<1> QED
  BY <1>4, <1>5, <1>8 DEF X, cs, Leads

(* The states of hole h also reach the end. *)
LEMMA WidenedEnds ==
  ASSUME NEW R, NEW Q, NEW n \in Nat, NEW h, h < n, h \in Nat, Widened(R, Q, n, R[h])
  PROVE  /\ \A t \in Q[h] : t \in R[h] /\ t \in Q[n] /\ (t \in R[h + 1] => t \in Q[h + 1])
         /\ \A t \in Q[n] : t \in R[n] \/ t \in R[h]
<1>1. h \in 0 .. n - 1 /\ (h + 1 \in 0 .. n - 1 \/ h + 1 = n)
  OBVIOUS
<1>2. (\A k \in 0 .. n - 1 : Q[k] = R[k]) /\ Q[n] = R[n] \cup R[h]
  BY DEF Widened
<1> QED
  BY <1>1, <1>2

(* `}` of an `if` without `else` *)
LEMMA CloseThenStep ==
  ASSUME NEW R, NEW c, NEW s, NEW ls, NEW bs, NEW f, NEW z, NEW N, NEW W, Compiling(R, c, s, ls, bs, f, z, N, W),
         NEW b, IsLast(b, bs), b.kind = "then", NEW o, Popped(s, o, b.scope), NEW u, Popped(o, u, b.stmt),
         NEW g, g = Restrict(f, OuterBits(b)), NEW e, e = c \o ScopeDrop(s)
  PROVE  \E Q : Compiling(Q, Patch(e, b.patch, JumpF(Len(e) - b.patch, FALSE)) \o ScopeDrop(o), u,
                          SubSeq(ls, 1, b.nlocals), SubSeq(bs, 1, Len(bs) - 1), Join(g, b.entry), z, N, W)
<1> DEFINE l == s.leafs
           E0 == {}
           cs == SubSeq(bs, 1, Len(bs) - 1)
           h == b.patch
           i == JumpF(Len(e) - h, FALSE)
           j == Join(g, b.entry)
<1>1. Scoped(s, ls, bs, f, z, N, W) /\ W \in Nat
  BY CompilingFacts
<1>2. PICK Q : Traced(Q, e, l, z, N, bs, ls, E0) /\ \A t \in Q[Len(e)] : Ends(l, b.nbits, g, t)
  BY CloseInner DEF Ended
<1>3. Holes(b) = {h} /\ Falls(b) = {h}
  BY DEF Holes, Falls, Exits
<1>4. HoleOk(Q, l, b, ls) /\ h \in Nat /\ h < Len(e) /\ Len(e) \in Nat
  BY <1>2, <1>3, LastHole
<1>5. /\ \A t \in Q[h] : Clean(l, t) /\ t \in Q[h + 1] /\ Arrives(l, b.entry, t)
  BY <1>3, <1>4 DEF HoleOk
<1>6. ASSUME NEW P, Widened(Q, P, Len(e), Q[h]) PROVE StepOk(P, i, h, l)
  <2>1. \A t \in P[h] : t \in Q[h] /\ t \in P[Len(e)] /\ (t \in Q[h + 1] => t \in P[h + 1])
    BY <1>4, <1>6, WidenedEnds
  <2>2. \A t \in P[h] : Clean(l, t) /\ t \in P[h + 1] /\ (FALSE \/ t \in P[Len(e)])
    BY <1>5, <2>1
  <2> QED
    BY <1>4, <2>2, JumpFOk
<1>7. i.op # "Skipped" /\ Frees(E0 \cup {h}, E0, b)
  BY <1>3 DEF JumpF, Frees
<1>8. FreesOne(E0, E0, b, h)
  BY <1>3, <1>7 DEF FreesOne
<1>16. Fillable(Q, i, h, l, Len(e))
  BY <1>6, <1>7 DEF Fillable
<1> HIDE DEF E0, h, i
<1>9. PICK P : /\ Traced(P, Patch(e, h, i), l, z, N, cs, ls, E0)
               /\ Widened(Q, P, Len(e), Q[h]) /\ Len(Patch(e, h, i)) = Len(e)
  <2>1. Traced(Q, e, l, z, N, bs, ls, E0) /\ FreesOne(E0, E0, b, h) /\ Fillable(Q, i, h, l, Len(e))
    BY <1>2, <1>8, <1>16
  <2> HIDE DEF l
  <2>2. \E P : /\ Traced(P, Patch(e, h, i), l, z, N, SubSeq(bs, 1, Len(bs) - 1), ls, E0)
               /\ Leads(Q, P, e, Patch(e, h, i), h)
    BY <2>1, FillLast
  <2> QED
    BY <2>2 DEF Leads
<1>10. Carried(g, b, bs, s, ls) /\ Carried(b.entry, b, bs, s, ls)
  BY <1>1, LastCarried DEF IsLast
<1>11. Carried(j, b, bs, s, ls)
  BY <1>10, JoinCarried
<1>12. \A t \in P[Len(Patch(e, h, i))] : Ends(l, b.nbits, j, t)
  <2> SUFFICES ASSUME NEW t \in P[Len(e)] PROVE Ends(l, b.nbits, j, t)
    BY <1>9
  <2>1. t \in Q[Len(e)] \/ t \in Q[h]
    BY <1>4, <1>9, WidenedEnds
  <2>2. Ends(l, b.nbits, g, t) \/ Ends(l, b.nbits, b.entry, t)
    BY <1>2, <1>5, <2>1, ArrivesEnds
  <2> QED
    BY <1>10, <2>2, JoinArrives DEF Carried
<1>13. b.kind # "letloop" /\ Traced(P, Patch(e, h, i), s.leafs, z, N, cs, ls, {})
       /\ \A t \in P[Len(Patch(e, h, i))] : Ends(s.leafs, b.nbits, j, t)
  BY <1>9, <1>12 DEF E0
<1>14. cs = SubSeq(bs, 1, Len(bs) - 1)
  OBVIOUS
<1> HIDE DEF cs, j
<1>15. \E M : Compiling(M, Patch(e, h, i) \o ScopeDrop(o), u, SubSeq(ls, 1, b.nlocals), cs, j, z, N, W)
  BY <1>1, <1>11, <1>13, <1>14, EndStmtStep
<1> QED
  BY <1>15 DEF cs, j, h, i

(* `}` of an `else` *)
LEMMA CloseElseStep ==
  ASSUME NEW R, NEW c, NEW s, NEW ls, NEW bs, NEW f, NEW z, NEW N, NEW W, Compiling(R, c, s, ls, bs, f, z, N, W),
         NEW b, IsLast(b, bs), b.kind = "else", NEW o, Popped(s, o, b.scope), NEW u, Popped(o, u, b.stmt),
         NEW g, g = Restrict(f, OuterBits(b)), NEW e, e = c \o ScopeDrop(s)
  PROVE  \E Q : Compiling(Q, Patch(e, b.patch, Jump(Len(e) - b.patch)) \o ScopeDrop(o), u,
                          SubSeq(ls, 1, b.nlocals), SubSeq(bs, 1, Len(bs) - 1), Join(g, b.exit), z, N, W)
<1> DEFINE l == s.leafs
           E0 == {}
           cs == SubSeq(bs, 1, Len(bs) - 1)
           h == b.patch
           i == Jump(Len(e) - h)
           j == Join(g, b.exit)
<1>1. Scoped(s, ls, bs, f, z, N, W) /\ W \in Nat
  BY CompilingFacts
<1>2. PICK Q : Traced(Q, e, l, z, N, bs, ls, E0) /\ \A t \in Q[Len(e)] : Ends(l, b.nbits, g, t)
  BY CloseInner DEF Ended
<1>3. Holes(b) = {h} /\ Exits(b) = {h}
  BY DEF Holes, Falls, Exits
<1>4. HoleOk(Q, l, b, ls) /\ h \in Nat /\ h < Len(e) /\ Len(e) \in Nat
  BY <1>2, <1>3, LastHole
<1>5. /\ \A t \in Q[h] : Clean(l, t) /\ Ends(l, b.nbits, b.exit, t)
  BY <1>3, <1>4, ArrivesEnds DEF HoleOk
<1>6. ASSUME NEW P, Widened(Q, P, Len(e), Q[h]) PROVE StepOk(P, i, h, l)
  <2>1. \A t \in P[h] : t \in Q[h] /\ t \in P[Len(e)] /\ (t \in Q[h + 1] => t \in P[h + 1])
    BY <1>4, <1>6, WidenedEnds
  <2>2. \A t \in P[h] : Clean(l, t) /\ t \in P[Len(e)]
    BY <1>5, <2>1
  <2> QED
    BY <1>4, <2>2, JumpOk
<1>7. i.op # "Skipped" /\ Frees(E0 \cup {h}, E0, b)
  BY <1>3 DEF Jump, Frees
<1>8. FreesOne(E0, E0, b, h)
  BY <1>3, <1>7 DEF FreesOne
<1>16. Fillable(Q, i, h, l, Len(e))
  BY <1>6, <1>7 DEF Fillable
<1> HIDE DEF E0, h, i
<1>9. PICK P : /\ Traced(P, Patch(e, h, i), l, z, N, cs, ls, E0)
               /\ Widened(Q, P, Len(e), Q[h]) /\ Len(Patch(e, h, i)) = Len(e)
  <2>1. Traced(Q, e, l, z, N, bs, ls, E0) /\ FreesOne(E0, E0, b, h) /\ Fillable(Q, i, h, l, Len(e))
    BY <1>2, <1>8, <1>16
  <2> HIDE DEF l
  <2>2. \E P : /\ Traced(P, Patch(e, h, i), l, z, N, SubSeq(bs, 1, Len(bs) - 1), ls, E0)
               /\ Leads(Q, P, e, Patch(e, h, i), h)
    BY <2>1, FillLast
  <2> QED
    BY <2>2 DEF Leads
<1>10. Carried(g, b, bs, s, ls) /\ Carried(b.exit, b, bs, s, ls)
  BY <1>1, LastCarried DEF IsLast
<1>11. Carried(j, b, bs, s, ls)
  BY <1>10, JoinCarried
<1>12. \A t \in P[Len(Patch(e, h, i))] : Ends(l, b.nbits, j, t)
  <2> SUFFICES ASSUME NEW t \in P[Len(e)] PROVE Ends(l, b.nbits, j, t)
    BY <1>9
  <2>1. t \in Q[Len(e)] \/ t \in Q[h]
    BY <1>4, <1>9, WidenedEnds
  <2>2. Ends(l, b.nbits, g, t) \/ Ends(l, b.nbits, b.exit, t)
    BY <1>2, <1>5, <2>1
  <2> QED
    BY <1>10, <2>2, JoinArrives DEF Carried
<1>13. b.kind # "letloop" /\ Traced(P, Patch(e, h, i), s.leafs, z, N, cs, ls, {})
       /\ \A t \in P[Len(Patch(e, h, i))] : Ends(s.leafs, b.nbits, j, t)
  BY <1>9, <1>12 DEF E0
<1>14. cs = SubSeq(bs, 1, Len(bs) - 1)
  OBVIOUS
<1> HIDE DEF cs, j
<1>15. \E M : Compiling(M, Patch(e, h, i) \o ScopeDrop(o), u, SubSeq(ls, 1, b.nlocals), cs, j, z, N, W)
  BY <1>1, <1>11, <1>13, <1>14, EndStmtStep
<1> QED
  BY <1>15 DEF cs, j, h, i

(* A flow at the start of block d, the stack being s before the scope of b was  *)
(* popped.                                                                      *)
Enters(g, d, bs, s, ls) ==
  /\ IsFlow(g) /\ \A y \in g.may : y \in Pending(s) /\ y < s.first
  /\ \A k \in 1 .. Len(bs) - 1 : Fits(g, bs[k], ls)
  /\ \A y \in g.may : y < d.nbits => y \in d.entry.may

(* The locals and the blocks that are left when the last block b is closed. *)
Kept(ms, cs, ls, bs, b) == ms = SubSeq(ls, 1, b.nlocals) /\ cs = SubSeq(bs, 1, Len(bs) - 1)

(* What stays when the innermost block is closed. *)
LEMMA KeptFacts ==
  ASSUME NEW s, NEW ls, NEW bs, NEW f, NEW z, NEW N, NEW W, Scoped(s, ls, bs, f, z, N, W), NEW b, IsLast(b, bs),
         NEW ms, NEW cs, Kept(ms, cs, ls, bs, b)
  PROVE  /\ IsSeq(ms) /\ Len(ms) = b.nlocals /\ \A j \in 1 .. b.nlocals : ms[j] = ls[j]
         /\ IsSeq(cs) /\ Len(cs) = Len(bs) - 1 /\ \A k \in 1 .. Len(bs) - 1 : cs[k] = bs[k]
         /\ \A k \in 1 .. Len(cs) : Agree(cs[k], ls, ms)
         /\ Len(bs) \in Nat /\ Len(ls) \in Nat /\ Len(bs) > 1 /\ b = bs[Len(bs)] /\ b.nlocals \in Nat /\ b.nlocals <= Len(ls)
<1> DEFINE n == Len(bs) - 1
<1>1. IsSeq(bs) /\ Len(bs) > 1 /\ IsSeq(ls) /\ b = bs[Len(bs)] /\ Len(bs) \in Nat /\ Len(ls) \in Nat
  BY BlockFacts DEF IsLast
<1>2. b.nlocals \in Nat /\ b.nlocals <= Len(ls)
  BY LastFacts
<1>3. IsSeq(cs) /\ Len(cs) = n /\ \A k \in 1 .. n : cs[k] = bs[k]
  <2>1. n \in Nat /\ n <= Len(bs) /\ cs = SubSeq(bs, 1, n)
    BY <1>1 DEF Kept
  <2> HIDE DEF n
  <2> QED
    BY <1>1, <2>1, SubSeqFacts
<1>4. IsSeq(ms) /\ Len(ms) = b.nlocals /\ \A j \in 1 .. b.nlocals : ms[j] = ls[j]
  <2>1. ms = SubSeq(ls, 1, b.nlocals)
    BY DEF Kept
  <2> QED
    BY <1>1, <1>2, <2>1, SubSeqFacts
<1>8. ASSUME NEW k \in 1 .. Len(cs) PROVE Agree(cs[k], ls, ms)
  <2>1. k \in 1 .. Len(bs) /\ Len(bs) \in 1 .. Len(bs) /\ k < Len(bs) /\ cs[k] = bs[k]
    BY <1>1, <1>3
  <2>2. bs[k].nlocals <= b.nlocals /\ (bs[k].kind = "guarded" => bs[k].nlocals < b.nlocals) /\ bs[k].nlocals \in Nat
    BY <1>1, <2>1, WithinFacts, BlockFacts
  <2>3. \A j \in 1 .. bs[k].nlocals : ms[j] = ls[j]
    BY <1>2, <1>4, <2>2
  <2>4. bs[k].kind = "guarded" => ms[bs[k].nlocals + 1] = ls[bs[k].nlocals + 1]
    BY <1>2, <1>4, <2>2
  <2> QED
    BY <2>1, <2>3, <2>4 DEF Agree
<1> QED
  BY <1>1, <1>2, <1>3, <1>4, <1>8

(* Scopes stay well formed when one body of a statement follows another. *)
LEMMA ScopedFollow ==
  ASSUME NEW s, NEW ls, NEW bs, NEW f, NEW z, NEW N, NEW W, Scoped(s, ls, bs, f, z, N, W), NEW b, IsLast(b, bs),
         NEW o, Popped(s, o, b.scope), NEW u, BodyAt(o, u, o.top),
         NEW ms, NEW cs, Kept(ms, cs, ls, bs, b),
         NEW d, Follows(d, b), Carried(d.exit, b, bs, s, ls), NEW g, Enters(g, d, bs, s, ls)
  PROVE  Scoped(u, ms, Append(cs, d), g, z, N, W) /\ IsStack(u, z, N) /\ u.leafs = s.leafs
<1>1. /\ IsStack(o, z, N) /\ o.leafs = s.leafs /\ o.top = b.scope.top /\ o.first = b.scope.first
      /\ \A y : y \in Pending(o) <=> y \in Pending(s) /\ y < s.first
  BY PopBody
<1>2. IsStack(u, z, N) /\ u.leafs = o.leafs /\ u.top = o.top /\ u.first = Len(o.leafs)
      /\ \A y : y \in Pending(u) <=> y \in Pending(o)
  <2> DEFINE m == Len(o.leafs)
             t == o.top
  <2>1. t \in Nat /\ Trimmed(o, u, t, m, {}) /\ t >= o.top /\ t <= N /\ m = Len(o.leafs)
    BY <1>1, StackFacts DEF BodyAt
  <2> HIDE DEF m, t
  <2>2. /\ IsStack(u, z, N) /\ u.leafs = o.leafs /\ u.top = t /\ u.first = m
        /\ \A y : y \in Pending(u) <=> y \in Pending(o)
    BY <1>1, <2>1, SameTop
  <2> QED
    BY <2>2 DEF m, t
<1>3. /\ IsSeq(ms) /\ Len(ms) = b.nlocals /\ \A j \in 1 .. Len(ms) : ms[j] = ls[j]
      /\ IsSeq(cs) /\ Len(cs) = Len(bs) - 1 /\ \A k \in 1 .. Len(bs) - 1 : cs[k] = bs[k]
      /\ Len(bs) \in Nat /\ Len(bs) > 1
  BY KeptFacts
<1> DEFINE ds == Append(cs, d)
<1>4. IsSeq(ds) /\ Len(ds) = Len(bs) /\ (\A k \in 1 .. Len(ds) - 1 : ds[k] = bs[k]) /\ ds[Len(ds)] = d
  <2>1. IsSeq(ds) /\ Len(ds) = Len(cs) + 1 /\ (\A k \in 1 .. Len(cs) : ds[k] = cs[k]) /\ ds[Len(cs) + 1] = d
    BY <1>3, IsSeqFacts
  <2> HIDE DEF ds
  <2> QED
    BY <1>3, <2>1
<1>7. /\ IsFlow(g) /\ g.may \subseteq Pending(u) /\ \A k \in 1 .. Len(bs) - 1 : Fits(g, bs[k], ls)
      /\ Fits(g, d, ms)
  BY <1>1, <1>2 DEF Enters, Fits, Knows
<1>8. /\ u.leafs = s.leafs /\ u.first = Len(u.leafs) /\ u.top = b.scope.top
      /\ \A y : y \in Pending(u) <=> y \in Pending(s) /\ y < s.first
  BY <1>1, <1>2
<1> HIDE DEF ds
<1>10. Scoped(u, ms, ds, g, z, N, W)
  <2>1. Reopened(s, u, b) /\ CutTo(ms, ls, b.nlocals) /\ LastReplaced(ds, bs, d)
    BY <1>3, <1>4, <1>8 DEF Reopened, CutTo, LastReplaced
  <2> QED
    BY <1>2, <1>7, <2>1, ScopedNext
<1> QED
  BY <1>2, <1>8, <1>10 DEF ds

(* The code between the two blocks. *)
LEMMA TracedFollow ==
  ASSUME NEW s, NEW ls, NEW bs, NEW f, NEW z, NEW N, NEW W, Scoped(s, ls, bs, f, z, N, W), NEW b, IsLast(b, bs),
         NEW ms, NEW cs, Kept(ms, cs, ls, bs, b), NEW d, Follows(d, b),
         NEW R, NEW c, NEW E, Traced(R, c, s.leafs, z, N, cs, ls, E),
         HoleOk(R, s.leafs, d, ls), Placed(d, Len(c)), NEW D, Frees(Holes(d) \cup D, E, d)
  PROVE  Traced(R, c, s.leafs, z, N, Append(cs, d), ms, D)
<1> DEFINE l == s.leafs
           ds == Append(cs, d)
<1>1. /\ Len(ms) = b.nlocals /\ \A j \in 1 .. b.nlocals : ms[j] = ls[j]
      /\ IsSeq(cs) /\ Len(cs) \in Nat
      /\ \A k \in 1 .. Len(cs) : Agree(cs[k], ls, ms)
  BY KeptFacts, IsSeqFacts
<1>2. d.nbits \in Nat /\ d.nbits <= Len(l) /\ Len(l) \in Nat /\ d.nlocals = b.nlocals /\ d.kind # "guarded"
  <2>1. b.nbits \in Nat /\ b.nbits <= s.first /\ s.first \in Nat /\ s.first <= Len(s.leafs) /\ Len(s.leafs) \in Nat
    BY LastFacts, BlockFacts, StackFacts
  <2> QED
    BY <2>1 DEF Follows
<1>3. E \subseteq D \cup Holes(d)
  BY DEF Frees
<1> HIDE DEF l
<1>4. Traced(R, c, l, z, N, ds, ls, D)
  <2>1. Traced(R, c, l, z, N, cs, ls, E) /\ HoleOk(R, l, d, ls) /\ Placed(d, Len(c))
    BY DEF l
  <2> QED
    BY <1>1, <1>2, <1>3, <2>1, TracedOpen
<1>5. Extends(l, l)
  BY <1>2, ExtendsItself
<1>6. \A k \in 1 .. Len(ds) : Agree(ds[k], ls, ms)
  <2>1. Len(ds) = Len(cs) + 1 /\ (\A k \in 1 .. Len(cs) : ds[k] = cs[k]) /\ ds[Len(cs) + 1] = d
    BY <1>1, IsSeqFacts
  <2>2. Agree(d, ls, ms)
    BY <1>1, <1>2 DEF Agree
  <2> HIDE DEF ds
  <2> QED
    BY <1>1, <2>1, <2>2
<1> HIDE DEF ds
<1>7. Traced(R, c, l, z, N, ds, ms, D)
  BY <1>2, <1>4, <1>5, <1>6, TracedGrow
<1> QED
  BY <1>7 DEF l, ds

(* A placeholder is appended whose states are X. *)
LEMMA TracedSkip ==
  ASSUME NEW R, NEW c, NEW l, NEW z, NEW N, NEW bs, NEW ls, NEW E, Traced(R, c, l, z, N, bs, ls, E),
         NEW X \in SUBSET State(l, N), NEW D, OpensAt(D, E, Len(c))
  PROVE  /\ Len(Append(c, Skipped)) = Len(c) + 1 /\ IsSeq(Append(c, Skipped))
         /\ \E Q : Traced(Q, Append(c, Skipped), l, z, N, bs, ls, D) /\ Starts(R, Q, Len(c), X)
<1> DEFINE i == Skipped
<1>1. LeadsBack(R, i, Len(c), l)
  BY SkippedSafe
<1>2. Opens(D, E, c, i)
  BY DEF OpensAt, Opens
<1> HIDE DEF i
<1>3. /\ Len(Append(c, i)) = Len(c) + 1 /\ IsSeq(Append(c, i))
      /\ \E Q : Traced(Q, Append(c, i), l, z, N, bs, ls, D) /\ Starts(R, Q, Len(c), X)
  BY <1>1, <1>2, TracedOne
<1> QED
  BY <1>3 DEF i

(* Outline Q is R up to n, and then X. *)
SameUpTo(R, Q, n, X) ==
  /\ Q[n + 1] = X /\ Q[n] = R[n]
  /\ \A h \in Nat : h < n => Q[h] = R[h] /\ Q[h + 1] = R[h + 1]

(* What EmitOne keeps. *)
LEMMA StartsFacts ==
  ASSUME NEW R, NEW Q, NEW n \in Nat, NEW X, Starts(R, Q, n, X)
  PROVE  SameUpTo(R, Q, n, X)
<1> USE DEF SameUpTo
<1>1. (\A k \in 0 .. n : Q[k] = R[k]) /\ Q[n + 1] = X
  BY DEF Starts
<1>2. \A k \in Nat : (k <= n => k \in 0 .. n) /\ (k < n => k + 1 \in 0 .. n)
  OBVIOUS
<1> QED
  BY <1>1, <1>2

(* A hole of the last block is filled in, and the block is closed. *)
LEMMA FillOne ==
  ASSUME NEW R, NEW c, NEW l, NEW z, NEW N, NEW bs, NEW ls, NEW E, Traced(R, c, l, z, N, bs, ls, E),
         NEW b, IsLast(b, bs), NEW h, NEW i, StepOk(R, i, h, l), i.op # "Skipped",
         NEW D, FreesOne(D, E, b, h)
  PROVE  /\ Traced(R, Patch(c, h, i), l, z, N, SubSeq(bs, 1, Len(bs) - 1), ls, D)
         /\ Len(Patch(c, h, i)) = Len(c)
<1> DEFINE cs == SubSeq(bs, 1, Len(bs) - 1)
           d == [c EXCEPT ![h + 1] = i]
           H == D \cup {h}
<1>1. h \in 0 .. Len(c) - 1
  BY LastHole DEF FreesOne
<1>3. Frees(H, E, b) /\ H \subseteq D \cup {h}
  BY DEF FreesOne
<1>4. Patch(c, h, i) = d
  BY DEF Patch
<1> HIDE DEF H
<1>6. Traced(R, c, l, z, N, cs, ls, H)
  BY <1>3, TracedEnd
<1> HIDE DEF cs
<1>8. Traced(R, d, l, z, N, cs, ls, D) /\ Len(d) = Len(c)
  BY <1>1, <1>3, <1>6, TracedFill
<1> HIDE DEF d
<1> QED
  BY <1>4, <1>8 DEF cs

(* Code k is e and a placeholder. *)
Skips(k, e) == k = Append(e, Skipped)

(* `} else {` *)
LEMMA ElseStep ==
  ASSUME NEW R, NEW c, NEW s, NEW ls, NEW bs, NEW f, NEW z, NEW N, NEW W, Compiling(R, c, s, ls, bs, f, z, N, W),
         NEW b, IsLast(b, bs), b.kind = "then", NEW o, Popped(s, o, b.scope), NEW u, BodyAt(o, u, o.top),
         NEW ms, NEW cs, Kept(ms, cs, ls, bs, b),
         NEW g, g = Restrict(f, OuterBits(b)), NEW e, e = c \o ScopeDrop(s), NEW k, Skips(k, e),
         NEW d, Follows(d, b), d.kind = "else", d.patch = Len(e), d.exit = g
  PROVE  \E Q : Compiling(Q, Patch(k, b.patch, JumpF(Len(k) - b.patch, FALSE)), u, ms, Append(cs, d), b.entry, z, N, W)
<1> DEFINE l == s.leafs
           E0 == {}
           D1 == {Len(e)}
           h == b.patch
           i == JumpF(Len(k) - h, FALSE)
<1>1. Scoped(s, ls, bs, f, z, N, W) /\ W \in Nat
  BY CompilingFacts
<1>2. PICK Q : Traced(Q, e, l, z, N, bs, ls, E0) /\ \A t \in Q[Len(e)] : Ends(l, b.nbits, g, t)
  BY CloseInner DEF Ended
<1>3. Holes(b) = {h} /\ Falls(b) = {h}
  BY DEF Holes, Falls, Exits
<1>4. HoleOk(Q, l, b, ls) /\ h \in Nat /\ h < Len(e) /\ Len(e) \in Nat /\ Q[h] \in SUBSET State(l, N) /\ Placed(b, Len(e))
      /\ IsSeq(e)
  BY <1>2, <1>3, LastHole
<1>5. \A t \in Q[h] : Clean(l, t) /\ t \in Q[h + 1] /\ Arrives(l, b.entry, t)
  BY <1>3, <1>4 DEF HoleOk
<1>6. OpensAt(D1, E0, Len(e)) /\ Frees(Holes(d) \cup {}, D1, d) /\ Holes(d) = {Len(e)}
      /\ Falls(d) = {} /\ Exits(d) = {Len(e)}
  BY <1>3 DEF OpensAt, Frees, Holes, Falls, Exits
<1> HIDE DEF E0, D1, l
<1> DEFINE X == Q[h]
<1>7. /\ Len(k) = Len(e) + 1 /\ IsSeq(k)
      /\ \E P : Traced(P, k, l, z, N, bs, ls, D1) /\ Starts(Q, P, Len(e), X)
  <2>1. X \in SUBSET State(l, N)
    BY <1>4
  <2> HIDE DEF X
  <2>2. /\ Len(Append(e, Skipped)) = Len(e) + 1 /\ IsSeq(Append(e, Skipped))
        /\ \E P : Traced(P, Append(e, Skipped), l, z, N, bs, ls, D1) /\ Starts(Q, P, Len(e), X)
    BY <1>2, <1>6, <2>1, TracedSkip
  <2> QED
    BY <2>2 DEF Skips
<1> HIDE DEF X
<1>8. PICK P : Traced(P, k, l, z, N, bs, ls, D1) /\ Starts(Q, P, Len(e), X)
  BY <1>7
<1>9. /\ P[Len(k)] = X /\ P[Len(e)] = Q[Len(e)] /\ P[h] = Q[h] /\ P[h + 1] = Q[h + 1]
  <2> DEFINE n == Len(e)
  <2>1. n \in Nat /\ Starts(Q, P, n, X)
    BY <1>4, <1>8
  <2>2. Len(k) = n + 1 /\ h \in Nat /\ h < n /\ h <= n
    BY <1>4, <1>7
  <2> HIDE DEF n
  <2>3. SameUpTo(Q, P, n, X)
    BY <2>1, StartsFacts
  <2>4. /\ P[Len(k)] = X /\ P[n] = Q[n] /\ P[h] = Q[h] /\ P[h + 1] = Q[h + 1]
    BY <2>2, <2>3 DEF SameUpTo
  <2> QED
    BY <2>4 DEF n
<1>10. StepOk(P, i, h, l) /\ i.op # "Skipped"
  <2>1. \A t \in P[h] : Clean(l, t) /\ t \in P[h + 1] /\ (FALSE \/ t \in P[Len(k)])
    BY <1>5, <1>9 DEF X
  <2>2. Len(k) \in Nat /\ h \in Nat
    BY <1>4, <1>7
  <2> QED
    BY <2>1, <2>2, JumpFOk
<1>11. cs = SubSeq(bs, 1, Len(bs) - 1)
  BY DEF Kept
<1>12. FreesOne(D1, D1, b, h)
  BY <1>3 DEF FreesOne, Frees
<1> HIDE DEF i, h
<1> DEFINE q == Patch(k, h, i)
<1>14. Traced(P, q, l, z, N, cs, ls, D1) /\ Len(q) = Len(k)
  <2> DEFINE ds == SubSeq(bs, 1, Len(bs) - 1)
  <2>1. Traced(P, q, l, z, N, ds, ls, D1) /\ Len(q) = Len(k)
    BY <1>8, <1>10, <1>12, FillOne
  <2> QED
    BY <1>11, <2>1
<1> HIDE DEF q
<1>15. Carried(d.exit, b, bs, s, ls) /\ Carried(b.entry, b, bs, s, ls)
  BY <1>1, LastCarried DEF IsLast
<1>16. d.nbits = b.nbits /\ d.start = b.start /\ d.entry = b.entry
  BY DEF Follows
<1>17. HoleOk(P, l, d, ls)
  <2>1. \A t \in P[Len(e)] : Ends(l, d.nbits, d.exit, t)
    BY <1>2, <1>9, <1>16
  <2> QED
    BY <1>6, <2>1 DEF HoleOk
<1>18. Placed(d, Len(q))
  <2>1. Len(e) \in 0 .. Len(q) - 1
    BY <1>4, <1>7, <1>14
  <2>2. d.start \in 0 .. Len(q)
    BY <1>4, <1>7, <1>14, <1>16 DEF Placed
  <2> QED
    BY <1>6, <2>1, <2>2 DEF Placed
<1> DEFINE E1 == {}
<1>19. Frees(Holes(d) \cup E1, D1, d)
  BY <1>6
<1> HIDE DEF E1
<1>20. Traced(P, q, l, z, N, Append(cs, d), ms, E1)
  <2>1. Traced(P, q, s.leafs, z, N, cs, ls, D1) /\ HoleOk(P, s.leafs, d, ls)
    BY <1>14, <1>17 DEF l
  <2>2. Traced(P, q, s.leafs, z, N, Append(cs, d), ms, E1)
    BY <1>1, <1>18, <1>19, <2>1, TracedFollow
  <2> QED
    BY <2>2 DEF l
<1>21. Enters(b.entry, d, bs, s, ls)
  <2>1. b.nbits \in Nat /\ b.nbits <= s.first /\ s.first \in Nat
    BY <1>1, LastFacts, BlockFacts, StackFacts
  <2> QED
    BY <1>15, <1>16, <2>1 DEF Enters, Carried, IsFlow
<1>22. Scoped(u, ms, Append(cs, d), b.entry, z, N, W) /\ IsStack(u, z, N) /\ u.leafs = s.leafs
  <2> DEFINE be == b.entry
  <2>1. Enters(be, d, bs, s, ls)
    BY <1>21
  <2> HIDE DEF be
  <2>2. Scoped(u, ms, Append(cs, d), be, z, N, W) /\ IsStack(u, z, N) /\ u.leafs = s.leafs
    <3>1. Scoped(s, ls, bs, f, z, N, W) /\ Carried(d.exit, b, bs, s, ls)
      BY <1>1, <1>15
    <3> QED
      BY <2>1, <3>1, ScopedFollow
  <2> QED
    BY <2>2 DEF be
<1>23. \A t \in P[Len(q)] : Arrives(l, b.entry, t)
  BY <1>5, <1>9, <1>14 DEF X
<1>24. Compiling(P, q, u, ms, Append(cs, d), b.entry, z, N, W)
  <2>1. l = u.leafs /\ E1 = {}
    BY <1>22 DEF l, E1
  <2> QED
    BY <1>1, <1>20, <1>22, <1>23, <2>1 DEF Compiling
<1> QED
  BY <1>24 DEF q, h, i

(* A jump back to x. *)
LEMMA BackOk ==
  ASSUME NEW R, NEW n \in Nat, NEW x \in 0 .. n, NEW l, \A t \in R[n] : Clean(l, t) /\ t \in R[x]
  PROVE  LeadsBack(R, Jump(x - n), n, l) /\ Jump(x - n).op # "Skipped"
<1>1. Jump(x - n) = [op |-> "Jump", off |-> x - n] /\ Jump(x - n).op = "Jump" /\ n + (x - n) = x
  BY DEF Jump
<1>2. \A t \in R[n] : Safe(Jump(x - n), l, t) /\ After(Jump(x - n), l, t) = t
  BY <1>1 DEF Safe, After
<1>3. Nexts(Jump(x - n), n) = {x}
  BY <1>1 DEF Nexts
<1> QED
  BY <1>1, <1>2, <1>3 DEF LeadsBack

(* Code k is c and instruction i. *)
Appended(k, c, i) == k = Append(c, i)

(* One instruction is appended to the code of open blocks. *)
LEMMA TracedAppend ==
  ASSUME NEW R, NEW c, NEW l, NEW z, NEW N, NEW bs, NEW ls, NEW E, Traced(R, c, l, z, N, bs, ls, E),
         NEW i, NEW X \in SUBSET State(l, N), LeadsBack(R, i, Len(c), l), NEW D, Opens(D, E, c, i),
         NEW k, Appended(k, c, i)
  PROVE  /\ Len(k) = Len(c) + 1 /\ IsSeq(k)
         /\ \E Q : Traced(Q, k, l, z, N, bs, ls, D) /\ Starts(R, Q, Len(c), X)
<1>1. /\ Len(Append(c, i)) = Len(c) + 1 /\ IsSeq(Append(c, i))
      /\ \E Q : Traced(Q, Append(c, i), l, z, N, bs, ls, D) /\ Starts(R, Q, Len(c), X)
  BY TracedOne
<1> QED
  BY <1>1 DEF Appended

(* Code e is c and the drops of scope s. *)
Dropping(e, c, s) == e = c \o ScopeDrop(s)

(* Code k is e and the jump back to the head of b. *)
JumpsBack(k, e, b) == k = Append(e, Jump(b.start - Len(e)))

(* Code d is k with the breaks of b leading to its end. *)
BreaksTo(d, k, b) == d = PatchAll(k, b.breaks, Len(k))

(* The states at the end of a loop body are states of its head. *)
LEMMA HeadReached ==
  ASSUME NEW s, NEW ls, NEW bs, NEW f, NEW z, NEW N, NEW W, Scoped(s, ls, bs, f, z, N, W),
         NEW b, IsLast(b, bs), b.kind \in {"loop", "letloop"},
         NEW g, g = Restrict(f, OuterBits(b)), BackEdge(b, g),
         NEW Q, HoleOk(Q, s.leafs, b, ls), NEW t, Arrives(s.leafs, g, t)
  PROVE  Clean(s.leafs, t) /\ t \in Q[b.start]
<1>1. PICK F : t = Settled(s.leafs, F) /\ g.must \subseteq F /\ F \subseteq g.may
  BY DEF Arrives
<1>2. g.reach /\ b.entry.must \subseteq g.must
  BY DEF Arrives, BackEdge
<1>3. IsFlow(f) /\ Fits(f, b, ls) /\ b.nbits \in Nat
  BY LastFacts, BlockFacts DEF IsLast
<1>4. \A y \in F : y \in f.may /\ y \in 0 .. b.nbits - 1
  BY <1>1, <1>3, RestrictFacts DEF OuterBits
<1>5. Heads(b, ls, F)
  BY <1>1, <1>2, <1>3, <1>4 DEF Heads, Fits
<1>6. Clean(s.leafs, t)
  BY ArrivesEnds
<1> QED
  BY <1>1, <1>5, <1>6 DEF HoleOk

(* The jump back is emitted and the breaks are filled in. *)
LEMMA LoopEnd ==
  ASSUME NEW R, NEW c, NEW s, NEW ls, NEW bs, NEW f, NEW z, NEW N, NEW W, Compiling(R, c, s, ls, bs, f, z, N, W),
         NEW b, IsLast(b, bs), b.kind \in {"loop", "letloop"},
         NEW g, g = Restrict(f, OuterBits(b)), BackEdge(b, g), NEW e, Dropping(e, c, s),
         NEW k, JumpsBack(k, e, b), NEW d, BreaksTo(d, k, b)
  PROVE  \E Q : /\ Traced(Q, d, s.leafs, z, N, SubSeq(bs, 1, Len(bs) - 1), ls, {})
                /\ \A t \in Q[Len(d)] : /\ Ends(s.leafs, b.nbits, b.exit, t)
                                        /\ b.kind = "letloop" => Arrives(s.leafs, b.exit, t)
<1> DEFINE l == s.leafs
           E0 == {}
           H == b.breaks
           n == Len(e)
           i == Jump(b.start - n)
<1>1. Scoped(s, ls, bs, f, z, N, W)
  BY CompilingFacts
<1>30. PICK Q : Traced(Q, e, s.leafs, z, N, bs, ls, {}) /\ Ended(Q, Len(e), s.leafs, b, g)
  BY CloseInner DEF Dropping
<1>2. Traced(Q, e, l, z, N, bs, ls, E0) /\ \A t \in Q[n] : Arrives(l, g, t)
  BY <1>30 DEF Ended
<1>3. Holes(b) = H /\ Exits(b) = H
  BY DEF Holes, Falls, Exits
<1>4. HoleOk(Q, l, b, ls) /\ n \in Nat /\ b.start \in 0 .. n
      /\ \A h \in H : h \in Nat /\ h < n /\ Q[h] \in SUBSET State(l, N)
  <2>1. /\ HoleOk(Q, l, b, ls) /\ Placed(b, Len(e)) /\ Len(e) \in Nat /\ IsSeq(e)
        /\ \A h \in Holes(b) : h \in 0 .. Len(e) - 1 /\ h \in Nat /\ h < Len(e) /\ Q[h] \in SUBSET State(l, N)
        /\ Q[Len(e)] \in SUBSET State(l, N)
    <3> HIDE DEF l, E0
    <3> QED
      BY <1>2, LastHole
  <2> QED
    BY <1>3, <2>1 DEF Placed
<1>5. \A h \in H : \A t \in Q[h] : Clean(l, t) /\ Ends(l, b.nbits, b.exit, t) /\ (b.kind = "letloop" => Arrives(l, b.exit, t))
  BY <1>3, <1>4, ArrivesEnds DEF HoleOk
<1>6. \A t \in Q[n] : Clean(l, t) /\ t \in Q[b.start]
  BY <1>1, <1>2, <1>4, HeadReached
<1>7. LeadsBack(Q, i, n, l) /\ i.op # "Skipped"
  BY <1>4, <1>6, BackOk
<1>8. Opens(E0, E0, e, i) /\ Frees(H, E0, b) /\ H \subseteq E0 \cup H
  BY <1>3, <1>7 DEF Opens, Frees
<1> DEFINE X == UNION {Q[h] : h \in H}
<1>9. X \in SUBSET State(l, N)
  BY <1>4
<1>10. \A h \in H : \A t \in Q[h] : t \in X
  OBVIOUS
<1>11. \A t \in X : Ends(l, b.nbits, b.exit, t) /\ (b.kind = "letloop" => Arrives(l, b.exit, t))
  BY <1>5
<1> HIDE DEF X, E0, i, H, l
<1>12. /\ Len(k) = n + 1
       /\ \E P : Traced(P, k, l, z, N, bs, ls, E0) /\ Starts(Q, P, n, X)
  <2>1. Traced(Q, e, l, z, N, bs, ls, E0) /\ LeadsBack(Q, i, Len(e), l) /\ Opens(E0, E0, e, i)
    BY <1>2, <1>7, <1>8
  <2>2. Appended(k, e, i)
    BY DEF JumpsBack, Appended, i
  <2>3. /\ Len(k) = Len(e) + 1 /\ IsSeq(k)
        /\ \E P : Traced(P, k, l, z, N, bs, ls, E0) /\ Starts(Q, P, Len(e), X)
    BY <1>9, <2>1, <2>2, TracedAppend
  <2> QED
    BY <2>3
<1>14. PICK P : Traced(P, k, l, z, N, bs, ls, E0) /\ Starts(Q, P, n, X)
  BY <1>12
<1> HIDE DEF n
<1>15. SameUpTo(Q, P, n, X)
  BY <1>4, <1>14, StartsFacts
<1>16. Len(k) = n + 1 /\ Len(k) \in Nat
  BY <1>4, <1>12
<1>17. P[Len(k)] = X /\ \A h \in H : P[h] = Q[h]
  BY <1>4, <1>15, <1>16 DEF SameUpTo
<1>18. \A h \in H : h \in 0 .. Len(k) - 1 => \A t \in P[h] : Clean(l, t) /\ t \in P[Len(k)]
  BY <1>5, <1>10, <1>17
<1> DEFINE cs == SubSeq(bs, 1, Len(bs) - 1)
<1>19. Traced(P, k, l, z, N, cs, ls, H)
  BY <1>8, <1>14, TracedEnd
<1> HIDE DEF cs
<1>20. Traced(P, PatchAll(k, H, Len(k)), l, z, N, cs, ls, E0) /\ Len(PatchAll(k, H, Len(k))) = Len(k)
  <2> DEFINE m == Len(k)
  <2>1. m \in Nat /\ \A h \in H : h \in 0 .. Len(k) - 1 => \A t \in P[h] : Clean(l, t) /\ t \in P[m]
    BY <1>16, <1>18
  <2> HIDE DEF m
  <2>2. Traced(P, PatchAll(k, H, m), l, z, N, cs, ls, E0) /\ Len(PatchAll(k, H, m)) = Len(k)
    BY <1>8, <1>19, <2>1, TracedFillAll
  <2> QED
    BY <2>2 DEF m
<1>21. Traced(P, d, l, z, N, cs, ls, {}) /\ Len(d) = Len(k)
  BY <1>20 DEF H, E0, BreaksTo
<1> QED
  BY <1>11, <1>17, <1>21 DEF l, cs

(* `}` of a loop *)
LEMMA CloseLoopStep ==
  ASSUME NEW R, NEW c, NEW s, NEW ls, NEW bs, NEW f, NEW z, NEW N, NEW W, Compiling(R, c, s, ls, bs, f, z, N, W),
         NEW b, IsLast(b, bs), b.kind = "loop", NEW o, Popped(s, o, b.scope), NEW u, Popped(o, u, b.stmt),
         NEW g, g = Restrict(f, OuterBits(b)), BackEdge(b, g), NEW e, Dropping(e, c, s),
         NEW k, JumpsBack(k, e, b), NEW d, BreaksTo(d, k, b)
  PROVE  \E Q : Compiling(Q, d \o ScopeDrop(o), u, SubSeq(ls, 1, b.nlocals), SubSeq(bs, 1, Len(bs) - 1), b.exit, z, N, W)
<1> DEFINE cs == SubSeq(bs, 1, Len(bs) - 1)
           j == b.exit
<1>1. Scoped(s, ls, bs, f, z, N, W) /\ W \in Nat
  BY CompilingFacts
<1>2. PICK Q : /\ Traced(Q, d, s.leafs, z, N, cs, ls, {})
               /\ \A t \in Q[Len(d)] : Ends(s.leafs, b.nbits, j, t)
  BY LoopEnd
<1>3. Carried(j, b, bs, s, ls)
  BY <1>1, LastCarried DEF IsLast
<1>4. cs = SubSeq(bs, 1, Len(bs) - 1) /\ b.kind # "letloop"
  OBVIOUS
<1> HIDE DEF cs, j
<1>5. \E M : Compiling(M, d \o ScopeDrop(o), u, SubSeq(ls, 1, b.nlocals), cs, j, z, N, W)
  BY <1>1, <1>2, <1>3, <1>4, EndStmtStep
<1> QED
  BY <1>5 DEF cs, j

(* `}` of a `let m = loop` *)
LEMMA CloseLetLoopStep ==
  ASSUME NEW R, NEW c, NEW s, NEW ls, NEW bs, NEW f, NEW z, NEW N, NEW W, Compiling(R, c, s, ls, bs, f, z, N, W),
         NEW b, IsLast(b, bs), b.kind = "letloop", NEW o, Popped(s, o, b.scope),
         NEW g, g = Restrict(f, OuterBits(b)), BackEdge(b, g), NEW e, Dropping(e, c, s),
         NEW k, JumpsBack(k, e, b), NEW d, BreaksTo(d, k, b)
  PROVE  \E Q : Compiling(Q, d, o, SubSeq(ls, 1, b.nlocals), SubSeq(bs, 1, Len(bs) - 1), b.exit, z, N, W)
<1> DEFINE cs == SubSeq(bs, 1, Len(bs) - 1)
           ms == SubSeq(ls, 1, b.nlocals)
           j == b.exit
           l == s.leafs
           E0 == {}
<1>1. Scoped(s, ls, bs, f, z, N, W) /\ W \in Nat
  BY CompilingFacts
<1>2. PICK Q : /\ Traced(Q, d, l, z, N, cs, ls, E0)
               /\ \A t \in Q[Len(d)] : Arrives(l, j, t)
  BY LoopEnd
<1>3. Carried(j, b, bs, s, ls)
  BY <1>1, LastCarried DEF IsLast
<1>4. /\ IsStack(o, z, N) /\ o.leafs = s.leafs /\ o.top = b.scope.top /\ o.first = b.scope.first
      /\ \A y : y \in Pending(o) <=> y \in Pending(s) /\ y < b.nbits
  BY <1>1, PopBody
<1>5. b.scope.first = b.stmt.first /\ b.scope.top >= b.stmt.top
  BY <1>1, LastFacts
<1>6. Scoped(o, ms, cs, j, z, N, W) /\ \A m \in 1 .. Len(cs) : Agree(cs[m], ls, ms)
  <2>1. o.first = b.stmt.first /\ o.top >= b.stmt.top
    BY <1>4, <1>5
  <2> HIDE DEF j
  <2> QED
    BY <1>1, <1>3, <1>4, <2>1, ScopedEnd
<1>7. Len(l) \in Nat /\ Extends(l, l)
  BY <1>1, BlockFacts, StackFacts, ExtendsItself
<1> HIDE DEF cs, ms, j, l, E0
<1>8. Traced(Q, d, l, z, N, cs, ms, E0)
  BY <1>2, <1>6, <1>7, TracedGrow
<1>9. o.leafs = l /\ E0 = {}
  BY <1>4 DEF l, E0
<1>10. Compiling(Q, d, o, ms, cs, j, z, N, W)
  BY <1>1, <1>2, <1>6, <1>8, <1>9 DEF Compiling
<1> QED
  BY <1>10 DEF cs, ms, j

(* Code d is k with the test of arm b leading to its end, if ever. *)
TestTo(d, k, b) == d = Patch(k, b.patch, JumpF(Len(k) - b.patch, TRUE))

(* Code q is d with the ends of the arms of b, the last one at n, leading to    *)
(* its end.                                                                     *)
ArmsTo(q, d, b, n) == q = PatchAll(d, b.breaks \cup {n}, Len(d))
FlowOut(g, f, b) == g = Restrict(f, OuterBits(b))

(* `}` of a match *)
LEMMA CloseMatchStep ==
  ASSUME NEW R, NEW c, NEW s, NEW ls, NEW bs, NEW f, NEW z, NEW N, NEW W, Compiling(R, c, s, ls, bs, f, z, N, W),
         NEW b, IsLast(b, bs), b.kind = "match", NEW o, Popped(s, o, b.scope), NEW u, Popped(o, u, b.stmt),
         NEW g, FlowOut(g, f, b), NEW e, Dropping(e, c, s), NEW k, Skips(k, e),
         NEW d, TestTo(d, k, b), NEW q, ArmsTo(q, d, b, Len(e))
  PROVE  \E Q : Compiling(Q, q \o ScopeDrop(o), u, SubSeq(ls, 1, b.nlocals), SubSeq(bs, 1, Len(bs) - 1),
                          Join(g, b.exit), z, N, W)
<1> DEFINE l == s.leafs
           E0 == {}
           n == Len(e)
           D1 == {n}
           h == b.patch
           H == b.breaks \cup {n}
           i == JumpF(Len(k) - h, TRUE)
           cs == SubSeq(bs, 1, Len(bs) - 1)
           j == Join(g, b.exit)
<1>1. Scoped(s, ls, bs, f, z, N, W) /\ W \in Nat
  BY CompilingFacts
<1>30. PICK Q : Traced(Q, e, s.leafs, z, N, bs, ls, {}) /\ Ended(Q, Len(e), s.leafs, b, g)
  BY CloseInner DEF Dropping, FlowOut
<1>2. Traced(Q, e, l, z, N, bs, ls, E0) /\ \A t \in Q[n] : Ends(l, b.nbits, g, t)
  BY <1>30 DEF Ended
<1>3. Holes(b) = {h} \cup b.breaks /\ Falls(b) = {h} /\ Exits(b) = b.breaks
  BY DEF Holes, Falls, Exits
<1>4. /\ HoleOk(Q, l, b, ls) /\ Placed(b, n) /\ n \in Nat /\ IsSeq(e)
      /\ \A x \in Holes(b) : x \in 0 .. n - 1 /\ x \in Nat /\ x < n /\ Q[x] \in SUBSET State(l, N)
      /\ Q[n] \in SUBSET State(l, N)
  <2> HIDE DEF l, E0
  <2> QED
    BY <1>2, LastHole
<1>5. h \in Nat /\ h < n /\ \A t \in Q[h] : Clean(l, t) /\ t \in Q[h + 1]
  BY <1>3, <1>4 DEF HoleOk
<1>6. \A x \in H : \A t \in Q[x] : Clean(l, t) /\ (Ends(l, b.nbits, g, t) \/ Ends(l, b.nbits, b.exit, t))
  <2>1. \A x \in b.breaks : \A t \in Q[x] : Ends(l, b.nbits, b.exit, t)
    BY <1>3, <1>4 DEF HoleOk
  <2> QED
    BY <1>2, <2>1, ArrivesEnds
<1>7. \A x \in H : x \in Nat /\ x <= n /\ Q[x] \in SUBSET State(l, N)
  BY <1>3, <1>4
<1>8. OpensAt(D1, E0, n) /\ FreesOne(H, D1, b, h) /\ H \subseteq E0 \cup H
  BY <1>3 DEF OpensAt, FreesOne, Frees
<1> DEFINE X == UNION {Q[x] : x \in H}
<1>9. X \in SUBSET State(l, N)
  BY <1>7
<1>10. \A x \in H : \A t \in Q[x] : t \in X
  OBVIOUS
<1>11. \A t \in X : Ends(l, b.nbits, g, t) \/ Ends(l, b.nbits, b.exit, t)
  BY <1>6
<1> HIDE DEF X, E0, D1, H, l
<1>12. /\ Len(k) = n + 1 /\ IsSeq(k)
       /\ \E P : Traced(P, k, l, z, N, bs, ls, D1) /\ Starts(Q, P, n, X)
  <2>1. Traced(Q, e, l, z, N, bs, ls, E0) /\ OpensAt(D1, E0, Len(e))
    BY <1>2, <1>8
  <2>2. /\ Len(Append(e, Skipped)) = Len(e) + 1 /\ IsSeq(Append(e, Skipped))
        /\ \E P : Traced(P, Append(e, Skipped), l, z, N, bs, ls, D1) /\ Starts(Q, P, Len(e), X)
    BY <1>9, <2>1, TracedSkip
  <2> QED
    BY <2>2 DEF Skips
<1>13. PICK P : Traced(P, k, l, z, N, bs, ls, D1) /\ Starts(Q, P, n, X)
  BY <1>12
<1> HIDE DEF n
<1>14. SameUpTo(Q, P, n, X)
  BY <1>4, <1>13, StartsFacts
<1>15. Len(k) = n + 1 /\ Len(k) \in Nat
  BY <1>4, <1>12
<1>16. P[Len(k)] = X /\ (\A x \in H : P[x] = Q[x]) /\ P[h] = Q[h] /\ P[h + 1] = Q[h + 1]
  <2>1. \A x \in H : x < n \/ x = n
    BY <1>4, <1>7
  <2> QED
    BY <1>5, <1>7, <1>14, <1>15, <2>1 DEF SameUpTo
<1>17. StepOk(P, i, h, l) /\ i.op # "Skipped"
  <2>1. \A t \in P[h] : Clean(l, t) /\ t \in P[h + 1] /\ (TRUE \/ t \in P[Len(k)])
    BY <1>5, <1>16
  <2> QED
    BY <1>5, <1>15, <2>1, JumpFOk
<1>18. Patch(k, h, i) = d
  BY DEF TestTo
<1> HIDE DEF i, h
<1>19. Traced(P, d, l, z, N, cs, ls, H) /\ Len(d) = Len(k)
  <2>1. Traced(P, Patch(k, h, i), l, z, N, SubSeq(bs, 1, Len(bs) - 1), ls, H) /\ Len(Patch(k, h, i)) = Len(k)
    BY <1>8, <1>13, <1>17, FillOne
  <2> QED
    BY <1>18, <2>1
<1> HIDE DEF cs
<1>20. q = PatchAll(d, H, Len(d))
  BY DEF ArmsTo, H, n
<1>21. Traced(P, q, l, z, N, cs, ls, E0) /\ Len(q) = Len(d)
  <2> DEFINE m == Len(d)
  <2>1. m \in Nat /\ \A x \in H : x \in 0 .. Len(d) - 1 => \A t \in P[x] : Clean(l, t) /\ t \in P[m]
    BY <1>6, <1>10, <1>15, <1>16, <1>19
  <2> HIDE DEF m
  <2>2. Traced(P, PatchAll(d, H, m), l, z, N, cs, ls, E0) /\ Len(PatchAll(d, H, m)) = Len(d)
    <3>1. Traced(P, d, l, z, N, cs, ls, H) /\ H \subseteq E0 \cup H
      BY <1>8, <1>19
    <3> QED
      BY <2>1, <3>1, TracedFillAll
  <2> QED
    BY <1>20, <2>2 DEF m
<1>22. Carried(g, b, bs, s, ls) /\ Carried(b.exit, b, bs, s, ls)
  BY <1>1, LastCarried DEF IsLast, FlowOut
<1>23. Carried(j, b, bs, s, ls)
  BY <1>22, JoinCarried
<1>24. \A t \in P[Len(q)] : Ends(l, b.nbits, j, t)
  <2> SUFFICES ASSUME NEW t \in X PROVE Ends(l, b.nbits, j, t)
    BY <1>16, <1>19, <1>21
  <2>1. Ends(l, b.nbits, g, t) \/ Ends(l, b.nbits, b.exit, t)
    BY <1>11
  <2> QED
    BY <1>22, <2>1, JoinArrives DEF Carried
<1>25. b.kind # "letloop" /\ Traced(P, q, s.leafs, z, N, cs, ls, {})
       /\ \A t \in P[Len(q)] : Ends(s.leafs, b.nbits, j, t)
  BY <1>21, <1>24 DEF E0, l
<1>26. cs = SubSeq(bs, 1, Len(bs) - 1)
  BY DEF cs
<1> HIDE DEF j
<1>27. \E M : Compiling(M, q \o ScopeDrop(o), u, SubSeq(ls, 1, b.nlocals), cs, j, z, N, W)
  BY <1>1, <1>23, <1>25, <1>26, EndStmtStep
<1> QED
  BY <1>27 DEF cs, j

(* The record of one block is replaced. *)
LEMMA TracedReplaced ==
  ASSUME NEW R, NEW c, NEW l, NEW z, NEW N, NEW bs, NEW ls, NEW E, Traced(R, c, l, z, N, bs, ls, E),
         NEW i \in 1 .. Len(bs), NEW d, NEW cs, Replaced1(cs, bs, i, d),
         HoleOk(R, l, d, ls), Placed(d, Len(c)), d.nbits = bs[i].nbits,
         NEW D, E \cup Holes(bs[i]) \subseteq D \cup Holes(d)
  PROVE  Traced(R, c, l, z, N, cs, ls, D)
<1>1. Len(cs) = Len(bs) /\ cs[i] = d /\ \A k \in 1 .. Len(bs) : k # i => cs[k] = bs[k]
  BY DEF Replaced1
<1>2. /\ \A k \in 1 .. Len(bs) : HoleOk(R, l, bs[k], ls) /\ Placed(bs[k], Len(c)) /\ bs[k].nbits <= Len(l) /\ bs[k].nbits \in Nat
      /\ Filled(c, bs, E)
  BY TracedFacts
<1>3. ASSUME NEW k \in 1 .. Len(cs)
      PROVE  HoleOk(R, l, cs[k], ls) /\ Placed(cs[k], Len(c)) /\ cs[k].nbits <= Len(l) /\ cs[k].nbits \in Nat
  <2>1. k \in 1 .. Len(bs)
    BY <1>1
  <2>2. CASE k = i
    <3>1. d.nbits <= Len(l) /\ d.nbits \in Nat
      BY <1>2
    <3> QED
      BY <1>1, <2>2, <3>1
  <2>3. CASE k # i
    BY <1>1, <1>2, <2>1, <2>3
  <2> QED
    BY <2>2, <2>3
<1>4. Filled(c, cs, D)
  <2> SUFFICES ASSUME NEW h \in 0 .. Len(c) - 1, c[h + 1].op = "Skipped"
               PROVE  h \in D \/ \E k \in 1 .. Len(cs) : h \in Holes(cs[k])
    BY DEF Filled
  <2>1. h \in E \/ \E k \in 1 .. Len(bs) : h \in Holes(bs[k])
    BY <1>2 DEF Filled
  <2>2. CASE h \in E
    BY <1>1, <2>2
  <2>3. ASSUME NEW k \in 1 .. Len(bs), h \in Holes(bs[k])
        PROVE  h \in D \/ \E m \in 1 .. Len(cs) : h \in Holes(cs[m])
    <3>1. CASE k = i
      BY <1>1, <2>3, <3>1
    <3>2. CASE k # i
      BY <1>1, <2>3, <3>2
    <3> QED
      BY <3>1, <3>2
  <2> QED
    BY <2>1, <2>2, <2>3
<1> QED
  BY <1>3, <1>4 DEF Traced

(* Code after a jump is unreachable. *)
LEMMA ScopedUnreachable ==
  ASSUME NEW s, NEW ls, NEW bs, NEW f, NEW z, NEW N, NEW W, Scoped(s, ls, bs, f, z, N, W)
  PROVE  Scoped(s, ls, bs, Unreachable, z, N, W) /\ IsFlow(Unreachable)
<1>1. IsFlow(Unreachable) /\ Unreachable.may = {} /\ Unreachable.reach = FALSE
  BY DEF IsFlow, Unreachable
<1> QED
  BY <1>1 DEF Scoped, FlowOk, Fits

(* A block that a jump leaves or repeats. *)
LEMMA LoopFacts ==
  ASSUME NEW s, NEW ls, NEW bs, NEW f, NEW z, NEW N, NEW W, Scoped(s, ls, bs, f, z, N, W),
         NEW i \in 1 .. Len(bs), NEW b, b = bs[i], b.kind \in {"loop", "letloop"}
  PROVE  /\ IsBlock(b) /\ b.nbits \in Nat /\ IsFlow(f) /\ Fits(f, b, ls) /\ f.may \subseteq Pending(s)
         /\ IsFlow(b.exit) /\ b.stmt.top \in Nat
         /\ \A y \in b.exit.may : y < b.nbits /\ y \in Pending(s)
         /\ \A y \in Pending(s) : y < b.nbits => SlotAt(s.leafs, y) < b.stmt.top
         /\ b.kind = "letloop" => b.scope.top = b.stmt.top + 1
         /\ \A k \in 1 .. i - 1 : Fits(b.exit, bs[k], ls) /\ Fits(f, bs[k], ls)
<1>1. /\ Nested(b, InnerFirst(bs, s, i), InnerTop(bs, s, i), s, ls, z) /\ IsBlock(b) /\ b.nbits \in Nat /\ b.stmt.top \in Nat
      /\ IsFlow(f) /\ f.may \subseteq Pending(s) /\ IsFlow(b.exit) /\ Len(bs) \in Nat
      /\ \A y \in b.entry.may \cup b.exit.may : y < b.nbits /\ y \in Pending(s)
      /\ \A k \in 1 .. Len(bs) : Fits(f, bs[k], ls)
  BY BlockFacts
<1>2. \A k \in 1 .. i - 1 : Fits(b.exit, bs[k], ls) /\ Fits(f, bs[k], ls)
  <2> SUFFICES ASSUME NEW k \in 1 .. i - 1 PROVE Fits(b.exit, bs[k], ls) /\ Fits(f, bs[k], ls)
    OBVIOUS
  <2>1. k \in 1 .. Len(bs) /\ k < i
    BY <1>1
  <2>2. Within(bs[k], InnerFirst(bs, s, k), bs[i], ls)
    BY <2>1, WithinFacts
  <2> QED
    BY <1>1, <2>1, <2>2 DEF Within
<1>3. /\ \A y \in Pending(s) : y < b.nbits => SlotAt(s.leafs, y) < b.stmt.top
      /\ b.kind = "letloop" => b.scope.top = b.stmt.top + 1
  BY <1>1 DEF Nested
<1> QED
  BY <1>1, <1>2, <1>3

(* `continue` *)
LEMMA ContinueStep ==
  ASSUME NEW R, NEW c, NEW s, NEW ls, NEW bs, NEW f, NEW z, NEW N, NEW W, Compiling(R, c, s, ls, bs, f, z, N, W),
         NEW i \in 1 .. Len(bs), bs[i].kind \in {"loop", "letloop"}, BackEdge(bs[i], f), f.may \subseteq OuterBits(bs[i]),
         NEW k, JumpsBack(k, c, bs[i])
  PROVE  \E Q : Compiling(Q, k, s, ls, bs, Unreachable, z, N, W)
<1> DEFINE b == bs[i]
           l == s.leafs
           E0 == {}
           n == Len(c)
           x == b.start
           X == {}
<1>1. /\ Scoped(s, ls, bs, f, z, N, W) /\ W \in Nat /\ Traced(R, c, l, z, N, bs, ls, E0)
      /\ \A t \in R[n] : Arrives(l, f, t)
  BY CompilingFacts
<1>2. HoleOk(R, l, b, ls) /\ Placed(b, n) /\ n \in Nat
  <2> HIDE DEF l, E0
  <2> QED
    BY <1>1, TracedFacts
<1>3. b.nbits \in Nat /\ IsFlow(f) /\ Fits(f, b, ls)
  BY <1>1, LoopFacts
<1>4. ASSUME NEW t \in R[n] PROVE Clean(l, t) /\ t \in R[x]
  <2>1. PICK F : t = Settled(l, F) /\ f.must \subseteq F /\ F \subseteq f.may
    BY <1>1 DEF Arrives
  <2>2. f.reach /\ b.entry.must \subseteq f.must
    BY <1>1 DEF Arrives, BackEdge
  <2>3. \A y \in F : y \in f.may /\ y \in 0 .. b.nbits - 1 /\ y < b.nbits
    BY <1>3, <2>1 DEF OuterBits
  <2>4. Heads(b, ls, F)
    BY <1>3, <2>1, <2>2, <2>3 DEF Heads, Fits
  <2>5. Clean(l, t)
    BY <1>1, ArrivesEnds
  <2> QED
    BY <1>2, <2>1, <2>4, <2>5 DEF HoleOk
<1>5. x \in 0 .. n
  BY <1>2 DEF Placed
<1> DEFINE j == Jump(x - n)
<1>6. LeadsBack(R, j, n, l) /\ j.op # "Skipped"
  BY <1>2, <1>4, <1>5, BackOk
<1>7. Opens(E0, E0, c, j) /\ X \in SUBSET State(l, N) /\ \A t \in X : Arrives(l, Unreachable, t)
  BY <1>6 DEF Opens
<1>8. Appended(k, c, j)
  BY DEF Appended, JumpsBack
<1> HIDE DEF X, E0, j, l, n
<1>9. /\ Len(k) = Len(c) + 1 /\ IsSeq(k)
      /\ \E Q : Traced(Q, k, l, z, N, bs, ls, E0) /\ Starts(R, Q, Len(c), X)
  <2>1. Traced(R, c, l, z, N, bs, ls, E0) /\ LeadsBack(R, j, Len(c), l)
    BY <1>1, <1>6 DEF n
  <2> QED
    BY <1>7, <1>8, <2>1, TracedAppend
<1>10. PICK Q : Traced(Q, k, l, z, N, bs, ls, E0) /\ Starts(R, Q, n, X)
  BY <1>9 DEF n
<1>11. SameUpTo(R, Q, n, X)
  BY <1>2, <1>10, StartsFacts
<1>12. \A t \in Q[Len(k)] : Arrives(l, Unreachable, t)
  <2>1. Q[n + 1] = X /\ Len(k) = n + 1
    BY <1>9, <1>11 DEF SameUpTo, n
  <2> QED
    BY <1>7, <2>1
<1>13. Scoped(s, ls, bs, Unreachable, z, N, W)
  BY <1>1, ScopedUnreachable
<1> QED
  BY <1>1, <1>10, <1>12, <1>13 DEF Compiling, l, E0

Record(kd, st, sc, nl, nb, sa, ar, pa, br, en, ex) ==
  [kind |-> kd, stmt |-> st, scope |-> sc, nlocals |-> nl, nbits |-> nb, start |-> sa, arg |-> ar,
   patch |-> pa, breaks |-> br, entry |-> en, exit |-> ex]

Made(b, kd, st, sc, nl, nb, sa, ar, pa, br, en, ex) == b = Record(kd, st, sc, nl, nb, sa, ar, pa, br, en, ex)

(* Two fields of a block are changed. *)
LEMMA RecordExceptTwo ==
  ASSUME NEW b, NEW kd, NEW st, NEW sc, NEW nl, NEW nb, NEW sa, NEW ar, NEW pa, NEW br, NEW en, NEW ex,
         Made(b, kd, st, sc, nl, nb, sa, ar, pa, br, en, ex), NEW X, NEW Y
  PROVE  /\ Made([b EXCEPT !.breaks = X, !.exit = Y], kd, st, sc, nl, nb, sa, ar, pa, X, en, Y)
         /\ Made([b EXCEPT !.scope = X, !.patch = Y], kd, st, X, nl, nb, sa, ar, Y, br, en, ex)
<1> USE DEF Made
<1> DEFINE b1 == [b EXCEPT !.breaks = X]
           b2 == [b EXCEPT !.scope = X]
<1>1. [b EXCEPT !.breaks = X, !.exit = Y] = [b1 EXCEPT !.exit = Y]
  OBVIOUS
<1>2. [b EXCEPT !.scope = X, !.patch = Y] = [b2 EXCEPT !.patch = Y]
  OBVIOUS
<1>3. b1 = Record(kd, st, sc, nl, nb, sa, ar, pa, X, en, ex) /\ b2 = Record(kd, st, X, nl, nb, sa, ar, pa, br, en, ex)
  BY DEF Record
<1> HIDE DEF b1, b2
<1>4. [b1 EXCEPT !.exit = Y] = Record(kd, st, sc, nl, nb, sa, ar, pa, X, en, Y)
  BY <1>3 DEF Record
<1>5. [b2 EXCEPT !.patch = Y] = Record(kd, st, X, nl, nb, sa, ar, Y, br, en, ex)
  BY <1>3 DEF Record
<1> QED
  BY <1>1, <1>2, <1>4, <1>5

(* Three are. *)
LEMMA RecordExceptThree ==
  ASSUME NEW b, NEW kd, NEW st, NEW sc, NEW nl, NEW nb, NEW sa, NEW ar, NEW pa, NEW br, NEW en, NEW ex,
         Made(b, kd, st, sc, nl, nb, sa, ar, pa, br, en, ex), NEW X, NEW Y, NEW Z
  PROVE  /\ Made([b EXCEPT !.kind = X, !.breaks = Y, !.exit = Z], X, st, sc, nl, nb, sa, ar, pa, Y, en, Z)
<1> USE DEF Made
<1> DEFINE b1 == [b EXCEPT !.kind = X]
           b2 == [b1 EXCEPT !.breaks = Y]
<1>1. [b EXCEPT !.kind = X, !.breaks = Y, !.exit = Z] = [b2 EXCEPT !.exit = Z]
  OBVIOUS
<1>3. b1 = Record(X, st, sc, nl, nb, sa, ar, pa, br, en, ex)
  BY DEF Record
<1> HIDE DEF b1
<1>4. b2 = Record(X, st, sc, nl, nb, sa, ar, pa, Y, en, ex)
  BY <1>3 DEF Record
<1> HIDE DEF b2
<1>5. [b2 EXCEPT !.exit = Z] = Record(X, st, sc, nl, nb, sa, ar, pa, Y, en, Z)
  BY <1>4 DEF Record
<1> QED
  BY <1>1, <1>5

IsRecord(b) ==
  b = Record(b.kind, b.stmt, b.scope, b.nlocals, b.nbits, b.start, b.arg, b.patch, b.breaks, b.entry, b.exit)

(* Some fields of a block are replaced. *)
WithExit(d, b, X, Y) ==
  d = Record(b.kind, b.stmt, b.scope, b.nlocals, b.nbits, b.start, b.arg, b.patch, X, b.entry, Y)
WithScope(d, b, X, Y) ==
  d = Record(b.kind, b.stmt, X, b.nlocals, b.nbits, b.start, b.arg, Y, b.breaks, b.entry, b.exit)
WithKind(d, b, X, Y, Z) ==
  d = Record(X, b.stmt, b.scope, b.nlocals, b.nbits, b.start, b.arg, b.patch, Y, b.entry, Z)
WithArg(d, b, X) ==
  d = Record(b.kind, b.stmt, b.scope, b.nlocals, b.nbits, b.start, X, b.patch, b.breaks, b.entry, b.exit)

(* How the compiler changes blocks. *)
LEMMA BlockUpdates ==
  ASSUME NEW b, IsRecord(b), NEW X, NEW Y, NEW Z
  PROVE  /\ WithExit([b EXCEPT !.breaks = X, !.exit = Y], b, X, Y)
         /\ WithScope([b EXCEPT !.scope = X, !.patch = Y], b, X, Y)
         /\ WithKind([b EXCEPT !.kind = X, !.breaks = Y, !.exit = Z], b, X, Y, Z)
         /\ WithArg([b EXCEPT !.arg = X], b, X)
<1>1. PICK kd, st, sc, nl, nb, sa, ar, pa, br, en, ex : Made(b, kd, st, sc, nl, nb, sa, ar, pa, br, en, ex)
  BY DEF IsRecord, Made
<1>2. /\ b.kind = kd /\ b.stmt = st /\ b.scope = sc /\ b.nlocals = nl /\ b.nbits = nb /\ b.start = sa
      /\ b.arg = ar /\ b.patch = pa /\ b.breaks = br /\ b.entry = en /\ b.exit = ex
  BY <1>1 DEF Record, Made
<1>3. WithExit([b EXCEPT !.breaks = X, !.exit = Y], b, X, Y)
  <2>1. Made([b EXCEPT !.breaks = X, !.exit = Y], kd, st, sc, nl, nb, sa, ar, pa, X, en, Y)
    BY <1>1, RecordExceptTwo
  <2> QED
    BY <1>2, <2>1 DEF Made, WithExit
<1>4. WithScope([b EXCEPT !.scope = X, !.patch = Y], b, X, Y)
  <2>1. Made([b EXCEPT !.scope = X, !.patch = Y], kd, st, X, nl, nb, sa, ar, Y, br, en, ex)
    BY <1>1, RecordExceptTwo
  <2> QED
    BY <1>2, <2>1 DEF Made, WithScope
<1>5. WithKind([b EXCEPT !.kind = X, !.breaks = Y, !.exit = Z], b, X, Y, Z)
  <2>1. Made([b EXCEPT !.kind = X, !.breaks = Y, !.exit = Z], X, st, sc, nl, nb, sa, ar, pa, Y, en, Z)
    BY <1>1, RecordExceptThree
  <2> QED
    BY <1>2, <2>1 DEF Made, WithKind
<1>6. WithArg([b EXCEPT !.arg = X], b, X)
  <2>1. [b EXCEPT !.arg = X] = Record(kd, st, sc, nl, nb, sa, X, pa, br, en, ex)
    BY <1>1 DEF Record, Made
  <2> QED
    BY <1>2, <2>1 DEF Made, WithArg
<1> QED
  BY <1>3, <1>4, <1>5, <1>6

(* A block made by Block or Init. *)
LEMMA RecordIs ==
  ASSUME NEW d, NEW kd, NEW st, NEW sc, NEW nl, NEW nb, NEW sa, NEW ar, NEW pa, NEW br, NEW en, NEW ex,
         d = Record(kd, st, sc, nl, nb, sa, ar, pa, br, en, ex)
  PROVE  IsRecord(d)
<1>1. /\ d.kind = kd /\ d.stmt = st /\ d.scope = sc /\ d.nlocals = nl /\ d.nbits = nb /\ d.start = sa
      /\ d.arg = ar /\ d.patch = pa /\ d.breaks = br /\ d.entry = en /\ d.exit = ex
  BY DEF Record
<1> QED
  BY <1>1 DEF IsRecord

(* The fields after such a change. *)
LEMMA UpdatedFields ==
  ASSUME NEW b, NEW d, NEW X, NEW Y, NEW Z
  PROVE  /\ WithExit(d, b, X, Y) =>
              /\ IsRecord(d) /\ d.breaks = X /\ d.exit = Y /\ d.kind = b.kind /\ d.stmt = b.stmt /\ d.scope = b.scope
              /\ d.nlocals = b.nlocals /\ d.nbits = b.nbits /\ d.start = b.start /\ d.arg = b.arg
              /\ d.patch = b.patch /\ d.entry = b.entry
         /\ WithScope(d, b, X, Y) =>
              /\ IsRecord(d) /\ d.scope = X /\ d.patch = Y /\ d.kind = b.kind /\ d.stmt = b.stmt
              /\ d.nlocals = b.nlocals /\ d.nbits = b.nbits /\ d.start = b.start /\ d.arg = b.arg
              /\ d.breaks = b.breaks /\ d.entry = b.entry /\ d.exit = b.exit
         /\ WithKind(d, b, X, Y, Z) =>
              /\ IsRecord(d) /\ d.kind = X /\ d.breaks = Y /\ d.exit = Z /\ d.stmt = b.stmt /\ d.scope = b.scope
              /\ d.nlocals = b.nlocals /\ d.nbits = b.nbits /\ d.start = b.start /\ d.arg = b.arg
              /\ d.patch = b.patch /\ d.entry = b.entry
         /\ WithArg(d, b, X) =>
              /\ IsRecord(d) /\ d.arg = X /\ d.kind = b.kind /\ d.stmt = b.stmt /\ d.scope = b.scope
              /\ d.nlocals = b.nlocals /\ d.nbits = b.nbits /\ d.start = b.start
              /\ d.patch = b.patch /\ d.breaks = b.breaks /\ d.entry = b.entry /\ d.exit = b.exit
<1>1. WithExit(d, b, X, Y) \/ WithScope(d, b, X, Y) \/ WithKind(d, b, X, Y, Z) \/ WithArg(d, b, X) => IsRecord(d)
  BY RecordIs DEF WithExit, WithScope, WithKind, WithArg
<1> QED
  BY <1>1 DEF WithExit, WithScope, WithKind, WithArg, Record

(* The fields of a block. *)
LEMMA BlockIsRecord ==
  ASSUME NEW b
  PROVE  IsBlock(b) <=>
           /\ IsRecord(b)
           /\ b.nlocals \in Nat /\ b.nbits \in Nat /\ b.stmt.first \in Nat /\ b.stmt.top \in Nat
           /\ b.scope.first \in Nat /\ b.scope.top \in Nat
           /\ IsFlow(b.entry) /\ IsFlow(b.exit)
  BY DEF IsBlock, Record, IsRecord

(* A break out of `let m = loop` first writes m. *)
Written(e, c, b) == e = IF b.kind = "letloop" THEN Append(c, Const(b.scope.top - 1)) ELSE c

(* `break` from `let m = loop` writes m, whose slot holds nothing. *)
LEMMA BreakValue ==
  ASSUME NEW R, NEW c, NEW s, NEW ls, NEW bs, NEW f, NEW z, NEW N, NEW W, Compiling(R, c, s, ls, bs, f, z, N, W),
         NEW i \in 1 .. Len(bs), bs[i].kind \in {"loop", "letloop"},
         bs[i].kind = "letloop" => f.may \subseteq OuterBits(bs[i]), NEW e, Written(e, c, bs[i])
  PROVE  \E Q : Traced(Q, e, s.leafs, z, N, bs, ls, {}) /\ \A t \in Q[Len(e)] : Arrives(s.leafs, f, t)
<1> DEFINE b == bs[i]
           l == s.leafs
           E0 == {}
           d == b.scope.top - 1
           a == <<Const(d)>>
           X == {t \in State(l, N) : Arrives(l, f, t)}
<1>1. /\ Scoped(s, ls, bs, f, z, N, W) /\ Traced(R, c, l, z, N, bs, ls, E0)
      /\ \A t \in R[Len(c)] : Arrives(l, f, t)
  BY CompilingFacts
<1>2. CASE b.kind # "letloop"
  BY <1>1, <1>2 DEF Written
<1>3. CASE b.kind = "letloop"
  <2>1. /\ b.nbits \in Nat /\ f.may \subseteq Pending(s) /\ b.stmt.top \in Nat
        /\ \A y \in Pending(s) : y < b.nbits => SlotAt(s.leafs, y) < b.stmt.top
        /\ b.scope.top = b.stmt.top + 1
    BY <1>1, <1>3, LoopFacts
  <2>2. \A y \in f.may : SlotAt(l, y) < b.stmt.top /\ SlotAt(l, y) \in Nat
    <3>1. \A y \in f.may : y \in OuterBits(b) /\ y \in Pending(s)
      BY <1>3, <2>1
    <3>2. \A y \in Pending(s) : SlotAt(l, y) \in Nat
      BY <1>1, BlockFacts, StackFacts
    <3> QED
      BY <2>1, <3>1, <3>2 DEF OuterBits
  <2>3. d = b.stmt.top
    BY <2>1
  <2>4. d \notin SlotsOf(l, f.may)
    BY <2>1, <2>2, <2>3 DEF SlotsOf
  <2>5. IsSeq(a) /\ \A k \in 1 .. Len(a) : a[k].op # "Skipped"
    BY Literals DEF Const
  <2>6. \A t \in R[Len(c)] : \E v \in X : Runs(a, l, N, t, v)
    <3> SUFFICES ASSUME NEW t \in R[Len(c)] PROVE \E v \in X : Runs(a, l, N, t, v)
      OBVIOUS
    <3>1. Arrives(l, f, t) /\ t \in State(l, N)
      <4>1. R \in [Nat -> SUBSET State(l, N)] /\ Len(c) \in Nat
        <5> HIDE DEF l, E0
        <5> QED
          BY <1>1, TracedFacts
      <4> QED
        BY <1>1, <4>1
    <3>2. PICK F : t = Settled(l, F) /\ F \subseteq f.may
      BY <3>1 DEF Arrives
    <3>3. d \notin SlotsOf(l, F)
      BY <2>4, <3>2 DEF SlotsOf
    <3> HIDE DEF d
    <3>4. Runs(a, l, N, Settled(l, F), Settled(l, F))
      BY <3>1, <3>2, <3>3, ConstRun
    <3> QED
      BY <3>1, <3>2, <3>4
  <2> HIDE DEF X, a, l, E0, d
  <2>7. PICK P : Traced(P, c \o a, l, z, N, bs, ls, E0) /\ Keeps(R, P, Len(c)) /\ P[Len(c \o a)] \subseteq X
    BY <1>1, <2>5, <2>6, TracedRuns
  <2>8. e = c \o a
    <3>1. e = Append(c, Const(d))
      BY <1>3 DEF Written, d
    <3>2. IsSeq(c)
      BY <1>1, TracedFacts
    <3> QED
      BY <3>1, <3>2, AppendConcat DEF a
  <2>9. \A t \in P[Len(e)] : Arrives(l, f, t)
    BY <2>7, <2>8 DEF X
  <2> QED
    BY <2>7, <2>8, <2>9 DEF l, E0
<1> QED
  BY <1>2, <1>3

(* Block d is b with one more break, at n, where the flow is f. *)
BrokenBy(d, b, f, n) ==
  d = [b EXCEPT !.breaks = @ \cup {n}, !.exit = Join(@, Restrict(f, OuterBits(b)))]

(* The loop that a `break` leaves. *)
LEMMA BrokenFacts ==
  ASSUME NEW s, NEW ls, NEW bs, NEW f, NEW z, NEW N, NEW W, Scoped(s, ls, bs, f, z, N, W),
         NEW i \in 1 .. Len(bs), NEW b, b = bs[i], b.kind \in {"loop", "letloop"}, NEW n, NEW d, BrokenBy(d, b, f, n)
  PROVE  /\ Left(d, b, s) /\ d.breaks = b.breaks \cup {n} /\ d.exit = Join(b.exit, Restrict(f, OuterBits(b)))
         /\ \A k \in 1 .. i - 1 : Fits(d.exit, bs[k], ls)
<1> DEFINE X == b.breaks \cup {n}
           g == Restrict(f, OuterBits(b))
           Y == Join(b.exit, g)
<1>1. /\ IsBlock(b) /\ b.nbits \in Nat /\ IsFlow(f) /\ f.may \subseteq Pending(s) /\ IsFlow(b.exit)
      /\ \A y \in b.exit.may : y < b.nbits /\ y \in Pending(s)
      /\ \A k \in 1 .. i - 1 : Fits(b.exit, bs[k], ls) /\ Fits(f, bs[k], ls)
  BY LoopFacts
<1>2. IsFlow(g) /\ g.may = f.may \cap OuterBits(b)
  BY <1>1, RestrictFacts
<1>3. \A y \in g.may : y \in f.may /\ y < b.nbits /\ y \in Pending(s)
  BY <1>1, <1>2 DEF OuterBits
<1> HIDE DEF g
<1>4. IsFlow(Y) /\ \A y \in Y.may : y \in b.exit.may \/ y \in g.may
  BY <1>1, <1>2, JoinFacts
<1>5. d = [b EXCEPT !.breaks = X, !.exit = Y]
  BY DEF BrokenBy, g
<1> HIDE DEF X, Y
<1>6. WithExit(d, b, X, Y)
  <2>1. IsRecord(b)
    BY <1>1, BlockIsRecord
  <2>2. WithExit([b EXCEPT !.breaks = X, !.exit = Y], b, X, Y)
    BY <2>1, BlockUpdates
  <2> QED
    BY <1>5, <2>2
<1>7. /\ IsRecord(d) /\ d.breaks = X /\ d.exit = Y /\ d.kind = b.kind /\ d.stmt = b.stmt /\ d.scope = b.scope
      /\ d.nlocals = b.nlocals /\ d.nbits = b.nbits /\ d.start = b.start /\ d.arg = b.arg
      /\ d.patch = b.patch /\ d.entry = b.entry
  BY <1>6, UpdatedFields
<1>8. IsBlock(d)
  <2>1. /\ b.nlocals \in Nat /\ b.nbits \in Nat /\ b.stmt.first \in Nat /\ b.stmt.top \in Nat
        /\ b.scope.first \in Nat /\ b.scope.top \in Nat /\ IsFlow(b.entry)
    BY <1>1 DEF IsBlock
  <2> QED
    BY <1>4, <1>7, <2>1, BlockIsRecord
<1>9. Left(d, b, s)
  BY <1>1, <1>3, <1>4, <1>7, <1>8 DEF Left
<1>10. \A k \in 1 .. i - 1 : Fits(d.exit, bs[k], ls)
  BY <1>1, <1>3, <1>4, <1>7 DEF Fits
<1> QED
  BY <1>7, <1>9, <1>10 DEF X, Y, g

(* `break` *)
LEMMA BreakStep ==
  ASSUME NEW R, NEW c, NEW s, NEW ls, NEW bs, NEW f, NEW z, NEW N, NEW W, Compiling(R, c, s, ls, bs, f, z, N, W),
         NEW i \in 1 .. Len(bs), bs[i].kind \in {"loop", "letloop"},
         bs[i].kind = "letloop" => f.may \subseteq OuterBits(bs[i]), NEW e, Written(e, c, bs[i]),
         NEW k, Skips(k, e), NEW d, BrokenBy(d, bs[i], f, Len(e)), NEW cs, Replaced1(cs, bs, i, d)
  PROVE  \E Q : Compiling(Q, k, s, ls, cs, Unreachable, z, N, W)
<1> DEFINE b == bs[i]
           l == s.leafs
           E0 == {}
           n == Len(e)
           D1 == {n}
           X == {}
           g == Restrict(f, OuterBits(b))
<1>1. Scoped(s, ls, bs, f, z, N, W) /\ W \in Nat
  BY CompilingFacts
<1>2. PICK Q : Traced(Q, e, l, z, N, bs, ls, E0) /\ \A t \in Q[n] : Arrives(l, f, t)
  BY BreakValue
<1>3. /\ Left(d, b, s) /\ d.breaks = b.breaks \cup D1 /\ d.exit = Join(b.exit, g)
      /\ \A j \in 1 .. i - 1 : Fits(d.exit, bs[j], ls)
  BY <1>1, BrokenFacts
<1>4. /\ IsBlock(b) /\ b.nbits \in Nat /\ IsFlow(f) /\ IsFlow(b.exit)
  BY <1>1, LoopFacts
<1>5. n \in Nat /\ IsSeq(e)
  BY <1>2, TracedFacts
<1>6. IsFlow(g) /\ g.reach = f.reach /\ g.must = f.must \cap OuterBits(b) /\ g.may = f.may \cap OuterBits(b)
  BY <1>4, RestrictFacts
<1>7. \A t \in Q[n] : Clean(l, t) /\ Ends(l, b.nbits, g, t) /\ (b.kind = "letloop" => Arrives(l, g, t))
  <2> SUFFICES ASSUME NEW t \in Q[n]
               PROVE  Clean(l, t) /\ Ends(l, b.nbits, g, t) /\ (b.kind = "letloop" => Arrives(l, g, t))
    OBVIOUS
  <2>1. Arrives(l, f, t)
    BY <1>2
  <2>2. PICK F : /\ t = Settled(l, F) /\ F \subseteq 0 .. Len(l) - 1 /\ Apart(l, F)
                 /\ f.must \subseteq F /\ F \subseteq f.may
    BY <2>1 DEF Arrives
  <2>3. f.reach /\ g.reach
    BY <1>6, <2>1 DEF Arrives
  <2>4. g.must \subseteq F /\ \A y \in F : y < b.nbits => y \in g.may
    <3>1. \A y \in F : y \in Nat
      BY <1>4, <2>2 DEF IsFlow
    <3> QED
      BY <1>4, <1>6, <2>2, <3>1 DEF OuterBits
  <2>5. Ends(l, b.nbits, g, t)
    BY <2>2, <2>3, <2>4 DEF Ends
  <2>6. b.kind = "letloop" => Arrives(l, g, t)
    BY <1>6, <2>2, <2>3, <2>4 DEF Arrives
  <2> QED
    BY <2>5, <2>6, ArrivesEnds
<1>8. OpensAt(D1, E0, n) /\ X \in SUBSET State(l, N) /\ \A t \in X : Arrives(l, Unreachable, t)
  BY DEF OpensAt
<1> HIDE DEF X, E0, D1, l, g
<1>9. /\ Len(k) = n + 1
      /\ \E P : Traced(P, k, l, z, N, bs, ls, D1) /\ Starts(Q, P, n, X)
  <2>1. Traced(Q, e, l, z, N, bs, ls, E0) /\ OpensAt(D1, E0, Len(e))
    BY <1>2, <1>8
  <2>2. /\ Len(Append(e, Skipped)) = Len(e) + 1 /\ IsSeq(Append(e, Skipped))
        /\ \E P : Traced(P, Append(e, Skipped), l, z, N, bs, ls, D1) /\ Starts(Q, P, Len(e), X)
    BY <1>8, <2>1, TracedSkip
  <2> QED
    BY <2>2 DEF Skips
<1>10. PICK P : Traced(P, k, l, z, N, bs, ls, D1) /\ Starts(Q, P, n, X)
  BY <1>9
<1>11. HoleOk(P, l, b, ls) /\ Placed(b, Len(k)) /\ Len(k) \in Nat
  BY <1>10, TracedFacts
<1>12. P[Len(k)] = X /\ P[n] = Q[n]
  <2> HIDE DEF n
  <2>1. SameUpTo(Q, P, n, X)
    BY <1>5, <1>10, StartsFacts
  <2> QED
    BY <1>5, <1>9, <2>1 DEF SameUpTo
<1>13. /\ d.kind = b.kind /\ d.nbits = b.nbits /\ d.entry = b.entry /\ d.start = b.start /\ d.nlocals = b.nlocals
  BY <1>3 DEF Left
<1>14. /\ Falls(d) = {} /\ Exits(d) = b.breaks \cup D1 /\ Holes(d) = b.breaks \cup D1 /\ Holes(b) = b.breaks
       /\ Exits(b) = b.breaks
  BY <1>3, <1>13 DEF Falls, Exits, Holes
<1>15. \A h \in Exits(d) : \A t \in P[h] : Ends(l, d.nbits, d.exit, t) /\ (d.kind = "letloop" => Arrives(l, d.exit, t))
  <2> SUFFICES ASSUME NEW h \in b.breaks \cup D1, NEW t \in P[h]
               PROVE  Ends(l, d.nbits, d.exit, t) /\ (d.kind = "letloop" => Arrives(l, d.exit, t))
    BY <1>14
  <2>1. h \in b.breaks \/ h = n
    BY DEF D1
  <2>2. \/ Ends(l, b.nbits, b.exit, t) /\ (b.kind = "letloop" => Arrives(l, b.exit, t))
        \/ Ends(l, b.nbits, g, t) /\ (b.kind = "letloop" => Arrives(l, g, t))
    <3>1. CASE h \in b.breaks
      BY <1>11, <1>14, <3>1 DEF HoleOk
    <3>2. CASE h = n
      BY <1>7, <1>12, <3>2
    <3> QED
      BY <2>1, <3>1, <3>2
  <2> DEFINE j == Join(b.exit, g)
  <2>3. Ends(l, b.nbits, j, t) /\ (b.kind = "letloop" => Arrives(l, j, t))
    BY <1>4, <1>6, <2>2, JoinArrives
  <2> QED
    BY <1>3, <1>13, <2>3
<1>16. HoleOk(P, l, d, ls)
  <2>1. d.kind \in {"loop", "letloop"} => \A F : Heads(d, ls, F) => Settled(l, F) \in P[d.start]
    BY <1>11, <1>13 DEF HoleOk, Heads, Knows
  <2> QED
    BY <1>13, <1>14, <1>15, <2>1 DEF HoleOk
<1>17. Placed(d, Len(k))
  <2>1. n \in 0 .. Len(k) - 1
    BY <1>5, <1>9
  <2>2. b.breaks \subseteq 0 .. Len(k) - 1 /\ d.start \in 0 .. Len(k)
    BY <1>11, <1>13, <1>14 DEF Placed
  <2> QED
    BY <1>14, <2>1, <2>2 DEF Placed, D1
<1>18. D1 \cup Holes(bs[i]) \subseteq E0 \cup Holes(d)
  BY <1>14
<1>19. Traced(P, k, l, z, N, cs, ls, E0)
  <2>1. d.nbits = bs[i].nbits
    BY <1>13
  <2> QED
    BY <1>10, <1>16, <1>17, <1>18, <2>1, TracedReplaced
<1>20. Scoped(s, ls, cs, Unreachable, z, N, W)
  BY <1>1, <1>3, ScopedExit
<1>21. \A t \in P[Len(k)] : Arrives(l, Unreachable, t)
  BY <1>8, <1>12
<1> QED
  BY <1>1, <1>19, <1>20, <1>21 DEF Compiling, l, E0

(* What evaluates the result of the function, and where it goes. *)
IsResult(r, bs, ls, f) ==
  IF bs[1].kind = "void" THEN r = <<>>
  ELSE \E i \in 1 .. Len(ls) : \E p \in PlacesOf(ls[i]) :
         BitsOf(p) \subseteq f.must /\ WidthOf(p) = 1 /\ r = << Copy(0, p.slot, 1), Ranged("LocalMove", p.lo, p.hi) >>
ResultIn(bs) == IF bs[1].kind = "void" THEN NoSlot ELSE 0

(* Besides the values that flags stand for, state t holds those in O. *)
Returning(l, N, O, t) ==
  \E G : /\ t = Holding(l, G, O) /\ G \subseteq 0 .. Len(l) - 1 /\ Apart(l, G) /\ t \in State(l, N)
         /\ O \subseteq 0 .. N - 1 /\ O \cap SlotsOf(l, G) = {}
Handed(d) == IF d = NoSlot THEN {} ELSE {d}

(* The result is put into slot 0. *)
LEMMA ResultRuns ==
  ASSUME NEW s, NEW ls, NEW bs, NEW f, NEW z, NEW N, NEW W, Scoped(s, ls, bs, f, z, N, W), W \in Nat,
         bs[1].kind # "void" => z > 0, NEW r, IsResult(r, bs, ls, f)
  PROVE  /\ IsSeq(r) /\ NoHole(r)
         /\ \A t : Arrives(s.leafs, f, t) =>
              \E v : Runs(r, s.leafs, N, t, v) /\ Returning(s.leafs, N, Handed(ResultIn(bs)), v)
<1> DEFINE l == s.leafs
           P == Pending(s)
<1>1. IsStack(s, z, N) /\ LocalsOk(ls, s, W) /\ IsFlow(f) /\ f.may \subseteq P /\ f.must \subseteq f.may
  BY BlockFacts DEF IsFlow
<1>2. Frame(l, z, N, P) /\ Slotted(l, z, N) /\ Len(l) \in Nat /\ z \in Nat /\ N \in Nat /\ z <= N
  BY <1>1, StackFrame, StackFacts
<1>3. CASE bs[1].kind = "void"
  <2>1. r = <<>> /\ Handed(ResultIn(bs)) = {}
    BY <1>3 DEF IsResult, ResultIn, Handed
  <2>2. IsSeq(<<>>) /\ NoHole(<<>>)
    BY Literals DEF NoHole
  <2>3. ASSUME NEW t, Arrives(l, f, t) PROVE Runs(<<>>, l, N, t, t) /\ Returning(l, N, {}, t)
    <3>1. PICK F : t = Settled(l, F) /\ F \subseteq 0 .. Len(l) - 1 /\ Apart(l, F)
      BY <2>3 DEF Arrives
    <3>2. t \in State(l, N) /\ t = Holding(l, F, {})
      <4>1. {} \in SUBSET (0 .. N - 1)
        OBVIOUS
      <4>2. Holding(l, F, {}) \in State(l, N) /\ Settled(l, F) = Holding(l, F, {})
        BY <1>2, <3>1, <4>1, HoldingState
      <4> QED
        BY <3>1, <4>2
    <3>3. Returning(l, N, {}, t)
      BY <3>1, <3>2 DEF Returning
    <3> QED
      BY <3>2, <3>3, RunsEmpty
  <2> QED
    BY <2>1, <2>2, <2>3
<1>4. CASE bs[1].kind # "void"
  <2>1. PICK i \in 1 .. Len(ls) : \E p \in PlacesOf(ls[i]) :
          BitsOf(p) \subseteq f.must /\ WidthOf(p) = 1 /\ r = << Copy(0, p.slot, 1), Ranged("LocalMove", p.lo, p.hi) >>
    BY <1>4 DEF IsResult
  <2>2. PICK p \in PlacesOf(ls[i]) :
          BitsOf(p) \subseteq f.must /\ WidthOf(p) = 1 /\ r = << Copy(0, p.slot, 1), Ranged("LocalMove", p.lo, p.hi) >>
    BY <2>1
  <2> DEFINE q == << Copy(0, p.slot, 1), Ranged("LocalMove", p.lo, p.hi) >>
             D == BitsOf(p)
             O == {0}
  <2>3. Handed(ResultIn(bs)) = O
    BY <1>4 DEF ResultIn, Handed, NoSlot
  <2>4. IsSeq(q) /\ NoHole(q)
    BY Literals DEF NoHole, Copy, Ranged
  <2>5. PlaceAt(l, p, D)
    BY <1>1, <1>2, PlaceOfLocal
  <2>6. ASSUME NEW t, Arrives(l, f, t) PROVE \E v : Runs(q, l, N, t, v) /\ Returning(l, N, O, v)
    <3>1. PICK F : t = Settled(l, F) /\ F \subseteq 0 .. Len(l) - 1 /\ f.must \subseteq F /\ F \subseteq f.may
      BY <2>6 DEF Arrives
    <3> DEFINE G == F \ D
    <3>2. Without(F, D, G, P)
      BY <1>1, <2>2, <3>1 DEF Without
    <3>3. Apart(l, G) /\ G \subseteq 0 .. Len(l) - 1
      BY <1>2, <3>2, WithoutSlots
    <3> HIDE DEF G
    <3>4. Runs(q, l, N, Settled(l, F), Holding(l, G, O))
      <4>1. z > 0 /\ N > 0 /\ WidthOf(p) = 1
        BY <1>2, <1>4, <2>2
      <4> QED
        BY <1>2, <2>5, <3>2, <4>1, ResultRun
    <3>5. /\ Holding(l, G, O) \in State(l, N) /\ SlotsOf(l, G) \subseteq z .. N - 1 /\ O \subseteq 0 .. N - 1
      <4>1. O \in SUBSET (0 .. N - 1)
        BY <1>2, <1>4
      <4> HIDE DEF O
      <4> QED
        BY <1>2, <3>3, <4>1, HoldingState
    <3>6. O \cap SlotsOf(l, G) = {}
      BY <1>2, <1>4, <3>5
    <3>7. Returning(l, N, O, Holding(l, G, O))
      BY <3>3, <3>5, <3>6 DEF Returning
    <3> QED
      BY <3>1, <3>4, <3>7
  <2> HIDE DEF O
  <2> QED
    BY <2>2, <2>3, <2>4, <2>6
<1> QED
  BY <1>3, <1>4

(* Return. *)
LEMMA ReturnOk ==
  ASSUME NEW R, NEW n, NEW l, NEW N, NEW d, \A t \in R[n] : Returning(l, N, Handed(d), t)
  PROVE  LeadsBack(R, Return(d), n, l) /\ Return(d).op # "Skipped"
<1>1. Return(d).op = "Return" /\ Result(Return(d)) = Handed(d)
  BY DEF Return, Result, Handed
<1>2. Nexts(Return(d), n) = {}
  BY <1>1 DEF Nexts
<1>3. ASSUME NEW t \in R[n] PROVE Safe(Return(d), l, t)
  <2>1. PICK G : t = Holding(l, G, Handed(d)) /\ Apart(l, G) /\ Handed(d) \cap SlotsOf(l, G) = {}
    BY DEF Returning
  <2>2. t.flags = G /\ t.owned = SlotsOf(l, G) \cup Handed(d)
    BY <2>1 DEF Holding
  <2> QED
    BY <1>1, <2>1, <2>2 DEF Safe, Clean
<1> QED
  BY <1>1, <1>2, <1>3 DEF LeadsBack

(* Return is appended. *)
LEMMA TracedReturn ==
  ASSUME NEW R, NEW c, NEW l, NEW z, NEW N, NEW bs, NEW ls, NEW E, Traced(R, c, l, z, N, bs, ls, E),
         NEW d, \A t \in R[Len(c)] : Returning(l, N, Handed(d), t)
  PROVE  \E Q : Traced(Q, c \o <<Return(d)>>, l, z, N, bs, ls, E) /\ Q[Len(c \o <<Return(d)>>)] = {}
<1> DEFINE i == Return(d)
           X == {}
           k == c \o <<i>>
           n == Len(c)
<1>1. LeadsBack(R, i, Len(c), l) /\ i.op # "Skipped"
  BY ReturnOk
<1>2. Opens(E, E, c, i) /\ X \in SUBSET State(l, N)
  BY <1>1 DEF Opens
<1>3. IsSeq(c) /\ n \in Nat
  BY TracedFacts
<1>4. Appended(k, c, i)
  <2> HIDE DEF i
  <2> QED
    BY <1>3, AppendConcat DEF Appended
<1> HIDE DEF X, i, k
<1>5. /\ Len(k) = Len(c) + 1 /\ IsSeq(k)
      /\ \E Q : Traced(Q, k, l, z, N, bs, ls, E) /\ Starts(R, Q, Len(c), X)
  BY <1>1, <1>2, <1>4, TracedAppend
<1>6. PICK Q : Traced(Q, k, l, z, N, bs, ls, E) /\ Starts(R, Q, n, X)
  BY <1>5
<1> HIDE DEF n
<1>7. SameUpTo(R, Q, n, X)
  BY <1>3, <1>6, StartsFacts
<1>8. Q[Len(k)] = {}
  <2>1. Len(k) = n + 1 /\ X = {}
    BY <1>5 DEF n, X
  <2> QED
    BY <1>7, <2>1 DEF SameUpTo
<1> QED
  BY <1>6, <1>8 DEF k, i

(* Code that evaluates the result is appended. *)
LEMMA TracedResult ==
  ASSUME NEW R, NEW c, NEW s, NEW ls, NEW bs, NEW f, NEW z, NEW N, NEW W, Compiling(R, c, s, ls, bs, f, z, N, W),
         bs[1].kind # "void" => z > 0, NEW r, IsResult(r, bs, ls, f)
  PROVE  \E Q : /\ Traced(Q, c \o r, s.leafs, z, N, bs, ls, {})
                /\ \A t \in Q[Len(c \o r)] : Returning(s.leafs, N, Handed(ResultIn(bs)), t)
<1> DEFINE l == s.leafs
           O == Handed(ResultIn(bs))
           X == {t \in State(l, N) : Returning(l, N, O, t)}
           E0 == {}
<1>1. /\ Scoped(s, ls, bs, f, z, N, W) /\ Traced(R, c, l, z, N, bs, ls, E0) /\ W \in Nat
      /\ \A t \in R[Len(c)] : Arrives(l, f, t)
  BY CompilingFacts
<1>2. /\ IsSeq(r) /\ NoHole(r)
      /\ \A t : Arrives(l, f, t) => \E v : Runs(r, l, N, t, v) /\ Returning(l, N, O, v)
  BY <1>1, ResultRuns
<1>3. \A t \in R[Len(c)] : \E v \in X : Runs(r, l, N, t, v)
  BY <1>1, <1>2 DEF Returning
<1>4. IsSeq(r) /\ \A k \in 1 .. Len(r) : r[k].op # "Skipped"
  BY <1>2 DEF NoHole
<1> HIDE DEF X, E0, l
<1>5. PICK Q : Traced(Q, c \o r, l, z, N, bs, ls, E0) /\ Keeps(R, Q, Len(c)) /\ Q[Len(c \o r)] \subseteq X
  BY <1>1, <1>3, <1>4, TracedRuns
<1> QED
  BY <1>5 DEF X, l, E0

(* `return` *)
LEMMA ReturnStep ==
  ASSUME NEW R, NEW c, NEW s, NEW ls, NEW bs, NEW f, NEW z, NEW N, NEW W, Compiling(R, c, s, ls, bs, f, z, N, W),
         bs[1].kind # "void" => z > 0, NEW r, IsResult(r, bs, ls, f)
  PROVE  \E Q : Compiling(Q, c \o r \o <<Return(ResultIn(bs))>>, s, ls, bs, Unreachable, z, N, W)
<1> DEFINE k == c \o r
           d == ResultIn(bs)
           l == s.leafs
           E0 == {}
<1>1. Scoped(s, ls, bs, f, z, N, W) /\ W \in Nat
  BY CompilingFacts
<1>2. PICK P : Traced(P, k, l, z, N, bs, ls, E0) /\ \A t \in P[Len(k)] : Returning(l, N, Handed(d), t)
  BY TracedResult
<1> HIDE DEF k, d, l, E0
<1>3. PICK Q : Traced(Q, k \o <<Return(d)>>, l, z, N, bs, ls, E0) /\ Q[Len(k \o <<Return(d)>>)] = {}
  BY <1>2, TracedReturn
<1>4. Scoped(s, ls, bs, Unreachable, z, N, W)
  BY <1>1, ScopedUnreachable
<1>5. Compiling(Q, k \o <<Return(d)>>, s, ls, bs, Unreachable, z, N, W)
  BY <1>1, <1>3, <1>4 DEF Compiling, l, E0
<1> QED
  BY <1>5 DEF k, d

(* The next arm starts with the flow Passed(b, ls). *)
LEMMA PassedOk ==
  ASSUME NEW s, NEW ls, NEW bs, NEW f, NEW z, NEW N, NEW W, Scoped(s, ls, bs, f, z, N, W), NEW b, IsLast(b, bs),
         b.kind = "guarded", NEW d, Follows(d, b)
  PROVE  /\ Enters(Passed(b, ls), d, bs, s, ls) /\ Passed(b, ls).reach
         /\ b.stmt.top \notin SlotsOf(s.leafs, Passed(b, ls).may)
<1> DEFINE x == ls[b.nlocals + 1]
           X == BitsOf(PlaceOf(x))
           g == Passed(b, ls)
<1>1. /\ IsStack(s, z, N) /\ LocalsOk(ls, s, W) /\ IsSeq(bs) /\ Len(bs) \in Nat /\ Len(ls) \in Nat
      /\ s.first \in Nat /\ Len(s.leafs) \in Nat
  BY BlockFacts, StackFacts
<1>2. /\ Nested(b, s.first, s.top, s, ls, z) /\ b.nbits \in Nat /\ b.nlocals \in Nat /\ b.nbits <= s.first
      /\ \A y \in Pending(s) : y < b.nbits => SlotAt(s.leafs, y) < b.stmt.top
      /\ b.stmt.top \in Nat /\ IsBlock(b)
  BY LastFacts
<1>3. /\ b.nlocals < Len(ls) /\ x.lo + x.n <= s.first /\ b.stmt.top < x.slot
      /\ b.entry.reach /\ \A y \in b.entry.may : y < b.nbits /\ y \in Pending(s)
  BY <1>2 DEF Nested
<1>4. b.nlocals + 1 \in 1 .. Len(ls) /\ ~(b.nlocals + 1 <= b.nlocals)
  BY <1>1, <1>2, <1>3
<1>5. LocalOk(x, s) /\ b.nbits <= x.lo
  BY <1>1, <1>2, <1>4 DEF LocalsOk, Nested
<1>6. /\ x.slot \in Nat /\ x.lo \in Nat /\ x.n \in 1 .. 2
      /\ \A y \in x.lo .. x.lo + x.n - 1 : y \in Pending(s)
      /\ x.n = 1 => SlotAt(s.leafs, x.lo) = x.slot
      /\ x.n = 2 => SlotAt(s.leafs, x.lo) = x.slot + 1 /\ SlotAt(s.leafs, x.lo + 1) = x.slot
  BY <1>5, LocalSlots
<1>7. X = x.lo .. x.lo + x.n - 1
  BY DEF BitsOf, PlaceOf
<1> HIDE DEF x, X, g
<1>8. \A y \in X : /\ y \in Nat /\ y \in Pending(s) /\ b.nbits <= y /\ y < s.first /\ b.stmt.top < SlotAt(s.leafs, y)
  <2> SUFFICES ASSUME NEW y \in X
               PROVE  /\ y \in Nat /\ y \in Pending(s) /\ b.nbits <= y /\ y < s.first /\ b.stmt.top < SlotAt(s.leafs, y)
    OBVIOUS
  <2>1. y \in Nat /\ y \in Pending(s) /\ b.nbits <= y /\ y < s.first
    BY <1>1, <1>2, <1>3, <1>5, <1>6, <1>7
  <2>2. CASE x.n = 1
    <3>1. y = x.lo
      BY <1>6, <1>7, <2>2
    <3> QED
      BY <1>3, <1>6, <2>1, <2>2, <3>1
  <2>3. CASE x.n = 2
    <3>1. y = x.lo \/ y = x.lo + 1
      BY <1>6, <1>7, <2>3
    <3>2. SlotAt(s.leafs, y) = x.slot + 1 \/ SlotAt(s.leafs, y) = x.slot
      BY <1>6, <2>3, <3>1
    <3> QED
      BY <1>2, <1>3, <1>6, <2>1, <3>2
  <2> QED
    BY <1>6, <2>2, <2>3
<1>9. IsFlow(b.entry) /\ b.entry.must \subseteq b.entry.may /\ b.entry.may \subseteq Nat
  <2>1. IsFlow(b.entry)
    BY <1>2 DEF IsBlock
  <2> QED
    BY <2>1, FlowShape
<1>10. g.reach = b.entry.reach /\ g.must = b.entry.must \ BitsOf(b.arg) /\ g.may = b.entry.may \cup X
       /\ g = [reach |-> b.entry.reach, must |-> b.entry.must \ BitsOf(b.arg), may |-> b.entry.may \cup X]
  <2> DEFINE Y == b.entry.must \ BitsOf(b.arg)
             Z == b.entry.may \cup X
  <2>0. g = [b.entry EXCEPT !.must = Y, !.may = Z]
    BY DEF g, Passed, X, x
  <2> HIDE DEF Y, Z
  <2>1. [b.entry EXCEPT !.must = Y, !.may = Z] = [reach |-> b.entry.reach, must |-> Y, may |-> Z]
    BY <1>9, FlowExceptAll
  <2> QED
    BY <2>0, <2>1 DEF Y, Z
<1>11. IsFlow(g)
  <2>1. g.must \subseteq g.may /\ g.may \subseteq Nat /\ g.must \subseteq Nat
    BY <1>8, <1>9, <1>10
  <2>2. g \in [reach : BOOLEAN, must : SUBSET Nat, may : SUBSET Nat]
    BY <1>3, <1>10, <2>1
  <2> QED
    BY <1>3, <1>10, <2>1, <2>2 DEF IsFlow
<1>12. \A y \in g.may : y \in Pending(s) /\ y < s.first /\ (y < b.nbits => y \in b.entry.may)
  <2>1. \A y \in b.entry.may : y \in Nat /\ y < s.first /\ y \in Pending(s)
    BY <1>1, <1>2, <1>3, <1>9
  <2>2. \A y \in X : y < b.nbits => FALSE
    BY <1>2, <1>8
  <2> QED
    BY <1>8, <1>10, <2>1, <2>2
<1>13. ASSUME NEW k \in 1 .. Len(bs) - 1 PROVE Fits(g, bs[k], ls)
  <2>0. Len(bs) \in 1 .. Len(bs) /\ k \in 1 .. Len(bs) /\ k < Len(bs) /\ b = bs[Len(bs)]
    BY <1>1 DEF IsLast
  <2>1. Within(bs[k], InnerFirst(bs, s, k), b, ls) /\ bs[k].nbits <= b.nbits
    BY <2>0, WithinFacts
  <2>2. Fits(b.entry, bs[k], ls) /\ bs[k].nbits \in Nat
    BY <2>0, <2>1, BlockFacts DEF Within
  <2>3. \A y \in X : y < bs[k].nbits => FALSE
    BY <1>2, <1>8, <2>1, <2>2
  <2> QED
    BY <1>10, <2>2, <2>3 DEF Fits
<1>14. d.nbits = b.nbits /\ d.entry = b.entry
  BY DEF Follows
<1>15. Enters(g, d, bs, s, ls)
  BY <1>11, <1>12, <1>13, <1>14 DEF Enters
<1>16. b.stmt.top \notin SlotsOf(s.leafs, g.may)
  <2> SUFFICES ASSUME NEW y \in g.may PROVE SlotAt(s.leafs, y) # b.stmt.top
    BY DEF SlotsOf
  <2>1. CASE y \in X
    <3>1. b.stmt.top < SlotAt(s.leafs, y)
      BY <1>8, <2>1
    <3> QED
      BY <1>2, <3>1
  <2>2. CASE y \in b.entry.may
    <3>1. SlotAt(s.leafs, y) < b.stmt.top
      BY <1>2, <1>3, <2>2
    <3> QED
      BY <1>2, <3>1
  <2> QED
    BY <1>10, <2>1, <2>2
<1> QED
  BY <1>3, <1>10, <1>15, <1>16 DEF g

(* Code d is k with both tests of arm b leading to its end, the first if ever. *)
BothTo(d, k, b) ==
  d = [k EXCEPT ![b.patch + 1] = JumpF(Len(k) - b.patch, TRUE),
                ![b.patch + 3] = JumpF(Len(k) - b.patch - 2, FALSE)]

(* Block y is the arm after arm b; n is the end of b's code, g the flow there. *)
NextOf(y, b, n, g) ==
  Follows(y, b) /\ y.kind = "match" /\ y.patch = n + 2 /\ y.breaks = {n} /\ y.exit = g

(* The tests of the last block are filled in, and the block is closed. *)
LEMMA BothFilled ==
  ASSUME NEW R, NEW c, NEW l, NEW z, NEW N, NEW bs, NEW ls, NEW D, Traced(R, c, l, z, N, bs, ls, D),
         NEW b, IsLast(b, bs), b.kind = "guarded", b.patch \in Nat, Len(c) \in Nat, b.patch + 2 < Len(c),
         \A t \in R[b.patch] : Clean(l, t) /\ t \in R[b.patch + 1],
         \A t \in R[b.patch + 2] : Clean(l, t) /\ t \in R[b.patch + 3] /\ t \in R[Len(c)],
         NEW d, BothTo(d, c, b)
  PROVE  Traced(R, d, l, z, N, SubSeq(bs, 1, Len(bs) - 1), ls, D) /\ Len(d) = Len(c)
<1> DEFINE h == b.patch
           h2 == h + 2
           i == JumpF(Len(c) - h, TRUE)
           i2 == JumpF(Len(c) - h2, FALSE)
           D2 == D \cup {h2}
           k == Patch(c, h, i)
           cs == SubSeq(bs, 1, Len(bs) - 1)
<1>1. StepOk(R, i, h, l) /\ i.op # "Skipped"
  <2>1. \A t \in R[h] : Clean(l, t) /\ t \in R[h + 1] /\ (TRUE \/ t \in R[Len(c)])
    OBVIOUS
  <2> QED
    BY <2>1, JumpFOk
<1>2. StepOk(R, i2, h2, l) /\ i2.op # "Skipped"
  <2>1. h2 \in Nat /\ h2 + 1 = b.patch + 3
    OBVIOUS
  <2>2. \A t \in R[h2] : Clean(l, t) /\ t \in R[h2 + 1] /\ (FALSE \/ t \in R[Len(c)])
    BY <2>1
  <2> HIDE DEF h2
  <2> QED
    BY <2>1, <2>2, JumpFOk
<1>3. FreesOne(D2, D, b, h)
  BY DEF FreesOne, Frees, Holes, Falls, Exits
<1>4. d = [k EXCEPT ![h2 + 1] = i2]
  <2>1. Len(c) - b.patch - 2 = Len(c) - h2 /\ b.patch + 3 = h2 + 1
    OBVIOUS
  <2>2. d = [k EXCEPT ![b.patch + 3] = JumpF(Len(c) - b.patch - 2, FALSE)]
    BY DEF BothTo, Patch
  <2> QED
    BY <2>1, <2>2
<1>5. h2 \in 0 .. Len(c) - 1
  OBVIOUS
<1> HIDE DEF h2, i, i2, D2, k
<1>6. Traced(R, k, l, z, N, cs, ls, D2) /\ Len(k) = Len(c)
  <2>1. Traced(R, Patch(c, h, i), l, z, N, SubSeq(bs, 1, Len(bs) - 1), ls, D2) /\ Len(Patch(c, h, i)) = Len(c)
    BY <1>1, <1>3, FillOne
  <2> QED
    BY <2>1 DEF k
<1> HIDE DEF cs, h
<1>7. h2 \in 0 .. Len(k) - 1
  BY <1>5, <1>6
<1>8. D2 \subseteq D \cup {h2}
  BY DEF D2
<1>9. Traced(R, [k EXCEPT ![h2 + 1] = i2], l, z, N, cs, ls, D) /\ Len([k EXCEPT ![h2 + 1] = i2]) = Len(k)
  BY <1>2, <1>6, <1>7, <1>8, TracedFill
<1> QED
  BY <1>4, <1>6, <1>9 DEF cs

(* `} _ => {` after a guarded arm *)
LEMMA NextArmStep ==
  ASSUME NEW R, NEW c, NEW s, NEW ls, NEW bs, NEW f, NEW z, NEW N, NEW W, Compiling(R, c, s, ls, bs, f, z, N, W),
         NEW b, IsLast(b, bs), b.kind = "guarded", NEW o, Popped(s, o, b.scope), NEW u, BodyAt(o, u, o.top),
         NEW ms, NEW cs, Kept(ms, cs, ls, bs, b),
         NEW g, FlowOut(g, f, b), NEW e, Dropping(e, c, s), NEW k, Skips(k, e), NEW d, BothTo(d, k, b),
         NEW y, NextOf(y, b, Len(e), g)
  PROVE  \E Q : Compiling(Q, d \o Test(b.stmt.top), u, ms, Append(cs, y), Passed(b, ls), z, N, W)
<1> DEFINE l == s.leafs
           E0 == {}
           n == Len(e)
           D1 == {n}
           D2 == {n, n + 2}
           h == b.patch
           v == Passed(b, ls)
           a == b.stmt.top
           q == d \o Test(a)
<1>1. Scoped(s, ls, bs, f, z, N, W) /\ W \in Nat
  BY CompilingFacts
<1>30. PICK Q : Traced(Q, e, s.leafs, z, N, bs, ls, {}) /\ Ended(Q, Len(e), s.leafs, b, g)
  BY CloseInner DEF Dropping, FlowOut
<1>2. Traced(Q, e, l, z, N, bs, ls, E0) /\ \A t \in Q[n] : Ends(l, b.nbits, g, t)
  BY <1>30 DEF Ended
<1>3. Holes(b) = {h, h + 2} /\ Falls(b) = {h, h + 2} /\ Exits(b) = {}
  BY DEF Holes, Falls, Exits
<1>4. /\ HoleOk(Q, l, b, ls) /\ Placed(b, n) /\ n \in Nat /\ IsSeq(e)
      /\ \A x \in Holes(b) : x \in 0 .. n - 1 /\ x \in Nat /\ x < n /\ Q[x] \in SUBSET State(l, N)
      /\ Q[n] \in SUBSET State(l, N)
  <2> HIDE DEF l, E0
  <2> QED
    BY <1>2, LastHole
<1>5. /\ h \in Nat /\ h < n /\ h + 2 < n /\ h + 1 < n /\ h + 3 <= n
      /\ \A t \in Q[h] : Clean(l, t) /\ t \in Q[h + 1]
      /\ \A t \in Q[h + 2] : Clean(l, t) /\ t \in Q[h + 3] /\ Arrives(l, v, t)
      /\ Q[h + 2] \in SUBSET State(l, N)
  <2>1. h \in Nat /\ h + 2 \in Nat /\ h + 2 < n /\ Q[h + 2] \in SUBSET State(l, N)
    BY <1>3, <1>4
  <2>2. h + 2 + 1 = h + 3 /\ h < n /\ h + 1 < n /\ h + 3 <= n
    BY <1>4, <2>1
  <2>3. /\ \A t \in Q[h] : Clean(l, t) /\ t \in Q[h + 1]
        /\ \A t \in Q[h + 2] : Clean(l, t) /\ t \in Q[h + 2 + 1] /\ Arrives(l, v, t)
    BY <1>3, <1>4 DEF HoleOk
  <2> QED
    BY <2>1, <2>2, <2>3
<1>6. OpensAt(D1, E0, n) /\ OpensAt(D2, D1, n + 2)
  BY DEF OpensAt
<1> DEFINE X == Q[h + 2]
<1>7. X \in SUBSET State(l, N) /\ \A t \in X : Arrives(l, v, t)
  BY <1>5
<1> HIDE DEF X, E0, D1, D2, l
<1>12. /\ Len(k) = n + 1 /\ IsSeq(k)
       /\ \E P : Traced(P, k, l, z, N, bs, ls, D1) /\ Starts(Q, P, n, X)
  <2>1. Traced(Q, e, l, z, N, bs, ls, E0) /\ OpensAt(D1, E0, Len(e))
    BY <1>2, <1>6
  <2>2. /\ Len(Append(e, Skipped)) = Len(e) + 1 /\ IsSeq(Append(e, Skipped))
        /\ \E P : Traced(P, Append(e, Skipped), l, z, N, bs, ls, D1) /\ Starts(Q, P, Len(e), X)
    BY <1>7, <2>1, TracedSkip
  <2> QED
    BY <2>2 DEF Skips
<1>13. PICK P : Traced(P, k, l, z, N, bs, ls, D1) /\ Starts(Q, P, n, X)
  BY <1>12
<1>40. n = Len(e) /\ D2 = {n, n + 2} /\ D1 = {n}
  BY DEF D1, D2
<1> HIDE DEF n
<1>14. SameUpTo(Q, P, n, X)
  BY <1>4, <1>13, StartsFacts
<1>15. Len(k) = n + 1 /\ Len(k) \in Nat /\ n \in Nat
  BY <1>4, <1>12
<1>16. /\ P[Len(k)] = X /\ P[n] = Q[n]
       /\ P[h] = Q[h] /\ P[h + 1] = Q[h + 1] /\ P[h + 2] = Q[h + 2] /\ P[h + 3] = Q[h + 3]
  <2>1. h \in Nat /\ h < n /\ h + 2 \in Nat /\ h + 2 < n /\ h + 2 + 1 = h + 3
    BY <1>5
  <2> QED
    BY <1>14, <1>15, <2>1 DEF SameUpTo
<1>17. cs = SubSeq(bs, 1, Len(bs) - 1)
  BY DEF Kept
<1>18. Traced(P, d, l, z, N, cs, ls, D1) /\ Len(d) = Len(k)
  <2>1. /\ b.patch \in Nat /\ Len(k) \in Nat /\ b.patch + 2 < Len(k)
        /\ \A t \in P[b.patch] : Clean(l, t) /\ t \in P[b.patch + 1]
        /\ \A t \in P[b.patch + 2] : Clean(l, t) /\ t \in P[b.patch + 3] /\ t \in P[Len(k)]
    BY <1>5, <1>15, <1>16 DEF X
  <2> DEFINE ds == SubSeq(bs, 1, Len(bs) - 1)
  <2>2. Traced(P, d, l, z, N, ds, ls, D1) /\ Len(d) = Len(k)
    BY <1>13, <2>1, BothFilled
  <2> QED
    BY <1>17, <2>2
<1>19. Enters(v, y, bs, s, ls) /\ v.reach /\ a \notin SlotsOf(l, v.may)
  <2>1. Follows(y, b)
    BY DEF NextOf
  <2> QED
    BY <1>1, <2>1, PassedOk DEF l
<1> HIDE DEF v, a
<1>20. Slotted(l, z, N)
  <2>1. IsStack(s, z, N)
    BY <1>1, BlockFacts
  <2> QED
    BY <2>1, StackFrame DEF l
<1> HIDE DEF q
<1> DEFINE m == Len(d)
<1>50. m = n + 1
  BY <1>15, <1>18
<1>21. /\ Len(q) = m + 2
       /\ \E M : Traced(M, q, l, z, N, cs, ls, D2) /\ Forks(P, M, l, v, m)
  <2>1. Traced(P, d, l, z, N, cs, ls, D1) /\ OpensAt(D2, D1, Len(d) + 1) /\ \A t \in P[Len(d)] : Arrives(l, v, t)
    <3>1. Len(d) + 1 = n + 2
      BY <1>15, <1>18
    <3> QED
      BY <1>6, <1>7, <1>16, <1>18, <3>1
  <2>2. /\ Len(d \o Test(a)) = Len(d) + 2
        /\ \E M : Traced(M, d \o Test(a), l, z, N, cs, ls, D2) /\ Forks(P, M, l, v, Len(d))
    BY <1>19, <1>20, <2>1, TestStep
  <2> QED
    BY <2>2 DEF q
<1> HIDE DEF m
<1>22. PICK M : Traced(M, q, l, z, N, cs, ls, D2) /\ Forks(P, M, l, v, m)
  BY <1>21
<1>23. /\ M[n] = P[n] /\ M[n + 2] \subseteq M[n + 3] /\ \A t \in M[n + 2] \cup M[n + 3] : Arrives(l, v, t)
       /\ Len(q) = n + 3
  <2>1. m = n + 1 /\ m + 1 = n + 2 /\ m + 2 = n + 3 /\ n \in 0 .. m - 1
    BY <1>15, <1>50
  <2> QED
    BY <1>21, <1>22, <2>1 DEF Forks, Keeps
<1>24. /\ Follows(y, b) /\ y.kind = "match" /\ y.patch = n + 2 /\ y.breaks = {n} /\ y.exit = g
       /\ y.nbits = b.nbits /\ y.start = b.start
  BY <1>40 DEF NextOf, Follows
<1>25. Falls(y) = {n + 2} /\ Exits(y) = {n} /\ Holes(y) = {n, n + 2}
  BY <1>24 DEF Falls, Exits, Holes
<1>26. HoleOk(M, l, y, ls)
  <2>1. \A t \in M[n + 2] : Clean(l, t)
    BY <1>23, ArrivesEnds
  <2>2. \A t \in M[n] : Ends(l, y.nbits, y.exit, t)
    BY <1>2, <1>16, <1>23, <1>24
  <2>3. n + 2 + 1 = n + 3
    BY <1>15
  <2> QED
    BY <1>23, <1>24, <1>25, <2>1, <2>2, <2>3 DEF HoleOk
<1>27. Placed(y, Len(q))
  <2>1. n \in 0 .. Len(q) - 1 /\ n + 2 \in 0 .. Len(q) - 1
    BY <1>15, <1>23
  <2>2. y.start \in 0 .. Len(q)
    BY <1>4, <1>15, <1>23, <1>24 DEF Placed
  <2> QED
    BY <1>25, <2>1, <2>2 DEF Placed
<1> DEFINE E1 == {}
<1>28. Frees(Holes(y) \cup E1, D2, y)
  BY <1>25, <1>40 DEF Frees
<1> HIDE DEF E1
<1>29. Carried(y.exit, b, bs, s, ls)
  <2>1. b = bs[Len(bs)]
    BY DEF IsLast
  <2>2. Carried(Restrict(f, OuterBits(b)), b, bs, s, ls)
    BY <1>1, <2>1, LastCarried
  <2> QED
    BY <1>24, <2>2 DEF FlowOut
<1>31. Traced(M, q, l, z, N, Append(cs, y), ms, E1)
  <2>1. Traced(M, q, s.leafs, z, N, cs, ls, D2) /\ HoleOk(M, s.leafs, y, ls) /\ Follows(y, b)
    BY <1>22, <1>24, <1>26 DEF l
  <2>2. Traced(M, q, s.leafs, z, N, Append(cs, y), ms, E1)
    BY <1>1, <1>27, <1>28, <2>1, TracedFollow
  <2> QED
    BY <2>2 DEF l
<1>32. Scoped(u, ms, Append(cs, y), v, z, N, W) /\ IsStack(u, z, N) /\ u.leafs = s.leafs
  <2>1. Follows(y, b) /\ Enters(v, y, bs, s, ls) /\ Carried(y.exit, b, bs, s, ls)
    BY <1>19, <1>24, <1>29
  <2> QED
    BY <1>1, <2>1, ScopedFollow
<1>33. \A t \in M[Len(q)] : Arrives(l, v, t)
  BY <1>23
<1>34. Compiling(M, q, u, ms, Append(cs, y), v, z, N, W)
  <2>1. l = u.leafs /\ E1 = {}
    BY <1>32 DEF l, E1
  <2> QED
    BY <1>1, <1>31, <1>32, <1>33, <2>1 DEF Compiling
<1> QED
  BY <1>34 DEF q, v, a

(* The compiled function: code c runs as outline Q says. *)
Ready(Q, c, l, z, N) ==
  /\ IsSeq(c) /\ Len(l) \in Nat /\ Slotted(l, z, N)
  /\ Outline(Q, c, l, N) /\ [flags |-> {}, owned |-> {z}] \in Q[0]
  /\ Q[Len(c)] = {} /\ \A h \in 0 .. Len(c) - 1 : c[h + 1].op # "Skipped"

(* The drops of the last scope, the result already in place. *)
LEMMA ReturningDrops ==
  ASSUME NEW s, NEW z, NEW N, IsStack(s, z, N), NEW O, NEW t, Returning(s.leafs, N, O, t)
  PROVE  /\ ScopeDropShape(s)
         /\ \E v : Runs(ScopeDrop(s), s.leafs, N, t, v) /\ Returning(s.leafs, N, O, v)
<1> DEFINE l == s.leafs
<1>1. /\ Slotted(l, z, N) /\ s.first \in Nat /\ Len(l) \in Nat /\ z \in Nat /\ N \in Nat
  BY StackFrame, StackFacts
<1>2. PICK F : /\ t = Holding(l, F, O) /\ F \subseteq 0 .. Len(l) - 1 /\ Apart(l, F)
               /\ O \subseteq 0 .. N - 1 /\ O \cap SlotsOf(l, F) = {}
  BY DEF Returning
<1> DEFINE G == F \ ScopeBits(s)
<1>3. G = F \ ScopeBits(s) /\ G \subseteq F
  OBVIOUS
<1> HIDE DEF G
<1>4. l = s.leafs
  OBVIOUS
<1> HIDE DEF l
<1>5. /\ IsSeq(ScopeDrop(s)) /\ Runs(ScopeDrop(s), l, N, Holding(l, F, O), Holding(l, G, O))
      /\ \A k \in 1 .. Len(ScopeDrop(s)) : ScopeDrop(s)[k].op # "Skipped"
  BY <1>1, <1>2, <1>3, <1>4, ScopeDropRun
<1>6. Apart(l, G) /\ G \subseteq 0 .. Len(l) - 1 /\ O \cap SlotsOf(l, G) = {}
  BY <1>2, <1>3 DEF Apart, SlotsOf
<1>7. Holding(l, G, O) \in State(l, N)
  BY <1>1, <1>2, <1>6, HoldingState
<1>8. Returning(l, N, O, Holding(l, G, O))
  BY <1>2, <1>6, <1>7 DEF Returning
<1>9. ScopeDropShape(s)
  BY <1>5 DEF ScopeDropShape, NoHole
<1> QED
  BY <1>2, <1>4, <1>5, <1>8, <1>9

(* The result, if the end of the body is reached. *)
LastResult(r, bs, ls, f) == IF f.reach THEN IsResult(r, bs, ls, f) ELSE r = <<>>

(* The result of the end of the body. *)
LEMMA TracedLast ==
  ASSUME NEW R, NEW c, NEW s, NEW ls, NEW bs, NEW f, NEW z, NEW N, NEW W, Compiling(R, c, s, ls, bs, f, z, N, W),
         bs[1].kind # "void" => z > 0, NEW r, LastResult(r, bs, ls, f)
  PROVE  \E Q : /\ Traced(Q, c \o r, s.leafs, z, N, bs, ls, {})
                /\ \A t \in Q[Len(c \o r)] : Returning(s.leafs, N, Handed(ResultIn(bs)), t)
<1>1. CASE f.reach
  <2>1. IsResult(r, bs, ls, f)
    BY <1>1 DEF LastResult
  <2> QED
    BY <2>1, TracedResult
<1>2. CASE ~f.reach
  <2>1. /\ Traced(R, c, s.leafs, z, N, bs, ls, {}) /\ \A t \in R[Len(c)] : Arrives(s.leafs, f, t)
        /\ IsSeq(c)
    BY CompilingFacts
  <2>2. r = <<>> /\ c \o <<>> = c
    BY <1>2, <2>1, ConcatEmpty DEF LastResult
  <2>3. \A t \in R[Len(c)] : FALSE
    BY <1>2, <2>1 DEF Arrives
  <2> QED
    BY <2>1, <2>2, <2>3
<1> QED
  BY <1>1, <1>2

(* The finished code has an outline without holes. *)
LEMMA FinishStep ==
  ASSUME NEW R, NEW c, NEW s, NEW ls, NEW bs, NEW f, NEW z, NEW N, NEW W, Compiling(R, c, s, ls, bs, f, z, N, W),
         Len(bs) = 1, bs[1].kind # "void" => z > 0, NEW r, LastResult(r, bs, ls, f)
  PROVE  \E Q : Ready(Q, c \o r \o ScopeDrop(s) \o <<Return(ResultIn(bs))>>, s.leafs, z, N)
<1> DEFINE l == s.leafs
           k == c \o r
           d == ResultIn(bs)
           O == Handed(d)
           X == {t \in State(l, N) : Returning(l, N, O, t)}
           E0 == {}
           ch == ScopeDrop(s)
           e == k \o ch
           q == e \o <<Return(d)>>
<1>1. Scoped(s, ls, bs, f, z, N, W) /\ IsStack(s, z, N)
  BY CompilingFacts
<1>2. PICK P : Traced(P, k, l, z, N, bs, ls, E0) /\ \A t \in P[Len(k)] : Returning(l, N, O, t)
  BY TracedLast
<1>3. \A t : Returning(l, N, O, t) => \E v : Runs(ch, l, N, t, v) /\ Returning(l, N, O, v)
  BY <1>1, ReturningDrops
<1>4. ScopeDropShape(s)
  <2>1. Slotted(l, z, N) /\ s.first \in Nat /\ Len(l) \in Nat
    BY <1>1, StackFrame, StackFacts
  <2>2. LeafsAre(s, l)
    BY DEF LeafsAre
  <2>3. {} \subseteq 0 .. Len(l) - 1 /\ Apart(l, {})
    BY DEF Apart
  <2> DEFINE F == {}
  <2>4. F \subseteq 0 .. Len(l) - 1 /\ Apart(l, F)
    BY <2>3
  <2> HIDE DEF F, l
  <2> QED
    BY <2>1, <2>2, <2>4, DropRuns
<1>5. IsSeq(ch) /\ \A j \in 1 .. Len(ch) : ch[j].op # "Skipped"
  BY <1>4 DEF ScopeDropShape, NoHole
<1>6. \A t \in P[Len(k)] : \E v \in X : Runs(ch, l, N, t, v)
  BY <1>2, <1>3 DEF Returning
<1>7. \A t \in X : Returning(l, N, O, t)
  OBVIOUS
<1> HIDE DEF X, E0, l, ch, k, O, d
<1>8. PICK M : Traced(M, k \o ch, l, z, N, bs, ls, E0) /\ M[Len(k \o ch)] \subseteq X
  BY <1>2, <1>5, <1>6, TracedRuns
<1>9. Traced(M, e, l, z, N, bs, ls, E0) /\ \A t \in M[Len(e)] : Returning(l, N, Handed(d), t)
  BY <1>7, <1>8 DEF O
<1> HIDE DEF e
<1>10. PICK Q : Traced(Q, e \o <<Return(d)>>, l, z, N, bs, ls, E0) /\ Q[Len(e \o <<Return(d)>>)] = {}
  BY <1>9, TracedReturn
<1>11. Traced(Q, q, l, z, N, bs, ls, E0) /\ Q[Len(q)] = {}
  BY <1>10
<1> HIDE DEF q
<1>12. /\ IsSeq(q) /\ Len(l) \in Nat /\ Outline(Q, q, l, N) /\ [flags |-> {}, owned |-> {z}] \in Q[0]
       /\ Filled(q, bs, E0)
  BY <1>11, TracedFacts
<1>13. Slotted(l, z, N)
  BY <1>1, StackFrame DEF l
<1>14. Holes(bs[1]) = {}
  <2>1. 1 \in 1 .. Len(bs)
    OBVIOUS
  <2>2. bs[1].kind \in Bottom
    BY <1>1, <2>1, BlockFacts
  <2> QED
    BY <2>2 DEF Bottom, Holes, Falls, Exits
<1>15. \A h \in 0 .. Len(q) - 1 : q[h + 1].op # "Skipped"
  <2>1. \A j \in 1 .. Len(bs) : j = 1
    OBVIOUS
  <2> QED
    BY <1>12, <1>14, <2>1 DEF Filled, E0
<1>16. Ready(Q, q, l, z, N)
  BY <1>11, <1>12, <1>13, <1>15 DEF Ready
<1> QED
  BY <1>16 DEF q, e, k, ch, d, l

(* Two changes in which no bit is dropped. *)
LEMMA TrimAgain ==
  ASSUME NEW s, NEW u, NEW t, NEW f, Trimmed(s, u, t, f, {}), NEW v, NEW a, NEW m, Trimmed(u, v, a, m, {})
  PROVE  Trimmed(s, v, a, m, {})
  BY DEF Trimmed

(* The stacks on which blocks are opened. *)
LEMMA BodyOk ==
  ASSUME NEW s, NEW z, NEW N, IsStack(s, z, N), s.top + 1 <= N
  PROVE  /\ BodyAt(s, PushScope(PushScope(s)), s.top)
         /\ BodyAt(s, PushScope(AllocPlain(PushScope(s), 1)), s.top + 1)
         /\ BodyAt(s, PushScope(AllocPlain(s, 1)), s.top + 1)
         /\ Trimmed(s, AllocPlain(PushScope(s), 1), s.top + 1, Len(s.leafs), {})
         /\ PushScope(s).top = s.top /\ PushScope(s).first = Len(s.leafs)
         /\ AllocPlain(PushScope(s), 1).top = s.top + 1 /\ AllocPlain(PushScope(s), 1).first = Len(s.leafs)
         /\ AllocPlain(s, 1).top = s.top + 1 /\ AllocPlain(s, 1).first = s.first
         /\ IsStack(AllocPlain(PushScope(s), 1), z, N)
         /\ IsStack(PushScope(s), z, N) /\ Trimmed(s, PushScope(s), s.top, Len(s.leafs), {})
<1> DEFINE a == PushScope(s)
           b == AllocPlain(a, 1)
           d == AllocPlain(s, 1)
           n == Len(s.leafs)
           t == s.top + 1
<1>1. s.top \in Nat /\ n \in Nat /\ N \in Nat /\ z \in Nat /\ s.first \in Nat /\ s.first <= n /\ z <= s.top
  BY StackFacts
<1>2. Trimmed(s, a, s.top, n, {}) /\ Trimmed(s, d, t, s.first, {})
  BY TrimFacts
<1> HIDE DEF a, d
<1>3. IsStack(a, z, N) /\ a.leafs = s.leafs /\ a.top = s.top /\ a.first = n
  <2> DEFINE q == s.top
  <2>1. q \in Nat /\ Trimmed(s, a, q, n, {}) /\ q >= s.top /\ q <= N /\ n = Len(s.leafs)
    BY <1>1, <1>2
  <2> HIDE DEF q, n
  <2>2. IsStack(a, z, N) /\ a.leafs = s.leafs /\ a.top = q /\ a.first = n
    BY <2>1, SameTop
  <2> QED
    BY <2>2 DEF q
<1>4. Trimmed(a, b, t, n, {}) /\ Trimmed(a, PushScope(a), s.top, n, {})
  <2>1. Trimmed(a, AllocPlain(a, 1), a.top + 1, a.first, {}) /\ Trimmed(a, PushScope(a), a.top, Len(a.leafs), {})
    BY <1>3, TrimFacts
  <2> QED
    BY <1>3, <2>1
<1> HIDE DEF b
<1>5. Trimmed(s, b, t, n, {}) /\ Trimmed(s, PushScope(a), s.top, n, {})
  BY <1>2, <1>4, TrimAgain
<1>6. IsStack(b, z, N) /\ b.leafs = s.leafs /\ b.top = t /\ b.first = n
  <2>1. t \in Nat /\ t >= s.top /\ t <= N /\ n = Len(s.leafs)
    BY <1>1
  <2> HIDE DEF t, n
  <2> QED
    BY <1>5, <2>1, SameTop
<1>7. IsStack(d, z, N) /\ d.leafs = s.leafs /\ d.top = t /\ d.first = s.first
  <2>1. t \in z .. N /\ s.first \in 0 .. Len(s.leafs) /\ \A y \in Pending(s) : SlotAt(s.leafs, y) < t
    <3>1. \A y \in Pending(s) : SlotAt(s.leafs, y) \in Nat /\ SlotAt(s.leafs, y) < s.top
      <4>1. \A y \in Bits(s) : SlotAt(s.leafs, y) \in z .. N - 1
        BY StackFacts
      <4> QED
        BY <1>1, <4>1, StackFacts
    <3> QED
      BY <1>1, <3>1
  <2> DEFINE X == {}
  <2>2. X \subseteq Bits(s) /\ Trimmed(s, d, t, s.first, X) /\ \A y \in Pending(s) : y \in X \/ SlotAt(s.leafs, y) < t
    BY <1>2, <2>1
  <2> HIDE DEF X, t
  <2> QED
    BY <2>1, <2>2, TrimmedOk
<1>8. Trimmed(b, PushScope(b), t, n, {}) /\ Trimmed(d, PushScope(d), t, n, {})
  <2>1. Trimmed(b, PushScope(b), b.top, Len(b.leafs), {})
    BY <1>6, TrimFacts
  <2>2. Trimmed(d, PushScope(d), d.top, Len(d.leafs), {})
    BY <1>7, TrimFacts
  <2> QED
    BY <1>6, <1>7, <2>1, <2>2
<1>9. Trimmed(s, PushScope(b), t, n, {}) /\ Trimmed(s, PushScope(d), t, n, {})
  <2>1. Trimmed(s, PushScope(b), t, n, {})
    BY <1>5, <1>8, TrimAgain
  <2>2. Trimmed(s, PushScope(d), t, n, {})
    BY <1>2, <1>8, TrimAgain
  <2> QED
    BY <2>1, <2>2
<1>10. BodyAt(s, PushScope(a), s.top) /\ BodyAt(s, PushScope(b), t) /\ BodyAt(s, PushScope(d), t)
  BY <1>1, <1>5, <1>9 DEF BodyAt
<1> QED
  BY <1>2, <1>3, <1>5, <1>6, <1>7, <1>10 DEF a, b, d

(* The stack on which an arm is opened. *)
LEMMA ArmStackMade ==
  ASSUME NEW s, NEW z, NEW N, IsStack(s, z, N), NEW w \in {1, 2}, s.top + 1 + w <= N
  PROVE  LET r == AllocPlain(PushScope(s), 1)
             v == AllocVal(r, w)
         IN  /\ ArmStack(s, r, v, PushScope(v), Newest(v, w), w)
             /\ IsStack(v, z, N) /\ v.top = s.top + 1 + w
<1> DEFINE r == AllocPlain(PushScope(s), 1)
           v == AllocVal(r, w)
           x == Newest(v, w)
<1>1. s.top \in Nat /\ N \in Nat /\ s.top + 1 <= N
  BY StackFacts
<1>2. Trimmed(s, r, s.top + 1, Len(s.leafs), {}) /\ IsStack(r, z, N) /\ r.top = s.top + 1
  BY <1>1, BodyOk
<1> HIDE DEF r
<1>3. Allocated(r, w, v)
  BY <1>2, AllocFacts
<1> HIDE DEF v
<1>4. NewLocal(r, w, v, x)
  BY <1>3 DEF NewLocal
<1> HIDE DEF x
<1>5. IsStack(v, z, N) /\ v.top = s.top + 1 + w
  <2>1. r.top + w <= N
    BY <1>2
  <2>2. IsStack(v, z, N) /\ v.top = r.top + w
    BY <1>2, <1>4, <2>1, NewLocalOk
  <2> QED
    BY <1>2, <2>2
<1>6. Trimmed(v, PushScope(v), v.top, Len(v.leafs), {})
  BY <1>5, TrimFacts
<1>7. ArmStack(s, r, v, PushScope(v), x, w)
  BY <1>2, <1>4, <1>6 DEF ArmStack
<1> QED
  BY <1>5, <1>7 DEF r, v, x

(* The stack for a pair. *)
LEMMA PairMade ==
  ASSUME NEW s, NEW z, NEW N, IsStack(s, z, N), s.top + 4 <= N
  PROVE  LET a == AllocVal(s, 2)
             b == AllocVal(a, 1)
             d == AllocVal(b, 1)
         IN  Pair(s, Newest(a, 2), b, d, z, N) /\ d.top = s.top + 4
<1> DEFINE a == AllocVal(s, 2)
           b == AllocVal(a, 1)
           d == AllocVal(b, 1)
           x == Newest(a, 2)
           y == Newest(b, 1)
           v == Newest(d, 1)
<1>1. s.top \in Nat /\ N \in Nat /\ s.top + 2 <= N
  BY StackFacts
<1>2. NewLocal(s, 2, a, x)
  BY <1>1, AllocFacts DEF NewLocal
<1> HIDE DEF a, x
<1>3. IsStack(a, z, N) /\ a.top = s.top + 2
  BY <1>1, <1>2, NewLocalOk
<1>4. a.top + 1 <= N
  BY <1>1, <1>3
<1>5. NewLocal(a, 1, b, y)
  BY <1>3, <1>4, AllocFacts DEF NewLocal
<1> HIDE DEF b, y
<1>6. IsStack(b, z, N) /\ b.top = s.top + 3
  <2>1. IsStack(b, z, N) /\ b.top = a.top + 1
    BY <1>3, <1>4, <1>5, NewLocalOk
  <2> QED
    BY <1>1, <1>3, <2>1
<1>7. b.top + 1 <= N
  BY <1>1, <1>6
<1>8. NewLocal(b, 1, d, v)
  BY <1>6, <1>7, AllocFacts DEF NewLocal
<1> HIDE DEF d, v
<1>9. Pair(s, x, b, d, z, N)
  BY <1>2, <1>5, <1>8, PairOk
<1>10. d.top = s.top + 4
  BY <1>9 DEF Pair
<1> QED
  BY <1>9, <1>10 DEF a, b, d, x

Width == IF 2 \in family.widths THEN 4 ELSE 2

(* While the body is compiled, n statements so far: there is room for each of   *)
(* them, and slot 0 is the result's if there is one.                            *)
Going(c, s, ls, bs, f, n, z, N, W) ==
  /\ \E R : Compiling(R, c, s, ls, bs, f, z, N, W)
  /\ n \in Nat /\ s.top <= W * n + 2 /\ (bs[1].kind # "void" => z > 0)

Accepted == family \in Families /\ Hazards = {}

(* The widths of values, and the room there is for them. *)
LEMMA Widths ==
  ASSUME Accepted
  PROVE  Width \in {2, 4} /\ (\A w \in family.widths : w \in {1, 2} /\ w < Width) /\ (2 \in family.widths => Width = 4)
         /\ MaxSlots = Width * MaxStmts + 4 /\ MaxStmts \in Nat
<1>1. family.widths \subseteq {1, 2}
  BY BodiesAssumption DEF Accepted
<1> QED
  BY <1>1, BodiesAssumption DEF Width, MaxSlots

(* What one more statement may count on. *)
Room(s, n, N, W) == s.top \in Nat /\ s.top + W + 2 <= N /\ N \in Nat /\ n \in Nat /\ W \in {2, 4}

(* What a statement may count on. *)
LEMMA LowerFacts ==
  ASSUME Accepted, NEW z, Going(code, stk, locals, blocks, flow, stmts, z, MaxSlots, Width), NEW form, Lower(form)
  PROVE  /\ flow.reach /\ stmts' = stmts + 1 /\ Room(stk, stmts, MaxSlots, Width)
         /\ phase' = phase /\ phase = "compile" /\ runVars' = runVars
         /\ IsStack(stk, z, MaxSlots) /\ stmts' <= MaxStmts
<1> DEFINE N == MaxSlots
           W == Width
<1>1. flow.reach /\ stmts < MaxStmts /\ stmts' = stmts + 1 /\ phase' = phase /\ phase = "compile" /\ runVars' = runVars
  BY DEF Lower
<1>2. IsStack(stk, z, N) /\ stmts \in Nat /\ stk.top <= W * stmts + 2
  BY CompilingFacts DEF Going
<1>3. stk.top \in Nat /\ N \in Nat
  BY <1>2, StackFacts
<1>4. W \in {2, 4} /\ N = W * MaxStmts + 4 /\ MaxStmts \in Nat
  BY Widths
<1> HIDE DEF N, W
<1>5. stk.top + W + 2 <= N /\ stmts + 1 <= MaxStmts
  BY <1>1, <1>2, <1>3, <1>4
<1> QED
  BY <1>1, <1>2, <1>3, <1>4, <1>5 DEF Room, N, W

SameFirst(as, bs) == as[1].kind = bs[1].kind

(* What holds while the body is compiled. *)
LEMMA GoingFacts ==
  ASSUME NEW c, NEW s, NEW ls, NEW bs, NEW f, NEW n, NEW z, NEW N, NEW W, Going(c, s, ls, bs, f, n, z, N, W)
  PROVE  /\ \E R : Compiling(R, c, s, ls, bs, f, z, N, W)
         /\ n \in Nat /\ s.top <= W * n + 2 /\ (bs[1].kind # "void" => z > 0)
         /\ IsStack(s, z, N) /\ Scoped(s, ls, bs, f, z, N, W) /\ W \in Nat /\ s.top \in Nat /\ IsSeq(c)
<1>1. PICK R : Compiling(R, c, s, ls, bs, f, z, N, W)
  BY DEF Going
<1>2. IsStack(s, z, N) /\ Scoped(s, ls, bs, f, z, N, W) /\ W \in Nat /\ IsSeq(c)
  BY <1>1, CompilingFacts
<1>3. s.top \in Nat
  BY <1>2, StackFacts
<1> QED
  BY <1>2, <1>3 DEF Going

(* A statement is lowered. *)
LEMMA GoingOn ==
  ASSUME NEW c, NEW s, NEW ls, NEW bs, NEW f, NEW n, NEW z, NEW N, NEW W, Going(c, s, ls, bs, f, n, z, N, W),
         Room(s, n, N, W),
         NEW R, NEW d, NEW u, NEW ms, NEW cs, NEW g, Compiling(R, d, u, ms, cs, g, z, N, W),
         SameFirst(cs, bs), u.top <= s.top + W, NEW m, m = n + 1
  PROVE  Going(d, u, ms, cs, g, m, z, N, W)
<1>1. n \in Nat /\ s.top <= W * n + 2 /\ (bs[1].kind # "void" => z > 0)
  BY DEF Going
<1>2. u.top \in Nat
  <2>1. IsStack(u, z, N)
    BY CompilingFacts
  <2> QED
    BY <2>1, StackFacts
<1>3. m \in Nat /\ u.top <= W * m + 2
  BY <1>1, <1>2 DEF Room
<1> QED
  BY <1>1, <1>3 DEF Going, SameFirst

(* A block is closed. *)
LEMMA GoingBack ==
  ASSUME NEW c, NEW s, NEW ls, NEW bs, NEW f, NEW n, NEW z, NEW N, NEW W, Going(c, s, ls, bs, f, n, z, N, W),
         NEW R, NEW d, NEW u, NEW ms, NEW cs, NEW g, Compiling(R, d, u, ms, cs, g, z, N, W),
         SameFirst(cs, bs), u.top <= s.top
  PROVE  Going(d, u, ms, cs, g, n, z, N, W)
<1>1. n \in Nat /\ s.top <= W * n + 2 /\ (bs[1].kind # "void" => z > 0) /\ W \in Nat /\ s.top \in Nat
  BY GoingFacts
<1>2. u.top \in Nat
  <2>1. IsStack(u, z, N)
    BY CompilingFacts
  <2> QED
    BY <2>1, StackFacts
<1>3. W * n \in Nat
  BY <1>1
<1>4. u.top <= W * n + 2
  BY <1>1, <1>2, <1>3
<1> QED
  BY <1>1, <1>4 DEF Going, SameFirst

(* A place that may be read, or assigned. *)
LEMMA ReadablePlace ==
  ASSUME NEW z, NEW N, NEW W \in Nat, Scoped(stk, locals, blocks, flow, z, N, W), NEW p \in Readable
  PROVE  /\ \E i \in 1 .. Len(locals) : p \in PlacesOf(locals[i])
         /\ BitsOf(p) \subseteq flow.must /\ WidthOf(p) \in {1, 2} /\ WidthOf(p) < W
<1>1. IsSeq(locals) /\ LocalsOk(locals, stk, W) /\ IsStack(stk, z, N)
  BY BlockFacts
<1>2. DOMAIN locals = 1 .. Len(locals)
  BY <1>1 DEF IsSeq
<1>3. PICK i \in 1 .. Len(locals) : p \in PlacesOf(locals[i]) /\ BitsOf(p) \subseteq flow.must
  BY <1>2 DEF Readable
<1>4. Len(stk.leafs) \in Nat
  BY <1>1, StackFacts
<1>5. WidthOf(p) \in {1, 2} /\ WidthOf(p) < W
  BY <1>1, <1>3, <1>4, PlaceOfLocal
<1> QED
  BY <1>3, <1>5

(* An assignable place is one of a local. *)
LEMMA AssignablePlace ==
  ASSUME NEW z, NEW N, NEW W \in Nat, Scoped(stk, locals, blocks, flow, z, N, W), NEW p \in Assignable
  PROVE  \E i \in 1 .. Len(locals) : p \in PlacesOf(locals[i])
<1>1. IsSeq(locals)
  BY BlockFacts
<1>2. DOMAIN locals = 1 .. Len(locals)
  BY <1>1 DEF IsSeq
<1> QED
  BY <1>2 DEF Assignable

Goes(z) == Going(code, stk, locals, blocks, flow, stmts, z, MaxSlots, Width)
GoesOn(z) == Going(code', stk', locals', blocks', flow', stmts', z, MaxSlots, Width)

(* `let x = f();` keeps the outline. *)
LEMMA LetCallGoes ==
  ASSUME Accepted, NEW z, Goes(z), NEW w \in family.widths, LetCall(w)
  PROVE  GoesOn(z)
<1> DEFINE N == MaxSlots
           W == Width
           a == AllocVal(stk, w)
           x == Newest(a, w)
           b == AllocVal(a, 1)
           d == AllocVal(b, 1)
           g == Inited(flow, BitsOf(PlaceOf(x)))
<1>1. /\ flow.reach /\ stmts' = stmts + 1 /\ Room(stk, stmts, N, W) /\ IsStack(stk, z, N)
  BY LowerFacts DEF LetCall, Goes
<1>2. w \in {1, 2} /\ w < W /\ (w = 2 => W = 4) /\ W \in {2, 4}
  BY Widths
<1>3. blocks' = blocks /\ locals' = Append(locals, x) /\ flow' = g
  BY DEF LetCall
<1>4. PICK R : Compiling(R, code, stk, locals, blocks, flow, z, N, W)
  BY DEF Goes, Going
<1>5. Going(code, stk, locals, blocks, flow, stmts, z, N, W)
  BY DEF Goes
<1>6. SameFirst(blocks, blocks)
  BY DEF SameFirst
<1>7. CASE w = 1
  <2>1. stk' = a /\ code' = code \o CallInit(a, x)
    BY <1>7 DEF LetCall, CallInit
  <2>2. stk.top + 1 <= N /\ 1 < W
    BY <1>1, <1>2, <1>7 DEF Room
  <2>3. NewLocal(stk, 1, a, x) /\ a.top = stk.top + 1
    <3>1. Allocated(stk, 1, a)
      BY <1>1, <1>7, <2>2, AllocFacts
    <3> QED
      BY <1>7, <3>1 DEF NewLocal, Allocated
  <2> HIDE DEF a, x, g, N, W
  <2>4. \E Q : Compiling(Q, code \o CallInit(a, x), a, Append(locals, x), blocks, Inited(flow, BitsOf(PlaceOf(x))), z, N, W)
    BY <1>1, <1>4, <2>2, <2>3, LetCallStep
  <2>5. PICK Q : Compiling(Q, code', a, locals', blocks, flow', z, N, W)
    BY <1>3, <2>1, <2>4 DEF g
  <2>6. a.top <= stk.top + W
    BY <1>1, <2>2, <2>3 DEF Room
  <2>7. Going(code', a, locals', blocks, flow', stmts', z, N, W)
    BY <1>1, <1>5, <1>6, <2>5, <2>6, GoingOn
  <2> QED
    BY <1>3, <2>1, <2>7 DEF GoesOn, N, W
<1>8. CASE w = 2
  <2>1. stk' = d /\ code' = code \o (FieldInit(b, x, 1) \o FieldInit(d, x, 2))
    BY <1>8 DEF LetCall, FieldInit
  <2>2. stk.top + 4 <= N /\ 2 < W
    BY <1>1, <1>2, <1>8 DEF Room
  <2>3. Pair(stk, x, b, d, z, N) /\ d.top = stk.top + 4
    <3>1. LET aa == AllocVal(stk, 2)
              bb == AllocVal(aa, 1)
              dd == AllocVal(bb, 1)
          IN  Pair(stk, Newest(aa, 2), bb, dd, z, N) /\ dd.top = stk.top + 4
      <4> HIDE DEF N
      <4> QED
        BY <1>1, <2>2, PairMade
    <3> QED
      BY <1>8, <3>1
  <2> HIDE DEF a, x, g, N, W, b, d
  <2>4. \E Q : Compiling(Q, code \o (FieldInit(b, x, 1) \o FieldInit(d, x, 2)), d, Append(locals, x), blocks,
                         Inited(flow, BitsOf(PlaceOf(x))), z, N, W)
    BY <1>1, <1>4, <2>2, <2>3, LetPairStep
  <2>5. PICK Q : Compiling(Q, code', d, locals', blocks, flow', z, N, W)
    BY <1>3, <2>1, <2>4 DEF g
  <2>6. d.top <= stk.top + W
    BY <1>1, <1>2, <1>8, <2>3 DEF Room
  <2>7. Going(code', d, locals', blocks, flow', stmts', z, N, W)
    BY <1>1, <1>5, <1>6, <2>5, <2>6, GoingOn
  <2> QED
    BY <1>3, <2>1, <2>7 DEF GoesOn, N, W
<1> QED
  BY <1>2, <1>7, <1>8

(* `let x;` keeps the outline. *)
LEMMA LetUninitGoes ==
  ASSUME Accepted, NEW z, Goes(z), NEW w \in family.widths, LetUninit(w)
  PROVE  GoesOn(z)
<1> DEFINE N == MaxSlots
           W == Width
           a == AllocVal(stk, w)
           x == Newest(a, w)
<1>1. /\ flow.reach /\ stmts' = stmts + 1 /\ Room(stk, stmts, N, W) /\ IsStack(stk, z, N)
  BY LowerFacts DEF LetUninit, Goes
<1>2. w \in {1, 2} /\ w < W /\ W \in {2, 4}
  BY Widths
<1>3. blocks' = blocks /\ locals' = Append(locals, x) /\ flow' = flow /\ code' = code /\ stk' = a
  BY DEF LetUninit
<1>4. PICK R : Compiling(R, code, stk, locals, blocks, flow, z, N, W)
  BY DEF Goes, Going
<1>5. Going(code, stk, locals, blocks, flow, stmts, z, N, W) /\ SameFirst(blocks, blocks)
  BY DEF Goes, SameFirst
<1> HIDE DEF N, W
<1>6. stk.top + w <= N
  BY <1>1, <1>2 DEF Room
<1>7. NewLocal(stk, w, a, x) /\ a.top = stk.top + w
  <2>1. Allocated(stk, w, a)
    BY <1>1, <1>2, <1>6, AllocFacts
  <2> QED
    BY <2>1 DEF NewLocal, Allocated
<1> HIDE DEF a, x
<1>8. PICK Q : Compiling(Q, code, a, Append(locals, x), blocks, flow, z, N, W)
  BY <1>1, <1>2, <1>4, <1>6, <1>7, DeclareStep
<1>9. a.top <= stk.top + W
  BY <1>1, <1>2, <1>7 DEF Room
<1>10. Going(code, a, Append(locals, x), blocks, flow, stmts', z, N, W)
  BY <1>1, <1>5, <1>8, <1>9, GoingOn
<1> QED
  BY <1>3, <1>10 DEF GoesOn, N, W

(* `let x = p;` keeps the outline. *)
LEMMA LetMoveGoes ==
  ASSUME Accepted, NEW z, Goes(z), LetMove
  PROVE  GoesOn(z)
<1> DEFINE N == MaxSlots
           W == Width
<1>1. /\ flow.reach /\ stmts' = stmts + 1 /\ Room(stk, stmts, N, W) /\ IsStack(stk, z, N)
  BY LowerFacts DEF LetMove, Goes
<1>2. PICK p \in Readable :
        LET w == WidthOf(p)
            x == Newest(AllocVal(stk, w), w)
        IN  /\ stk' = AllocVal(stk, w)
            /\ code' = code \o Bind(x, p)
            /\ locals' = Append(locals, x)
            /\ flow' = Inited(Moved(flow, BitsOf(p)), BitsOf(PlaceOf(x)))
  BY DEF LetMove
<1> DEFINE w == WidthOf(p)
           a == AllocVal(stk, w)
           x == Newest(a, w)
<1>3. /\ blocks' = blocks /\ locals' = Append(locals, x) /\ code' = code \o Bind(x, p) /\ stk' = a
      /\ flow' = Inited(Moved(flow, BitsOf(p)), BitsOf(PlaceOf(x)))
  BY <1>2 DEF LetMove
<1>4. PICK R : Compiling(R, code, stk, locals, blocks, flow, z, N, W)
  BY DEF Goes, Going
<1>5. Going(code, stk, locals, blocks, flow, stmts, z, N, W) /\ SameFirst(blocks, blocks)
  BY DEF Goes, SameFirst
<1> HIDE DEF N, W
<1>6. Scoped(stk, locals, blocks, flow, z, N, W) /\ W \in Nat
  BY <1>4, CompilingFacts
<1>7. /\ \E i \in 1 .. Len(locals) : p \in PlacesOf(locals[i])
      /\ BitsOf(p) \subseteq flow.must /\ w \in {1, 2} /\ w < W
  BY <1>6, ReadablePlace
<1>8. stk.top + w <= N
  BY <1>1, <1>7 DEF Room
<1>9. NewLocal(stk, w, a, x) /\ a.top = stk.top + w
  <2> HIDE DEF w
  <2>1. Allocated(stk, w, a)
    BY <1>1, <1>7, <1>8, AllocFacts
  <2> QED
    BY <2>1 DEF NewLocal, Allocated
<1>10. PICK i \in 1 .. Len(locals) : p \in PlacesOf(locals[i])
  BY <1>7
<1> HIDE DEF a, x
<1>11. \E Q : Compiling(Q, code \o Bind(x, p), a, Append(locals, x), blocks,
                        Inited(Moved(flow, BitsOf(p)), BitsOf(PlaceOf(x))), z, N, W)
  BY <1>1, <1>4, <1>7, <1>8, <1>9, <1>10, LetMoveStep
<1>12. PICK Q : Compiling(Q, code', a, locals', blocks, flow', z, N, W)
  BY <1>3, <1>11
<1> HIDE DEF w
<1>13. a.top <= stk.top + W
  BY <1>1, <1>7, <1>9 DEF Room
<1>14. Going(code', a, locals', blocks, flow', stmts', z, N, W)
  BY <1>1, <1>5, <1>12, <1>13, GoingOn
<1> QED
  BY <1>3, <1>14 DEF GoesOn, N, W

(* A statement that leaves the stack, the locals and the blocks as they are. *)
LEMMA SameGoes ==
  ASSUME NEW z, Goes(z), Room(stk, stmts, MaxSlots, Width), stmts' = stmts + 1,
         NEW R, NEW u, Compiling(R, code', u, locals, blocks, flow', z, MaxSlots, Width), u.top = stk.top,
         stk' = u, locals' = locals, blocks' = blocks
  PROVE  GoesOn(z)
<1> DEFINE N == MaxSlots
           W == Width
<1>1. Going(code, stk, locals, blocks, flow, stmts, z, N, W) /\ SameFirst(blocks, blocks)
  BY DEF Goes, SameFirst
<1>2. Room(stk, stmts, N, W) /\ Compiling(R, code', u, locals, blocks, flow', z, N, W)
  OBVIOUS
<1> HIDE DEF N, W
<1>3. u.top <= stk.top + W
  BY <1>2 DEF Room
<1>4. Going(code', u, locals, blocks, flow', stmts', z, N, W)
  BY <1>1, <1>2, <1>3, GoingOn
<1> QED
  BY <1>4 DEF GoesOn, N, W

(* `p = f();` keeps the outline. *)
LEMMA AssignCallGoes ==
  ASSUME Accepted, NEW z, Goes(z), AssignCall
  PROVE  GoesOn(z)
<1> DEFINE N == MaxSlots
           W == Width
           v == AllocVal(PushScope(stk), 1)
           t == Newest(v, 1)
           u == PopScope(v, Saved(stk))
<1>1. /\ flow.reach /\ stmts' = stmts + 1 /\ Room(stk, stmts, N, W) /\ IsStack(stk, z, N)
  BY LowerFacts DEF AssignCall, Goes
<1>2. PICK p \in Assignable :
        /\ WidthOf(p) = 1
        /\ LET s == AllocVal(PushScope(stk), 1)
               t2 == Newest(s, 1)
           IN  /\ code' = code \o << Call(s, t2.slot, {}, TRUE), Ranged("LocalInit", t2.lo, t2.lo) >>
                               \o MoveInto(p, PlaceOf(t2)) \o ScopeDrop(s)
               /\ stk' = PopScope(s, Saved(stk))
        /\ flow' = Inited(flow, BitsOf(p))
  BY DEF AssignCall
<1>3. /\ blocks' = blocks /\ locals' = locals /\ stk' = u /\ flow' = Inited(flow, BitsOf(p)) /\ WidthOf(p) = 1
      /\ code' = code \o CallInit(v, t) \o MoveInto(p, PlaceOf(t)) \o ScopeDrop(v)
  BY <1>2 DEF AssignCall, CallInit
<1>4. PICK R : Compiling(R, code, stk, locals, blocks, flow, z, N, W)
  BY DEF Goes, Going
<1> HIDE DEF N, W
<1>6. Scoped(stk, locals, blocks, flow, z, N, W) /\ W \in Nat
  BY <1>4, CompilingFacts
<1>7. PICK i \in 1 .. Len(locals) : p \in PlacesOf(locals[i])
  BY <1>6, AssignablePlace
<1>8. stk.top + 1 <= N
  BY <1>1 DEF Room
<1>9. Temp(stk, v, t, u, z, N)
  BY <1>1, <1>8, TempOk
<1> HIDE DEF v, t, u
<1>10. \E Q : Compiling(Q, code \o CallInit(v, t) \o MoveInto(p, PlaceOf(t)) \o ScopeDrop(v), u, locals, blocks,
                        Inited(flow, BitsOf(p)), z, N, W)
  BY <1>1, <1>3, <1>4, <1>7, <1>9, AssignCallStep
<1>11. PICK Q : Compiling(Q, code', u, locals, blocks, flow', z, N, W)
  BY <1>3, <1>10
<1>12. u.top = stk.top
  BY <1>9 DEF Temp
<1> QED
  BY <1>1, <1>3, <1>11, <1>12, SameGoes DEF N, W

(* `p = q;` keeps the outline: p and q are different places. *)
LEMMA AssignMoveGoes ==
  ASSUME Accepted, NEW z, Goes(z), AssignMove
  PROVE  GoesOn(z)
<1> DEFINE N == MaxSlots
           W == Width
<1>1. /\ flow.reach /\ stmts' = stmts + 1 /\ Room(stk, stmts, N, W) /\ IsStack(stk, z, N)
  BY LowerFacts DEF AssignMove, Goes
<1>2. PICK p \in Assignable, q \in Readable :
        /\ WidthOf(p) = WidthOf(q) /\ (p # q \/ "self_assign" \in Hazards)
        /\ code' = code \o MoveInto(p, q)
        /\ flow' = Inited(Moved(flow, BitsOf(q)), BitsOf(p))
  BY DEF AssignMove
<1>3. blocks' = blocks /\ locals' = locals /\ stk' = stk /\ p # q
  BY <1>2 DEF AssignMove, Accepted
<1>4. PICK R : Compiling(R, code, stk, locals, blocks, flow, z, N, W)
  BY DEF Goes, Going
<1> HIDE DEF N, W
<1>6. Scoped(stk, locals, blocks, flow, z, N, W) /\ W \in Nat
  BY <1>4, CompilingFacts
<1>7. PICK i \in 1 .. Len(locals) : p \in PlacesOf(locals[i])
  BY <1>6, AssignablePlace
<1>8. BitsOf(q) \subseteq flow.must /\ \E j \in 1 .. Len(locals) : q \in PlacesOf(locals[j])
  BY <1>6, ReadablePlace
<1>9. PICK j \in 1 .. Len(locals) : q \in PlacesOf(locals[j])
  BY <1>8
<1>10. \E Q : Compiling(Q, code \o MoveInto(p, q), stk, locals, blocks, Inited(Moved(flow, BitsOf(q)), BitsOf(p)), z, N, W)
  BY <1>1, <1>2, <1>3, <1>4, <1>7, <1>8, <1>9, AssignMoveStep
<1>11. PICK Q : Compiling(Q, code', stk, locals, blocks, flow', z, N, W)
  BY <1>2, <1>10
<1> QED
  BY <1>1, <1>3, <1>11, SameGoes DEF N, W

(* `g(p);` keeps the outline. *)
LEMMA PassGoes ==
  ASSUME Accepted, NEW z, Goes(z), Pass
  PROVE  GoesOn(z)
<1> DEFINE N == MaxSlots
           W == Width
<1>1. /\ flow.reach /\ stmts' = stmts + 1 /\ Room(stk, stmts, N, W) /\ IsStack(stk, z, N)
  BY LowerFacts DEF Pass, Goes
<1>2. PICK p \in Readable :
        LET w == WidthOf(p)
            s == AllocPlain(PushScope(stk), w)
            arg == s.top - w
        IN  /\ code' = code \o << Copy(arg, p.slot, w), Ranged("LocalMove", p.lo, p.hi),
                                  Call(s, stk.top, arg .. arg + w - 1, FALSE) >>
            /\ flow' = Moved(flow, BitsOf(p))
  BY DEF Pass
<1> DEFINE w == WidthOf(p)
           r == PushScope(stk)
           v == AllocPlain(r, w)
           a == v.top - w
<1>3. /\ blocks' = blocks /\ locals' = locals /\ stk' = stk /\ flow' = Moved(flow, BitsOf(p))
      /\ code' = code \o << Copy(a, p.slot, w), Ranged("LocalMove", p.lo, p.hi), Call(v, stk.top, a .. a + w - 1, FALSE) >>
  BY <1>2 DEF Pass
<1>4. PICK R : Compiling(R, code, stk, locals, blocks, flow, z, N, W)
  BY DEF Goes, Going
<1> HIDE DEF N, W
<1>6. Scoped(stk, locals, blocks, flow, z, N, W) /\ W \in Nat
  BY <1>4, CompilingFacts
<1>7. /\ \E i \in 1 .. Len(locals) : p \in PlacesOf(locals[i])
      /\ BitsOf(p) \subseteq flow.must /\ w \in {1, 2} /\ w < W
  BY <1>6, ReadablePlace
<1>8. PICK i \in 1 .. Len(locals) : p \in PlacesOf(locals[i])
  BY <1>7
<1>9. stk.top + w <= N /\ stk.top \in Nat /\ stk.top + 1 <= N /\ N \in Nat
  BY <1>1, <1>7 DEF Room
<1>10. IsStack(stk, z, N) /\ stk.top + 1 <= N
  BY <1>1, <1>9
<1>11. IsStack(r, z, N) /\ r.top = stk.top /\ Trimmed(stk, r, stk.top, Len(stk.leafs), {})
  BY <1>10, BodyOk
<1>12. Trimmed(r, v, stk.top + w, r.first, {})
  <2>1. \A n \in {1, 2} : Trimmed(r, AllocPlain(r, n), r.top + n, r.first, {})
    BY <1>11, TrimFacts
  <2> QED
    BY <1>7, <1>11, <2>1
<1>13. Pending(v) = Pending(stk) /\ a = stk.top
  <2> HIDE DEF v, r
  <2>1. v.leafs = stk.leafs /\ v.dropped = stk.dropped /\ v.top = stk.top + w
    BY <1>11, <1>12 DEF Trimmed
  <2> HIDE DEF w
  <2> QED
    BY <1>7, <1>9, <2>1 DEF Pending, Bits
<1> HIDE DEF v, r, a
<1>14. \E Q : Compiling(Q, code \o << Copy(a, p.slot, WidthOf(p)), Ranged("LocalMove", p.lo, p.hi),
                                      Call(v, stk.top, a .. a + WidthOf(p) - 1, FALSE) >>,
                        stk, locals, blocks, Moved(flow, BitsOf(p)), z, N, W)
  BY <1>1, <1>4, <1>7, <1>8, <1>9, <1>13, PassStep
<1>15. PICK Q : Compiling(Q, code', stk, locals, blocks, flow', z, N, W)
  BY <1>3, <1>14
<1> QED
  BY <1>1, <1>3, <1>15, SameGoes DEF N, W

(* `f();` keeps the outline. *)
LEMMA CallStmtGoes ==
  ASSUME Accepted, NEW z, Goes(z), CallStmt
  PROVE  GoesOn(z)
<1> DEFINE N == MaxSlots
           W == Width
           v == AllocVal(PushScope(stk), 1)
           t == Newest(v, 1)
           u == PopScope(v, Saved(stk))
<1>1. /\ flow.reach /\ stmts' = stmts + 1 /\ Room(stk, stmts, N, W) /\ IsStack(stk, z, N)
  BY LowerFacts DEF CallStmt, Goes
<1>3. /\ blocks' = blocks /\ locals' = locals /\ stk' = u /\ flow' = flow
      /\ code' = code \o CallInit(v, t) \o ScopeDrop(v)
  BY DEF CallStmt, CallInit
<1>4. PICK R : Compiling(R, code, stk, locals, blocks, flow, z, N, W)
  BY DEF Goes, Going
<1> HIDE DEF N, W
<1>8. stk.top + 1 <= N
  BY <1>1 DEF Room
<1>9. Temp(stk, v, t, u, z, N)
  BY <1>1, <1>8, TempOk
<1> HIDE DEF v, t, u
<1>10. \E Q : Compiling(Q, code \o CallInit(v, t) \o ScopeDrop(v), u, locals, blocks, flow, z, N, W)
  BY <1>1, <1>4, <1>9, CallStmtStep
<1>11. PICK Q : Compiling(Q, code', u, locals, blocks, flow', z, N, W)
  BY <1>3, <1>10
<1>12. u.top = stk.top
  BY <1>9 DEF Temp
<1> QED
  BY <1>1, <1>3, <1>11, <1>12, SameGoes DEF N, W

(* The outermost block stays. *)
LEMMA FirstKept ==
  ASSUME NEW bs, IsSeq(bs), Len(bs) >= 1
  PROVE  /\ SameFirst(bs, bs) /\ \A b : SameFirst(Append(bs, b), bs)
         /\ Len(bs) > 1 => /\ SameFirst(SubSeq(bs, 1, Len(bs) - 1), bs)
                           /\ \A b : SameFirst(Append(SubSeq(bs, 1, Len(bs) - 1), b), bs)
<1>1. \A b : SameFirst(Append(bs, b), bs)
  BY IsSeqFacts DEF SameFirst
<1>2. ASSUME Len(bs) > 1
      PROVE  /\ SameFirst(SubSeq(bs, 1, Len(bs) - 1), bs)
             /\ \A b : SameFirst(Append(SubSeq(bs, 1, Len(bs) - 1), b), bs)
  <2> DEFINE n == Len(bs) - 1
             cs == SubSeq(bs, 1, n)
  <2>1. n \in Nat /\ n <= Len(bs) /\ 1 \in 1 .. n
    BY <1>2, IsSeqFacts
  <2> HIDE DEF n
  <2>2. IsSeq(cs) /\ Len(cs) = n /\ \A k \in 1 .. n : cs[k] = bs[k]
    BY <2>1, SubSeqFacts
  <2> HIDE DEF cs
  <2>3. cs[1] = bs[1] /\ \A b : Append(cs, b)[1] = cs[1]
    BY <2>1, <2>2, IsSeqFacts
  <2> QED
    BY <2>3 DEF SameFirst, cs, n
<1> QED
  BY <1>1, <1>2 DEF SameFirst

(* Scope s, in which the body of a block is opened on stack u. *)
BodyScope(kind, s, u) ==
  /\ s.top \in Nat /\ u.top = s.top
  /\ s.first = IF kind = "letloop" THEN stk.first ELSE Len(stk.leafs)
  /\ kind = "letloop" => u.top = stk.top + 1

(* The block that is opened. *)
LEMMA OpenedMade ==
  ASSUME NEW z, NEW N, NEW W, Scoped(stk, locals, blocks, flow, z, N, W),
         NEW kind, NEW s, NEW u, BodyScope(kind, s, u), NEW start, NEW patch
  PROVE  LET b == Block(kind, Saved(stk), s, start, patch)
         IN  Opened(b, stk, u, locals, flow) /\ b.kind = kind /\ b.start = start /\ b.patch = patch
<1> DEFINE b == Block(kind, Saved(stk), s, start, patch)
<1>1. /\ IsStack(stk, z, N) /\ IsFlow(flow) /\ Len(locals) \in Nat
  BY BlockFacts
<1>2. stk.top \in Nat /\ stk.first \in Nat /\ Len(stk.leafs) \in Nat
  BY <1>1, StackFacts
<1>3. IsFlow(Unreachable)
  BY ScopedUnreachable
<1>4. /\ b.kind = kind /\ b.start = start /\ b.patch = patch /\ b.nlocals = Len(locals)
      /\ b.nbits = Len(stk.leafs) /\ b.entry = flow /\ b.exit = Unreachable /\ b.breaks = {}
      /\ b.stmt.first = stk.first /\ b.stmt.top = stk.top /\ b.scope.first = s.first /\ b.scope.top = s.top
      /\ b = [kind |-> b.kind, stmt |-> b.stmt, scope |-> b.scope, nlocals |-> b.nlocals, nbits |-> b.nbits,
          start |-> b.start, arg |-> b.arg, patch |-> b.patch, breaks |-> b.breaks,
          entry |-> b.entry, exit |-> b.exit]
  BY DEF Block, Saved
<1> HIDE DEF b
<1>5. s.first \in Nat /\ s.top \in Nat
  BY <1>2 DEF BodyScope
<1>6. IsBlock(b)
  BY <1>1, <1>2, <1>3, <1>4, <1>5 DEF IsBlock
<1>7. Opened(b, stk, u, locals, flow)
  BY <1>4, <1>6 DEF Opened, BodyScope
<1> QED
  BY <1>4, <1>7 DEF b

(* A block is opened. *)
LEMMA OpenGoes ==
  ASSUME NEW z, Goes(z), Room(stk, stmts, MaxSlots, Width), stmts' = stmts + 1,
         NEW R, NEW u, NEW b, Compiling(R, code', u, locals', Append(blocks, b), flow', z, MaxSlots, Width),
         u.top <= stk.top + Width, stk' = u, blocks' = Append(blocks, b)
  PROVE  GoesOn(z)
<1> DEFINE N == MaxSlots
           W == Width
<1>1. Going(code, stk, locals, blocks, flow, stmts, z, N, W)
  BY DEF Goes
<1>2. Room(stk, stmts, N, W) /\ Compiling(R, code', u, locals', Append(blocks, b), flow', z, N, W) /\ u.top <= stk.top + W
  OBVIOUS
<1> HIDE DEF N, W
<1>3. Scoped(stk, locals, blocks, flow, z, N, W)
  BY <1>1, GoingFacts
<1>4. IsSeq(blocks) /\ Len(blocks) >= 1
  BY <1>3, BlockFacts
<1>5. SameFirst(Append(blocks, b), blocks)
  BY <1>4, FirstKept
<1>6. Going(code', u, locals', Append(blocks, b), flow', stmts', z, N, W)
  BY <1>1, <1>2, <1>5, GoingOn
<1> QED
  BY <1>6 DEF GoesOn, N, W

(* `{` keeps the outline. *)
LEMMA OpenBlockGoes ==
  ASSUME Accepted, NEW z, Goes(z), OpenBlock
  PROVE  GoesOn(z)
<1> DEFINE N == MaxSlots
           W == Width
           s == PushScope(stk)
           u == PushScope(s)
           b == Block("block", Saved(stk), s, 0, 0)
<1>1. /\ flow.reach /\ stmts' = stmts + 1 /\ Room(stk, stmts, N, W) /\ IsStack(stk, z, N)
  BY LowerFacts DEF OpenBlock, Goes
<1>2. stk' = u /\ blocks' = Append(blocks, b) /\ code' = code /\ locals' = locals /\ flow' = flow
  BY DEF OpenBlock, Enter
<1>3. PICK R : Compiling(R, code, stk, locals, blocks, flow, z, N, W)
  BY DEF Goes, Going
<1> HIDE DEF N, W
<1>4. stk.top + 1 <= N /\ stk.top \in Nat /\ W \in Nat
  BY <1>1 DEF Room
<1>5. BodyAt(stk, u, stk.top) /\ s.top = stk.top /\ s.first = Len(stk.leafs)
  BY <1>1, <1>4, BodyOk
<1> HIDE DEF s
<1>6. u.top = stk.top
  BY <1>5 DEF BodyAt, Trimmed
<1> HIDE DEF u
<1>7. BodyScope("block", s, u)
  BY <1>4, <1>5, <1>6 DEF BodyScope
<1>8. Scoped(stk, locals, blocks, flow, z, N, W)
  BY <1>3, CompilingFacts
<1>9. Opened(b, stk, u, locals, flow) /\ b.kind = "block" /\ b.start = 0
  BY <1>7, <1>8, OpenedMade
<1> HIDE DEF b
<1>10. PICK Q : Compiling(Q, code, u, locals, Append(blocks, b), flow, z, N, W)
  BY <1>1, <1>3, <1>5, <1>9, OpenBlockStep
<1>11. u.top <= stk.top + W
  BY <1>4, <1>6
<1>12. Compiling(Q, code', u, locals', Append(blocks, b), flow', z, N, W)
  BY <1>2, <1>10
<1> QED
  BY <1>1, <1>2, <1>11, <1>12, OpenGoes DEF N, W

(* `if c {` keeps the outline. *)
LEMMA OpenIfGoes ==
  ASSUME Accepted, NEW z, Goes(z), OpenIf
  PROVE  GoesOn(z)
<1> DEFINE N == MaxSlots
           W == Width
           s == AllocPlain(PushScope(stk), 1)
           u == PushScope(s)
           b == Block("then", Saved(stk), s, 0, Len(code) + 1)
<1>1. /\ flow.reach /\ stmts' = stmts + 1 /\ Room(stk, stmts, N, W) /\ IsStack(stk, z, N)
  BY LowerFacts DEF OpenIf, Goes
<1>2. stk' = u /\ blocks' = Append(blocks, b) /\ code' = code \o Test(s.top - 1) /\ locals' = locals /\ flow' = flow
  BY DEF OpenIf, Enter, Test
<1>3. PICK R : Compiling(R, code, stk, locals, blocks, flow, z, N, W)
  BY DEF Goes, Going
<1> HIDE DEF N, W
<1>4. stk.top + 1 <= N /\ stk.top \in Nat /\ W \in {2, 4}
  BY <1>1 DEF Room
<1>5. BodyAt(stk, u, stk.top + 1) /\ s.top = stk.top + 1 /\ s.first = Len(stk.leafs)
  BY <1>1, <1>4, BodyOk
<1> HIDE DEF s
<1>6. u.top = stk.top + 1
  BY <1>5 DEF BodyAt, Trimmed
<1> HIDE DEF u
<1>7. BodyScope("then", s, u)
  BY <1>4, <1>5, <1>6 DEF BodyScope
<1>8. Scoped(stk, locals, blocks, flow, z, N, W)
  BY <1>3, CompilingFacts
<1>9. Opened(b, stk, u, locals, flow) /\ b.kind = "then" /\ b.start = 0 /\ b.patch = Len(code) + 1
  BY <1>7, <1>8, OpenedMade
<1> HIDE DEF b
<1>10. PICK Q : Compiling(Q, code \o Test(stk.top), u, locals, Append(blocks, b), flow, z, N, W)
  BY <1>1, <1>3, <1>4, <1>5, <1>9, OpenThenStep
<1>11. u.top <= stk.top + W
  BY <1>4, <1>6
<1>12. Compiling(Q, code', u, locals', Append(blocks, b), flow', z, N, W)
  <2>1. s.top - 1 = stk.top
    BY <1>4, <1>5
  <2> QED
    BY <1>2, <1>10, <2>1
<1> QED
  BY <1>1, <1>2, <1>11, <1>12, OpenGoes DEF N, W

(* `loop {` keeps the outline. *)
LEMMA OpenLoopGoes ==
  ASSUME Accepted, NEW z, Goes(z), OpenLoop
  PROVE  GoesOn(z)
<1> DEFINE N == MaxSlots
           W == Width
           s == PushScope(stk)
           u == PushScope(s)
           b == Block("loop", Saved(stk), s, Len(code), 0)
           g == [flow EXCEPT !.may = @ \cup LocalBits(locals)]
<1>1. /\ flow.reach /\ stmts' = stmts + 1 /\ Room(stk, stmts, N, W) /\ IsStack(stk, z, N)
  BY LowerFacts DEF OpenLoop, Goes
<1>2. stk' = u /\ blocks' = Append(blocks, b) /\ code' = code /\ locals' = locals /\ flow' = g
  BY DEF OpenLoop, Enter
<1>3. PICK R : Compiling(R, code, stk, locals, blocks, flow, z, N, W)
  BY DEF Goes, Going
<1> HIDE DEF N, W
<1>4. stk.top + 1 <= N /\ stk.top \in Nat /\ W \in Nat /\ stk.top <= N
  BY <1>1, StackFacts DEF Room
<1>5. BodyAt(stk, u, stk.top) /\ s.top = stk.top /\ s.first = Len(stk.leafs)
  BY <1>1, <1>4, BodyOk
<1> HIDE DEF s
<1>6. u.top = stk.top
  BY <1>5 DEF BodyAt, Trimmed
<1> HIDE DEF u
<1>7. BodyScope("loop", s, u)
  BY <1>4, <1>5, <1>6 DEF BodyScope
<1>8. Scoped(stk, locals, blocks, flow, z, N, W) /\ IsFlow(flow) /\ LocalsOk(locals, stk, W)
  BY <1>3, CompilingFacts
<1>9. Opened(b, stk, u, locals, flow) /\ b.kind = "loop" /\ b.start = Len(code)
  BY <1>7, <1>8, OpenedMade
<1>13. LoopFlow(g, flow, locals)
  BY <1>1, <1>8, LoopFlowOk
<1> HIDE DEF b, g
<1>14. b.kind \in {"loop", "letloop"}
  BY <1>9
<1>10. PICK Q : Compiling(Q, code, u, locals, Append(blocks, b), g, z, N, W)
  BY <1>1, <1>3, <1>4, <1>5, <1>9, <1>13, <1>14, OpenLoopStep
<1>11. u.top <= stk.top + W
  BY <1>4, <1>6
<1>12. Compiling(Q, code', u, locals', Append(blocks, b), flow', z, N, W)
  BY <1>2, <1>10
<1> QED
  BY <1>1, <1>2, <1>11, <1>12, OpenGoes DEF N, W

(* `let m = loop {` keeps the outline. *)
LEMMA OpenLetLoopGoes ==
  ASSUME Accepted, NEW z, Goes(z), OpenLetLoop
  PROVE  GoesOn(z)
<1> DEFINE N == MaxSlots
           W == Width
           s == AllocPlain(stk, 1)
           u == PushScope(s)
           b == Block("letloop", Saved(stk), s, Len(code), 0)
           g == [flow EXCEPT !.may = @ \cup LocalBits(locals)]
           t == stk.top + 1
<1>1. /\ flow.reach /\ stmts' = stmts + 1 /\ Room(stk, stmts, N, W) /\ IsStack(stk, z, N)
  BY LowerFacts DEF OpenLetLoop, Goes
<1>2. stk' = u /\ blocks' = Append(blocks, b) /\ code' = code /\ locals' = locals /\ flow' = g
  BY DEF OpenLetLoop, Enter
<1>3. PICK R : Compiling(R, code, stk, locals, blocks, flow, z, N, W)
  BY DEF Goes, Going
<1> HIDE DEF N, W
<1>4. t <= N /\ stk.top \in Nat /\ W \in {2, 4}
  BY <1>1 DEF Room
<1>5. BodyAt(stk, u, t) /\ s.top = t /\ s.first = stk.first
  BY <1>1, <1>4, BodyOk
<1> HIDE DEF s
<1>6. u.top = t
  BY <1>5 DEF BodyAt, Trimmed
<1> HIDE DEF u
<1>7. BodyScope("letloop", s, u)
  BY <1>4, <1>5, <1>6 DEF BodyScope
<1>8. Scoped(stk, locals, blocks, flow, z, N, W) /\ IsFlow(flow) /\ LocalsOk(locals, stk, W)
  BY <1>3, CompilingFacts
<1>9. Opened(b, stk, u, locals, flow) /\ b.kind = "letloop" /\ b.start = Len(code)
  BY <1>7, <1>8, OpenedMade
<1>13. LoopFlow(g, flow, locals)
  BY <1>1, <1>8, LoopFlowOk
<1>11. u.top <= stk.top + W
  BY <1>4, <1>6
<1> HIDE DEF b, g, t
<1>14. b.kind \in {"loop", "letloop"}
  BY <1>9
<1>10. PICK Q : Compiling(Q, code, u, locals, Append(blocks, b), g, z, N, W)
  BY <1>1, <1>3, <1>4, <1>5, <1>9, <1>13, <1>14, OpenLoopStep
<1>12. Compiling(Q, code', u, locals', Append(blocks, b), flow', z, N, W)
  BY <1>2, <1>10
<1> QED
  BY <1>1, <1>2, <1>11, <1>12, OpenGoes DEF N, W

(* Block b is the record of an arm. *)
ArmRecord(b, kind, p, v, n) ==
  b = [[Block(kind, Saved(stk), stk, 0, 0) EXCEPT !.arg = p] EXCEPT !.scope = Saved(v), !.patch = n]

(* The block of a match arm. *)
LEMMA ArmMade ==
  ASSUME NEW z, NEW N, NEW W, Scoped(stk, locals, blocks, flow, z, N, W),
         NEW kind, kind \in {"match", "guarded"}, NEW p, NEW v, NEW u, BodyScope(kind, v, u), NEW n,
         NEW b, ArmRecord(b, kind, p, v, n)
  PROVE  Opened(b, stk, u, locals, flow) /\ b.kind = kind /\ b.arg = p /\ b.start = 0 /\ b.patch = n
<1> DEFINE d == Block(kind, Saved(stk), stk, 0, 0)
           y == [d EXCEPT !.arg = p]
           q == Saved(v)
<1>0. b = [y EXCEPT !.scope = q, !.patch = n]
  BY DEF ArmRecord
<1>1. /\ IsStack(stk, z, N) /\ IsFlow(flow) /\ Len(locals) \in Nat
  BY BlockFacts
<1>2. stk.top \in Nat /\ stk.first \in Nat /\ Len(stk.leafs) \in Nat
  BY <1>1, StackFacts
<1>3. IsFlow(Unreachable)
  BY ScopedUnreachable
<1>4. /\ d.kind = kind /\ d.start = 0 /\ d.nlocals = Len(locals)
      /\ d.nbits = Len(stk.leafs) /\ d.entry = flow /\ d.exit = Unreachable /\ d.breaks = {}
      /\ d.stmt.first = stk.first /\ d.stmt.top = stk.top /\ IsRecord(d)
  BY DEF Block, Saved, IsRecord, Record
<1> HIDE DEF d
<1>5. WithArg(y, d, p)
  BY <1>4, BlockUpdates
<1> HIDE DEF y
<1>6. /\ y.kind = kind /\ y.start = 0 /\ y.nlocals = Len(locals) /\ y.arg = p
      /\ y.nbits = Len(stk.leafs) /\ y.entry = flow /\ y.exit = Unreachable /\ y.breaks = {}
      /\ y.stmt.first = stk.first /\ y.stmt.top = stk.top /\ IsRecord(y)
  <2>1. /\ IsRecord(y) /\ y.arg = p /\ y.kind = d.kind /\ y.stmt = d.stmt /\ y.scope = d.scope
        /\ y.nlocals = d.nlocals /\ y.nbits = d.nbits /\ y.start = d.start
        /\ y.patch = d.patch /\ y.breaks = d.breaks /\ y.entry = d.entry /\ y.exit = d.exit
    BY <1>5, UpdatedFields
  <2> QED
    BY <1>4, <2>1
<1> HIDE DEF q
<1>7. WithScope(b, y, q, n)
  <2>1. WithScope([y EXCEPT !.scope = q, !.patch = n], y, q, n)
    BY <1>6, BlockUpdates
  <2> QED
    BY <1>0, <2>1
<1>8. /\ IsRecord(b) /\ b.scope = Saved(v) /\ b.patch = n /\ b.kind = kind /\ b.start = 0 /\ b.nlocals = Len(locals)
      /\ b.arg = p /\ b.nbits = Len(stk.leafs) /\ b.entry = flow /\ b.exit = Unreachable /\ b.breaks = {}
      /\ b.stmt.first = stk.first /\ b.stmt.top = stk.top
  <2>1. /\ IsRecord(b) /\ b.scope = q /\ b.patch = n /\ b.kind = y.kind /\ b.stmt = y.stmt
        /\ b.nlocals = y.nlocals /\ b.nbits = y.nbits /\ b.start = y.start /\ b.arg = y.arg
        /\ b.breaks = y.breaks /\ b.entry = y.entry /\ b.exit = y.exit
    BY <1>7, UpdatedFields
  <2> QED
    BY <1>6, <2>1 DEF q
<1>9. v.top \in Nat /\ v.first = Len(stk.leafs) /\ u.top = v.top /\ kind # "letloop"
  BY DEF BodyScope
<1>10. b.scope.top = v.top /\ b.scope.first = v.first
  BY <1>8 DEF Saved
<1>11. IsBlock(b)
  BY <1>1, <1>2, <1>3, <1>8, <1>9, <1>10, BlockIsRecord
<1>12. Opened(b, stk, u, locals, flow)
  BY <1>8, <1>9, <1>10, <1>11 DEF Opened
<1> QED
  BY <1>8, <1>12

(* `match p {` keeps the outline. *)
LEMMA OpenMatchGoes ==
  ASSUME Accepted, NEW z, Goes(z), OpenMatch
  PROVE  GoesOn(z)
<1> DEFINE N == MaxSlots
           W == Width
           r == AllocPlain(PushScope(stk), 1)
<1>1. /\ flow.reach /\ stmts' = stmts + 1 /\ Room(stk, stmts, N, W) /\ IsStack(stk, z, N)
  BY LowerFacts DEF OpenMatch, Goes
<1>2. PICK p \in Readable, kind \in {"match", "guarded"} :
        Arm(blocks, [Block(kind, Saved(stk), stk, 0, 0) EXCEPT !.arg = p], TRUE, r, code, locals, flow)
  BY DEF OpenMatch
<1>3. PICK R : Compiling(R, code, stk, locals, blocks, flow, z, N, W)
  BY DEF Goes, Going
<1> DEFINE w == WidthOf(p)
           y == [Block(kind, Saved(stk), stk, 0, 0) EXCEPT !.arg = p]
           v == AllocVal(r, w)
           u == PushScope(v)
           x == Newest(v, w)
           n == Len(code) + 4
           b == [y EXCEPT !.scope = Saved(v), !.patch = n]
           g == Inited(Moved(flow, BitsOf(p)), BitsOf(PlaceOf(x)))
           c == IF kind = "guarded" THEN ((code \o Bind(x, p)) \o Test(stk.top)) \o Test(stk.top)
                                    ELSE (code \o Bind(x, p)) \o Test(stk.top)
<1>4. y.arg = p /\ y.kind = kind /\ y.stmt.top = stk.top
  BY DEF Block, Saved
<1>5. IsSeq(code) /\ Scoped(stk, locals, blocks, flow, z, N, W) /\ W \in Nat
  BY <1>3, CompilingFacts
<1>6. Len((code \o Bind(x, p)) \o Test(stk.top)) - 1 = n
  <2> DEFINE e == code \o Bind(x, p)
  <2>1. IsSeq(e) /\ Len(e) = Len(code) + 3 /\ Len(code) \in Nat
    BY <1>5, BindLength
  <2> HIDE DEF e
  <2>2. IsSeq(Test(stk.top)) /\ Len(Test(stk.top)) = 2
    BY Literals DEF Test
  <2>3. IsSeq(e) /\ IsSeq(Test(stk.top))
    BY <2>1, <2>2
  <2>4. Len(e \o Test(stk.top)) = Len(e) + Len(Test(stk.top))
    BY <2>3, IsSeqConcat
  <2> QED
    BY <2>1, <2>2, <2>4 DEF e
<1>7. stk' = u /\ locals' = Append(locals, x) /\ flow' = g /\ code' = c /\ blocks' = Append(blocks, b)
  <2> HIDE DEF y, v, u, x, n, r
  <2>1. Arm(blocks, y, TRUE, r, code, locals, flow)
    BY <1>2 DEF y
  <2>2. /\ stk' = PushScope(AllocVal(r, WidthOf(y.arg)))
        /\ locals' = Append(locals, Newest(AllocVal(r, WidthOf(y.arg)), WidthOf(y.arg)))
    BY <2>1 DEF Arm, Enter
  <2>3. stk' = u /\ locals' = Append(locals, x)
    BY <1>4, <2>2 DEF u, v, x
  <2>4. code' = c
    BY <1>4, <2>1 DEF Arm, Enter, Test, v, x
  <2>5. flow' = g
    BY <1>4, <2>1 DEF Arm, Enter, v, x
  <2>6. blocks' = Append(blocks, [y EXCEPT !.scope = Saved(v), !.patch = Len((code \o Bind(x, p)) \o Test(stk.top)) - 1])
    BY <1>4, <2>1 DEF Arm, Enter, Test, v, x
  <2> QED
    BY <1>6, <2>3, <2>4, <2>5, <2>6
<1> HIDE DEF N, W
<1>8. /\ \E i \in 1 .. Len(locals) : p \in PlacesOf(locals[i])
      /\ BitsOf(p) \subseteq flow.must /\ w \in {1, 2} /\ w < W
  BY <1>5, ReadablePlace
<1>9. PICK i \in 1 .. Len(locals) : p \in PlacesOf(locals[i])
  BY <1>8
<1>10. stk.top + 1 + w <= N /\ stk.top \in Nat /\ W \in {2, 4} /\ N \in Nat
  BY <1>1, <1>8 DEF Room
<1>11. ArmStack(stk, r, v, u, x, w) /\ IsStack(v, z, N) /\ v.top = stk.top + 1 + w
  <2> HIDE DEF w
  <2> QED
    BY <1>1, <1>8, <1>10, ArmStackMade
<1>12. /\ Trimmed(stk, r, stk.top + 1, Len(stk.leafs), {}) /\ NewLocal(r, w, v, x)
       /\ Trimmed(v, u, v.top, Len(v.leafs), {})
  BY <1>11 DEF ArmStack
<1>13. v.first = Len(stk.leafs) /\ u.top = v.top
  <2> HIDE DEF r, v, u, x, w
  <2> QED
    BY <1>12 DEF Trimmed, NewLocal, Allocated
<1> HIDE DEF r, v, u, x
<1>14. BodyScope(kind, v, u)
  BY <1>10, <1>11, <1>13, <1>8 DEF BodyScope
<1>15. Opened(b, stk, u, locals, flow) /\ b.kind = kind /\ b.arg = p /\ b.start = 0 /\ b.patch = n
  <2>1. ArmRecord(b, kind, p, v, n)
    BY DEF ArmRecord
  <2> HIDE DEF b, y, n
  <2> QED
    BY <1>5, <1>14, <2>1, ArmMade
<1>16. u.top <= stk.top + W
  BY <1>8, <1>10, <1>11, <1>13
<1> HIDE DEF b, g
<1>17. PICK Q : Compiling(Q, c, u, Append(locals, x), Append(blocks, b), g, z, N, W)
  <2>1. IsTop(stk.top, stk)
    BY DEF IsTop
  <2>2. ArmStack(stk, r, v, u, x, WidthOf(p)) /\ stk.top + 1 + WidthOf(p) <= N /\ b.kind \in {"match", "guarded"}
    BY <1>10, <1>11, <1>15
  <2> HIDE DEF c, w
  <2>3. \E Q : Compiling(Q, IF b.kind = "guarded" THEN ((code \o Bind(x, p)) \o Test(stk.top)) \o Test(stk.top)
                                                   ELSE (code \o Bind(x, p)) \o Test(stk.top),
                          u, Append(locals, x), Append(blocks, b), Inited(Moved(flow, BitsOf(p)), BitsOf(PlaceOf(x))), z, N, W)
    BY <1>1, <1>3, <1>8, <1>9, <1>15, <2>1, <2>2, OpenMatchStep
  <2> QED
    BY <1>15, <2>3 DEF c, g
<1> HIDE DEF c
<1>18. Compiling(Q, code', u, locals', Append(blocks, b), flow', z, N, W)
  BY <1>7, <1>17
<1> QED
  BY <1>1, <1>7, <1>16, <1>18, OpenGoes DEF N, W

(* The last block is to be closed. *)
LEMMA ClosingFacts ==
  ASSUME NEW z, Goes(z), NEW kinds, Closing(kinds)
  PROVE  /\ \E R : Compiling(R, code, stk, locals, blocks, flow, z, MaxSlots, Width)
         /\ IsLast(B, blocks) /\ B.kind \in kinds /\ stmts' = stmts
         /\ Popped(stk, Outer, B.scope) /\ IsStack(Outer, z, MaxSlots) /\ Outer.top = B.scope.top
         /\ Popped(Outer, PopScope(Outer, B.stmt), B.stmt)
         /\ B.scope.top <= stk.top /\ B.stmt.top <= stk.top /\ PopScope(Outer, B.stmt).top <= stk.top
         /\ B.scope.top \in Nat /\ B.stmt.top \in Nat
         /\ SameFirst(SubSeq(blocks, 1, Len(blocks) - 1), blocks)
         /\ \A b : SameFirst(Append(SubSeq(blocks, 1, Len(blocks) - 1), b), blocks)
         /\ phase' = phase /\ phase = "compile" /\ runVars' = runVars
<1> DEFINE N == MaxSlots
           W == Width
           u == PopScope(Outer, B.stmt)
<1>1. Len(blocks) > 1 /\ B.kind \in kinds /\ stmts' = stmts /\ phase' = phase /\ phase = "compile" /\ runVars' = runVars
  BY DEF Closing
<1>2. PICK R : Compiling(R, code, stk, locals, blocks, flow, z, N, W)
  BY DEF Goes, Going
<1> HIDE DEF N, W
<1>3. Scoped(stk, locals, blocks, flow, z, N, W) /\ IsStack(stk, z, N)
  BY <1>2, CompilingFacts
<1>4. IsSeq(blocks) /\ Len(blocks) >= 1 /\ Len(blocks) \in Nat
  BY <1>3, BlockFacts
<1>5. IsLast(B, blocks)
  BY <1>1, <1>4 DEF IsLast, B
<1>6. Popped(stk, Outer, B.scope)
  BY <1>3, TrimFacts DEF Popped, Outer
<1>7. IsStack(Outer, z, N) /\ Outer.top = B.scope.top
  BY <1>3, <1>5, <1>6, PopBody
<1>8. Popped(Outer, u, B.stmt)
  BY <1>7, TrimFacts DEF Popped
<1>9. B.scope.top <= stk.top /\ B.stmt.top <= stk.top /\ B.scope.top \in Nat /\ B.stmt.top \in Nat
  <2>1. B.stmt.top \in Nat /\ B.scope.top \in Nat /\ B.stmt.top <= B.scope.top /\ B.scope.top <= stk.top
    BY <1>3, <1>5, LastFacts
  <2>2. stk.top \in Nat
    BY <1>3, StackFacts
  <2> QED
    BY <2>1, <2>2
<1>10. u.top = B.stmt.top
  BY <1>8 DEF Popped, Trimmed
<1>11. /\ SameFirst(SubSeq(blocks, 1, Len(blocks) - 1), blocks)
       /\ \A b : SameFirst(Append(SubSeq(blocks, 1, Len(blocks) - 1), b), blocks)
  BY <1>1, <1>4, FirstKept
<1> QED
  BY <1>1, <1>2, <1>5, <1>6, <1>7, <1>8, <1>9, <1>10, <1>11 DEF N, W

(* A block is closed, and perhaps the next one of its statement opened. *)
LEMMA BackGoes ==
  ASSUME NEW z, Goes(z), stmts' = stmts,
         NEW R, NEW u, NEW cs, Compiling(R, code', u, locals', cs, flow', z, MaxSlots, Width),
         SameFirst(cs, blocks), u.top <= stk.top, stk' = u, blocks' = cs
  PROVE  GoesOn(z)
<1> DEFINE N == MaxSlots
           W == Width
<1>1. Going(code, stk, locals, blocks, flow, stmts, z, N, W)
  BY DEF Goes
<1>2. Compiling(R, code', u, locals', cs, flow', z, N, W)
  OBVIOUS
<1> HIDE DEF N, W
<1>3. Going(code', u, locals', cs, flow', stmts, z, N, W)
  BY <1>1, <1>2, GoingBack
<1> QED
  BY <1>3 DEF GoesOn, N, W

(* The statement of the last block ends. *)
LEMMA EndGoes ==
  ASSUME NEW z, Goes(z), NEW kinds, Closing(kinds), NEW c, NEW f, EndStmt(c, f),
         \E Q : Compiling(Q, c \o ScopeDrop(Outer), PopScope(Outer, B.stmt), SubSeq(locals, 1, B.nlocals),
                          SubSeq(blocks, 1, Len(blocks) - 1), f, z, MaxSlots, Width)
  PROVE  GoesOn(z)
<1> DEFINE u == PopScope(Outer, B.stmt)
           cs == SubSeq(blocks, 1, Len(blocks) - 1)
<1>1. /\ code' = c \o ScopeDrop(Outer) /\ stk' = u /\ blocks' = cs
      /\ locals' = SubSeq(locals, 1, B.nlocals) /\ flow' = f
  BY DEF EndStmt, OuterLocals
<1>2. stmts' = stmts /\ SameFirst(cs, blocks) /\ u.top <= stk.top
  BY ClosingFacts
<1> HIDE DEF u, cs
<1>3. PICK Q : Compiling(Q, code', u, locals', cs, flow', z, MaxSlots, Width)
  BY <1>1 DEF u, cs
<1> QED
  BY <1>1, <1>2, <1>3, BackGoes

(* The end of a block keeps the outline. *)
LEMMA CloseBlockGoes ==
  ASSUME Accepted, NEW z, Goes(z), CloseBlock
  PROVE  GoesOn(z)
<1> DEFINE u == PopScope(Outer, B.stmt)
<1>1. Closing({"block"}) /\ EndStmt(Inner, Out)
  BY DEF CloseBlock
<1>2. /\ IsLast(B, blocks) /\ B.kind = "block" /\ Popped(stk, Outer, B.scope) /\ Popped(Outer, u, B.stmt)
      /\ \E R : Compiling(R, code, stk, locals, blocks, flow, z, MaxSlots, Width)
  BY <1>1, ClosingFacts
<1>3. Out = Restrict(flow, OuterBits(B)) /\ Inner = code \o ScopeDrop(stk)
  BY DEF Out, Inner
<1> HIDE DEF u
<1>4. \E Q : Compiling(Q, Inner \o ScopeDrop(Outer), u, SubSeq(locals, 1, B.nlocals),
                       SubSeq(blocks, 1, Len(blocks) - 1), Out, z, MaxSlots, Width)
  BY <1>2, <1>3, CloseBlockStep
<1> QED
  BY <1>1, <1>4, EndGoes DEF u

(* The end of an `if` without `else` keeps the outline. *)
LEMMA CloseThenGoes ==
  ASSUME Accepted, NEW z, Goes(z), CloseThen
  PROVE  GoesOn(z)
<1> DEFINE u == PopScope(Outer, B.stmt)
           c == Patch(Inner, B.patch, JumpF(Len(Inner) - B.patch, FALSE))
<1>1. Closing({"then"}) /\ EndStmt(c, Join(Out, B.entry))
  BY DEF CloseThen
<1>2. /\ IsLast(B, blocks) /\ B.kind = "then" /\ Popped(stk, Outer, B.scope) /\ Popped(Outer, u, B.stmt)
      /\ \E R : Compiling(R, code, stk, locals, blocks, flow, z, MaxSlots, Width)
  BY <1>1, ClosingFacts
<1>3. Out = Restrict(flow, OuterBits(B)) /\ Inner = code \o ScopeDrop(stk)
  BY DEF Out, Inner
<1> HIDE DEF u
<1>4. \E Q : Compiling(Q, c \o ScopeDrop(Outer), u, SubSeq(locals, 1, B.nlocals),
                       SubSeq(blocks, 1, Len(blocks) - 1), Join(Out, B.entry), z, MaxSlots, Width)
  BY <1>2, <1>3, CloseThenStep
<1> QED
  BY <1>1, <1>4, EndGoes DEF u

(* The end of `else` keeps the outline. *)
LEMMA CloseElseGoes ==
  ASSUME Accepted, NEW z, Goes(z), CloseElse
  PROVE  GoesOn(z)
<1> DEFINE u == PopScope(Outer, B.stmt)
           c == Patch(Inner, B.patch, Jump(Len(Inner) - B.patch))
<1>1. Closing({"else"}) /\ EndStmt(c, Join(Out, B.exit))
  BY DEF CloseElse
<1>2. /\ IsLast(B, blocks) /\ B.kind = "else" /\ Popped(stk, Outer, B.scope) /\ Popped(Outer, u, B.stmt)
      /\ \E R : Compiling(R, code, stk, locals, blocks, flow, z, MaxSlots, Width)
  BY <1>1, ClosingFacts
<1>3. Out = Restrict(flow, OuterBits(B)) /\ Inner = code \o ScopeDrop(stk)
  BY DEF Out, Inner
<1> HIDE DEF u
<1>4. \E Q : Compiling(Q, c \o ScopeDrop(Outer), u, SubSeq(locals, 1, B.nlocals),
                       SubSeq(blocks, 1, Len(blocks) - 1), Join(Out, B.exit), z, MaxSlots, Width)
  BY <1>2, <1>3, CloseElseStep
<1> QED
  BY <1>1, <1>4, EndGoes DEF u

(* The code of a loop: the jump back, and the breaks that lead behind it. *)
LEMMA LoopCodeMade ==
  \E k : JumpsBack(k, Inner, B) /\ BreaksTo(LoopCode, k, B)
<1> DEFINE k == Append(Inner, Jump(B.start - Len(Inner)))
<1>1. JumpsBack(k, Inner, B) /\ BreaksTo(LoopCode, k, B)
  BY DEF JumpsBack, BreaksTo, LoopCode
<1> QED
  BY <1>1

(* The end of a loop keeps the outline. *)
LEMMA CloseLoopGoes ==
  ASSUME Accepted, NEW z, Goes(z), CloseLoop
  PROVE  GoesOn(z)
<1> DEFINE u == PopScope(Outer, B.stmt)
<1>1. Closing({"loop"}) /\ EndStmt(LoopCode, B.exit) /\ BackEdge(B, Out)
  BY DEF CloseLoop
<1>2. /\ IsLast(B, blocks) /\ B.kind = "loop" /\ Popped(stk, Outer, B.scope) /\ Popped(Outer, u, B.stmt)
      /\ \E R : Compiling(R, code, stk, locals, blocks, flow, z, MaxSlots, Width)
  BY <1>1, ClosingFacts
<1>3. Out = Restrict(flow, OuterBits(B)) /\ Dropping(Inner, code, stk)
  BY DEF Out, Inner, Dropping
<1>4. PICK k : JumpsBack(k, Inner, B) /\ BreaksTo(LoopCode, k, B)
  BY LoopCodeMade
<1> HIDE DEF u
<1>5. \E Q : Compiling(Q, LoopCode \o ScopeDrop(Outer), u, SubSeq(locals, 1, B.nlocals),
                       SubSeq(blocks, 1, Len(blocks) - 1), B.exit, z, MaxSlots, Width)
  BY <1>1, <1>2, <1>3, <1>4, CloseLoopStep
<1> QED
  BY <1>1, <1>5, EndGoes DEF u

(* The end of `let m = loop` keeps the outline. *)
LEMMA CloseLetLoopGoes ==
  ASSUME Accepted, NEW z, Goes(z), CloseLetLoop
  PROVE  GoesOn(z)
<1> DEFINE cs == SubSeq(blocks, 1, Len(blocks) - 1)
<1>1. /\ Closing({"letloop"}) /\ BackEdge(B, Out)
      /\ code' = LoopCode /\ stk' = Outer /\ blocks' = cs
      /\ locals' = SubSeq(locals, 1, B.nlocals) /\ flow' = B.exit
  BY DEF CloseLetLoop, OuterLocals
<1>2. /\ IsLast(B, blocks) /\ B.kind = "letloop" /\ Popped(stk, Outer, B.scope)
      /\ \E R : Compiling(R, code, stk, locals, blocks, flow, z, MaxSlots, Width)
  BY <1>1, ClosingFacts
<1>3. Out = Restrict(flow, OuterBits(B)) /\ Dropping(Inner, code, stk)
  BY DEF Out, Inner, Dropping
<1>4. PICK k : JumpsBack(k, Inner, B) /\ BreaksTo(LoopCode, k, B)
  BY LoopCodeMade
<1>5. PICK Q : Compiling(Q, LoopCode, Outer, SubSeq(locals, 1, B.nlocals), cs, B.exit, z, MaxSlots, Width)
  BY <1>1, <1>2, <1>3, <1>4, CloseLetLoopStep
<1>6. stmts' = stmts /\ SameFirst(cs, blocks) /\ Outer.top <= stk.top
  <2>1. /\ stmts' = stmts /\ SameFirst(cs, blocks) /\ Outer.top = B.scope.top /\ B.scope.top <= stk.top
    BY <1>1, ClosingFacts
  <2> QED
    BY <2>1
<1> HIDE DEF cs
<1>7. Compiling(Q, code', Outer, locals', cs, flow', z, MaxSlots, Width)
  BY <1>1, <1>5
<1> QED
  BY <1>1, <1>6, <1>7, BackGoes

(* The end of a match keeps the outline. *)
LEMMA CloseMatchGoes ==
  ASSUME Accepted, NEW z, Goes(z), CloseMatch
  PROVE  GoesOn(z)
<1> DEFINE u == PopScope(Outer, B.stmt)
           k == Append(Inner, Skipped)
           d == Patch(k, B.patch, JumpF(Len(k) - B.patch, TRUE))
           q == PatchAll(d, B.breaks \cup {Len(Inner)}, Len(d))
<1>1. Closing({"match"}) /\ EndStmt(q, Join(Out, B.exit))
  BY DEF CloseMatch
<1>2. /\ IsLast(B, blocks) /\ B.kind = "match" /\ Popped(stk, Outer, B.scope) /\ Popped(Outer, u, B.stmt)
      /\ \E R : Compiling(R, code, stk, locals, blocks, flow, z, MaxSlots, Width)
  BY <1>1, ClosingFacts
<1>3. /\ FlowOut(Out, flow, B) /\ Dropping(Inner, code, stk)
      /\ Skips(k, Inner) /\ TestTo(d, k, B) /\ ArmsTo(q, d, B, Len(Inner))
  BY DEF Out, Inner, Dropping, FlowOut, Skips, TestTo, ArmsTo
<1> HIDE DEF u, k, d, q
<1>4. \E Q : Compiling(Q, q \o ScopeDrop(Outer), u, SubSeq(locals, 1, B.nlocals),
                       SubSeq(blocks, 1, Len(blocks) - 1), Join(Out, B.exit), z, MaxSlots, Width)
  BY <1>2, <1>3, CloseMatchStep
<1> QED
  BY <1>1, <1>4, EndGoes DEF u

(* One field of one block is replaced. *)
LEMMA FieldReplaced ==
  ASSUME NEW q, IsSeq(q), NEW k \in 1 .. Len(q), NEW X
  PROVE  /\ Replaced1([q EXCEPT ![k].kind = X], q, k, [q[k] EXCEPT !.kind = X])
         /\ Replaced1([q EXCEPT ![k].patch = X], q, k, [q[k] EXCEPT !.patch = X])
         /\ Replaced1([q EXCEPT ![k].breaks = X], q, k, [q[k] EXCEPT !.breaks = X])
         /\ Replaced1([q EXCEPT ![k].exit = X], q, k, [q[k] EXCEPT !.exit = X])
<1>1. \A e : Replaced1([q EXCEPT ![k] = e], q, k, e)
  <2> TAKE e
  <2> DEFINE p == [q EXCEPT ![k] = e]
  <2>1. IsSeq(p) /\ Len(p) = Len(q) /\ p[k] = e /\ \A j \in 1 .. Len(q) : j # k => p[j] = q[j]
    BY IsSeqExcept
  <2> HIDE DEF p
  <2>2. Replaced1(p, q, k, e)
    BY <2>1 DEF Replaced1
  <2> QED
    BY <2>2 DEF p
<1>2. PICK S : q \in Seq(S)
  BY DEF IsSeq
<1>3. /\ [q EXCEPT ![k].kind = X] = [q EXCEPT ![k] = [q[k] EXCEPT !.kind = X]]
      /\ [q EXCEPT ![k].patch = X] = [q EXCEPT ![k] = [q[k] EXCEPT !.patch = X]]
      /\ [q EXCEPT ![k].breaks = X] = [q EXCEPT ![k] = [q[k] EXCEPT !.breaks = X]]
      /\ [q EXCEPT ![k].exit = X] = [q EXCEPT ![k] = [q[k] EXCEPT !.exit = X]]
  BY <1>2
<1> QED
  BY <1>1, <1>3

(* One field of a block is changed. *)
LEMMA OneField ==
  ASSUME NEW b, NEW kd, NEW st, NEW sc, NEW nl, NEW nb, NEW sa, NEW ar, NEW pa, NEW br, NEW en, NEW ex,
         Made(b, kd, st, sc, nl, nb, sa, ar, pa, br, en, ex), NEW X
  PROVE  /\ Made([b EXCEPT !.kind = X], X, st, sc, nl, nb, sa, ar, pa, br, en, ex)
         /\ Made([b EXCEPT !.patch = X], kd, st, sc, nl, nb, sa, ar, X, br, en, ex)
         /\ Made([b EXCEPT !.breaks = X], kd, st, sc, nl, nb, sa, ar, pa, X, en, ex)
         /\ Made([b EXCEPT !.exit = X], kd, st, sc, nl, nb, sa, ar, pa, br, en, X)
  BY DEF Made, Record

(* Block y is b turned into the `else` of its statement. *)
ElseOf(y, b, n, g) ==
  /\ IsRecord(y) /\ y.kind = "else" /\ y.patch = n /\ y.exit = g /\ y.stmt = b.stmt /\ y.scope = b.scope
  /\ y.nlocals = b.nlocals /\ y.nbits = b.nbits /\ y.start = b.start /\ y.entry = b.entry

(* The block of `else`. *)
LEMMA ElseFields ==
  ASSUME NEW b, IsRecord(b), NEW n, NEW g
  PROVE  ElseOf([[[b EXCEPT !.kind = "else"] EXCEPT !.patch = n] EXCEPT !.exit = g], b, n, g)
<1> DEFINE b1 == [b EXCEPT !.kind = "else"]
           b2 == [b1 EXCEPT !.patch = n]
           b3 == [b2 EXCEPT !.exit = g]
<1>1. PICK kd, st, sc, nl, nb, sa, ar, pa, br, en, ex : Made(b, kd, st, sc, nl, nb, sa, ar, pa, br, en, ex)
  BY DEF IsRecord, Made
<1>2. /\ b.kind = kd /\ b.stmt = st /\ b.scope = sc /\ b.nlocals = nl /\ b.nbits = nb /\ b.start = sa /\ b.entry = en
  BY <1>1 DEF Record, Made
<1>3. Made(b1, "else", st, sc, nl, nb, sa, ar, pa, br, en, ex)
  BY <1>1, OneField
<1> HIDE DEF b1
<1>4. Made(b2, "else", st, sc, nl, nb, sa, ar, n, br, en, ex)
  BY <1>3, OneField
<1> HIDE DEF b2
<1>5. Made(b3, "else", st, sc, nl, nb, sa, ar, n, br, en, g)
  BY <1>4, OneField
<1> HIDE DEF b3
<1>6. ElseOf(b3, b, n, g)
  <2>1. /\ b3.kind = "else" /\ b3.patch = n /\ b3.exit = g /\ b3.stmt = st /\ b3.scope = sc
        /\ b3.nlocals = nl /\ b3.nbits = nb /\ b3.start = sa /\ b3.entry = en
    BY <1>5 DEF Made, Record
  <2>2. IsRecord(b3)
    BY <1>5, RecordIs DEF Made
  <2> QED
    BY <1>2, <2>1, <2>2 DEF ElseOf
<1> QED
  BY <1>6 DEF b3, b2, b1

(* The innermost block is replaced. *)
LEMMA LastOfAll ==
  ASSUME NEW bs, IsSeq(bs), Len(bs) > 1, NEW q, NEW y, Replaced1(q, bs, Len(bs), y)
  PROVE  q = Append(SubSeq(bs, 1, Len(bs) - 1), y)
<1> DEFINE n == Len(bs) - 1
           cs == SubSeq(bs, 1, n)
           p == Append(cs, y)
<1>1. n \in Nat /\ n <= Len(bs) /\ Len(bs) = n + 1
  BY IsSeqFacts
<1>2. IsSeq(q) /\ Len(q) = n + 1 /\ q[n + 1] = y /\ \A k \in 1 .. n : q[k] = bs[k]
  BY <1>1 DEF Replaced1
<1> HIDE DEF n
<1>3. IsSeq(cs) /\ Len(cs) = n /\ \A k \in 1 .. n : cs[k] = bs[k]
  BY <1>1, SubSeqFacts
<1> HIDE DEF cs
<1>4. IsSeq(p) /\ Len(p) = n + 1 /\ p[n + 1] = y /\ \A k \in 1 .. n : p[k] = cs[k]
  BY <1>3, IsSeqFacts
<1> HIDE DEF p
<1>5. Len(q) = Len(p) /\ \A k \in 1 .. Len(q) : q[k] = p[k]
  BY <1>1, <1>2, <1>3, <1>4
<1>6. q = p
  BY <1>2, <1>4, <1>5, SameSeq
<1> QED
  BY <1>6 DEF p, cs, n

(* In blocks q the last one of bs is turned into an `else`. *)
ElseMade(q, bs, n, g) ==
  q = [bs EXCEPT ![Len(bs)].kind = "else", ![Len(bs)].patch = n, ![Len(bs)].exit = g]

(* The `then` block becomes the `else` block. *)
LEMMA ElseBlocks ==
  ASSUME NEW bs, NEW b, IsLast(b, bs), IsRecord(b), NEW n, NEW g, NEW q, ElseMade(q, bs, n, g)
  PROVE  \E y : ElseOf(y, b, n, g) /\ q = Append(SubSeq(bs, 1, Len(bs) - 1), y)
<1> DEFINE k == Len(bs)
           q1 == [bs EXCEPT ![k].kind = "else"]
           q2 == [q1 EXCEPT ![k].patch = n]
           q3 == [q2 EXCEPT ![k].exit = g]
           b1 == [b EXCEPT !.kind = "else"]
           b2 == [b1 EXCEPT !.patch = n]
           b3 == [b2 EXCEPT !.exit = g]
<1>0. IsSeq(bs) /\ k > 1 /\ k \in 1 .. Len(bs) /\ b = bs[k] /\ k \in Nat
  BY IsSeqFacts DEF IsLast
<1>1. q = q3
  BY DEF ElseMade
<1> HIDE DEF k
<1>2. Replaced1(q1, bs, k, b1)
  <2>1. Replaced1(q1, bs, k, [bs[k] EXCEPT !.kind = "else"])
    BY <1>0, FieldReplaced
  <2> QED
    BY <1>0, <2>1
<1>3. IsSeq(q1) /\ Len(q1) = Len(bs) /\ q1[k] = b1
  BY <1>2 DEF Replaced1
<1> HIDE DEF q1, b1
<1>4. Replaced1(q2, q1, k, b2)
  <2>1. Replaced1(q2, q1, k, [q1[k] EXCEPT !.patch = n])
    BY <1>0, <1>3, FieldReplaced
  <2> QED
    BY <1>3, <2>1
<1>5. IsSeq(q2) /\ Len(q2) = Len(q1) /\ q2[k] = b2
  BY <1>4 DEF Replaced1
<1> HIDE DEF q2, b2
<1>6. Replaced1(q3, q2, k, b3)
  <2>1. Replaced1(q3, q2, k, [q2[k] EXCEPT !.exit = g])
    BY <1>0, <1>3, <1>5, FieldReplaced
  <2> QED
    BY <1>5, <2>1
<1> HIDE DEF q3, b3
<1>7. Replaced1(q3, bs, k, b3)
  BY <1>2, <1>4, <1>6 DEF Replaced1
<1>8. q3 = Append(SubSeq(bs, 1, Len(bs) - 1), b3)
  <2>1. Replaced1(q3, bs, Len(bs), b3) /\ Len(bs) > 1
    BY <1>0, <1>7 DEF k
  <2> QED
    BY <1>0, <2>1, LastOfAll
<1>9. ElseOf(b3, b, n, g)
  BY ElseFields DEF b3, b2, b1
<1> QED
  BY <1>1, <1>8, <1>9

(* The body of the next block of the statement starts. *)
LEMMA NextBody ==
  ASSUME NEW z, NEW N, IsStack(Outer, z, N)
  PROVE  BodyAt(Outer, PushScope(Outer), Outer.top) /\ PushScope(Outer).top = Outer.top
<1>1. Trimmed(Outer, PushScope(Outer), Outer.top, Len(Outer.leafs), {}) /\ Outer.top \in Nat
  BY TrimFacts, StackFacts
<1>2. Outer.top <= Outer.top
  BY <1>1
<1> QED
  BY <1>1, <1>2 DEF BodyAt, Trimmed

(* `} else {` keeps the outline. *)
LEMMA ElseGoes ==
  ASSUME Accepted, NEW z, Goes(z), Else
  PROVE  GoesOn(z)
<1> DEFINE N == MaxSlots
           W == Width
           u == PushScope(Outer)
           k == Append(Inner, Skipped)
           d == Patch(k, B.patch, JumpF(Len(k) - B.patch, FALSE))
           ms == SubSeq(locals, 1, B.nlocals)
           cs == SubSeq(blocks, 1, Len(blocks) - 1)
<1>1. /\ Closing({"then"}) /\ code' = d /\ stk' = u /\ locals' = ms /\ flow' = B.entry
      /\ ElseMade(blocks', blocks, Len(Inner), Out)
  BY DEF Else, OuterLocals, ElseMade
<1>2. /\ IsLast(B, blocks) /\ B.kind = "then" /\ Popped(stk, Outer, B.scope) /\ IsStack(Outer, z, N)
      /\ Outer.top = B.scope.top /\ B.scope.top <= stk.top /\ stmts' = stmts
      /\ \A b : SameFirst(Append(cs, b), blocks)
      /\ \E R : Compiling(R, code, stk, locals, blocks, flow, z, N, W)
  BY <1>1, ClosingFacts
<1>3. PICK R : Compiling(R, code, stk, locals, blocks, flow, z, N, W)
  BY <1>2
<1> HIDE DEF N, W
<1>4. Scoped(stk, locals, blocks, flow, z, N, W) /\ IsFlow(flow)
  BY <1>3, CompilingFacts
<1>5. IsBlock(B) /\ IsRecord(B)
  BY <1>2, <1>4, LastFacts, BlockIsRecord
<1>6. PICK y : ElseOf(y, B, Len(Inner), Out) /\ blocks' = Append(cs, y)
  BY <1>1, <1>2, <1>5, ElseBlocks
<1>7. blocks' = Append(cs, y)
  BY <1>6
<1>8. Out = Restrict(flow, OuterBits(B)) /\ Inner = code \o ScopeDrop(stk)
  BY DEF Out, Inner
<1>9. IsFlow(Out)
  BY <1>4, <1>8, RestrictFacts
<1>10. /\ IsRecord(y) /\ y.kind = "else" /\ y.patch = Len(Inner) /\ y.exit = Out /\ y.stmt = B.stmt /\ y.scope = B.scope
       /\ y.nlocals = B.nlocals /\ y.nbits = B.nbits /\ y.start = B.start /\ y.entry = B.entry
  BY <1>6 DEF ElseOf
<1>11. IsBlock(y)
  <2>1. /\ B.nlocals \in Nat /\ B.nbits \in Nat /\ B.stmt.first \in Nat /\ B.stmt.top \in Nat
        /\ B.scope.first \in Nat /\ B.scope.top \in Nat
        /\ IsFlow(B.entry)
    BY <1>5 DEF IsBlock
  <2>2. /\ y.nlocals \in Nat /\ y.nbits \in Nat /\ y.stmt.first \in Nat /\ y.stmt.top \in Nat
        /\ y.scope.first \in Nat /\ y.scope.top \in Nat
        /\ IsFlow(y.entry) /\ IsFlow(y.exit)
    BY <1>9, <1>10, <2>1
  <2> QED
    BY <1>10, <2>2, BlockIsRecord
<1>12. Follows(y, B)
  BY <1>2, <1>10, <1>11 DEF Follows
<1>13. BodyAt(Outer, u, Outer.top) /\ u.top = Outer.top
  BY <1>2, NextBody
<1>14. Kept(ms, cs, locals, blocks, B) /\ Skips(k, Inner)
  BY DEF Kept, Skips
<1> HIDE DEF u, ms, cs, k
<1>15. /\ IsLast(B, blocks) /\ B.kind = "then" /\ Popped(stk, Outer, B.scope)
       /\ Out = Restrict(flow, OuterBits(B)) /\ Inner = code \o ScopeDrop(stk)
       /\ y.kind = "else" /\ y.patch = Len(Inner) /\ y.exit = Out
  BY <1>2, <1>8, <1>10
<1>16. PICK Q : Compiling(Q, d, u, ms, Append(cs, y), B.entry, z, N, W)
  BY <1>3, <1>12, <1>13, <1>14, <1>15, ElseStep
<1> HIDE DEF d
<1>17. Compiling(Q, code', u, locals', Append(cs, y), flow', z, N, W)
  BY <1>1, <1>16
<1>18. SameFirst(Append(cs, y), blocks) /\ u.top <= stk.top
  BY <1>2, <1>13
<1> QED
  BY <1>1, <1>2, <1>7, <1>17, <1>18, BackGoes DEF N, W

(* Block y is the record of the arm after arm b, whose code ends at n. *)
NextRecord(y, b, s, n, g) ==
  y = [[b EXCEPT !.kind = "match", !.breaks = {n}, !.exit = g] EXCEPT !.scope = Saved(s), !.patch = n + 2]

(* The block of the second arm. *)
LEMMA NextMade ==
  ASSUME NEW b, IsBlock(b), b.kind = "guarded", NEW n, NEW g, IsFlow(g),
         NEW s, s.top = b.scope.top, s.first = b.scope.first, NEW y, NextRecord(y, b, s, n, g)
  PROVE  NextOf(y, b, n, g)
<1> DEFINE K == "match"
           X == {n}
           S == Saved(s)
           p == n + 2
           d == [b EXCEPT !.kind = K, !.breaks = X, !.exit = g]
<1>1. IsRecord(b)
  BY BlockIsRecord
<1>2. y = [d EXCEPT !.scope = S, !.patch = p]
  BY DEF NextRecord
<1>3. S.top = b.scope.top /\ S.first = b.scope.first
  BY DEF Saved
<1>0. K = "match" /\ X = {n} /\ p = n + 2
  OBVIOUS
<1> HIDE DEF K, X, S, p
<1>4. WithKind(d, b, K, X, g)
  BY <1>1, BlockUpdates
<1> HIDE DEF d
<1>5. /\ IsRecord(d) /\ d.kind = K /\ d.breaks = X /\ d.exit = g /\ d.stmt = b.stmt
      /\ d.nlocals = b.nlocals /\ d.nbits = b.nbits /\ d.start = b.start /\ d.entry = b.entry
  BY <1>4, UpdatedFields
<1>6. WithScope(y, d, S, p)
  <2>1. WithScope([d EXCEPT !.scope = S, !.patch = p], d, S, p)
    BY <1>5, BlockUpdates
  <2> QED
    BY <1>2, <2>1
<1>7. /\ IsRecord(y) /\ y.scope = S /\ y.patch = p /\ y.kind = d.kind /\ y.stmt = d.stmt
      /\ y.nlocals = d.nlocals /\ y.nbits = d.nbits /\ y.start = d.start
      /\ y.breaks = d.breaks /\ y.entry = d.entry /\ y.exit = d.exit
  BY <1>6, UpdatedFields
<1>8. /\ IsRecord(y) /\ y.scope = S /\ y.patch = p /\ y.kind = K /\ y.stmt = b.stmt
      /\ y.nlocals = b.nlocals /\ y.nbits = b.nbits /\ y.start = b.start
      /\ y.breaks = X /\ y.entry = b.entry /\ y.exit = g
  BY <1>5, <1>7
<1>9. IsBlock(y)
  <2>1. /\ b.nlocals \in Nat /\ b.nbits \in Nat /\ b.stmt.first \in Nat /\ b.stmt.top \in Nat
        /\ b.scope.first \in Nat /\ b.scope.top \in Nat /\ IsFlow(b.entry)
    BY DEF IsBlock
  <2>2. /\ y.nlocals \in Nat /\ y.nbits \in Nat /\ y.stmt.first \in Nat /\ y.stmt.top \in Nat
        /\ y.scope.first \in Nat /\ y.scope.top \in Nat
        /\ IsFlow(y.entry) /\ IsFlow(y.exit)
    BY <1>3, <1>8, <2>1
  <2> QED
    BY <1>8, <2>2, BlockIsRecord
<1>10. Follows(y, b)
  <2>1. y.scope.top = b.scope.top /\ y.scope.first = b.scope.first /\ y.kind = "match"
    BY <1>0, <1>3, <1>8
  <2> QED
    BY <1>8, <1>9, <2>1 DEF Follows
<1> QED
  BY <1>0, <1>8, <1>10 DEF NextOf

(* Both tests of the first arm are filled in. *)
LEMMA BothLength ==
  ASSUME NEW k, IsSeq(k), NEW b, b.patch + 1 \in 1 .. Len(k), b.patch + 3 \in 1 .. Len(k), NEW d, BothTo(d, k, b)
  PROVE  IsSeq(d) /\ Len(d) = Len(k)
<1> DEFINE i == JumpF(Len(k) - b.patch, TRUE)
           j == JumpF(Len(k) - b.patch - 2, FALSE)
           m == b.patch + 1
           n == b.patch + 3
           e == [k EXCEPT ![m] = i]
<1>1. d = [e EXCEPT ![n] = j]
  BY DEF BothTo
<1>2. m \in 1 .. Len(k) /\ n \in 1 .. Len(k)
  OBVIOUS
<1> HIDE DEF i, j, m, n
<1>3. IsSeq(e) /\ Len(e) = Len(k)
  BY <1>2, IsSeqExcept
<1> HIDE DEF e
<1>4. n \in 1 .. Len(e)
  BY <1>2, <1>3
<1>5. IsSeq([e EXCEPT ![n] = j]) /\ Len([e EXCEPT ![n] = j]) = Len(e)
  BY <1>3, <1>4, IsSeqExcept
<1> QED
  BY <1>1, <1>3, <1>5

(* `} _ => {` keeps the outline: without a known hazard it binds nothing. *)
LEMMA NextArmGoes ==
  ASSUME Accepted, NEW z, Goes(z), NextArm
  PROVE  GoesOn(z)
<1> DEFINE N == MaxSlots
           W == Width
           u == PushScope(Outer)
           k == Append(Inner, Skipped)
           d == [k EXCEPT ![B.patch + 1] = JumpF(Len(k) - B.patch, TRUE),
                          ![B.patch + 3] = JumpF(Len(k) - B.patch - 2, FALSE)]
           ms == SubSeq(locals, 1, B.nlocals)
           cs == SubSeq(blocks, 1, Len(blocks) - 1)
           b1 == [B EXCEPT !.kind = "match", !.breaks = {Len(Inner)}, !.exit = Out]
           c == d \o Test(B.stmt.top)
           y == [b1 EXCEPT !.scope = Saved(Outer), !.patch = Len(c) - 1]
<1>1. Closing({"guarded"}) /\ Arm(cs, b1, FALSE, Outer, d, ms, B.entry)
  BY DEF NextArm, Accepted, OuterLocals
<1>2. /\ IsLast(B, blocks) /\ B.kind = "guarded" /\ Popped(stk, Outer, B.scope) /\ IsStack(Outer, z, N)
      /\ Outer.top = B.scope.top /\ B.scope.top <= stk.top /\ stmts' = stmts
      /\ \A b : SameFirst(Append(cs, b), blocks)
      /\ \E R : Compiling(R, code, stk, locals, blocks, flow, z, N, W)
  BY <1>1, ClosingFacts
<1>3. PICK R : Compiling(R, code, stk, locals, blocks, flow, z, N, W)
  BY <1>2
<1>4. Scoped(stk, locals, blocks, flow, z, N, W) /\ IsFlow(flow) /\ IsSeq(code) /\ Len(code) \in Nat
      /\ Traced(R, code, stk.leafs, z, N, blocks, locals, {})
  BY <1>3, CompilingFacts
<1>5. IsBlock(B) /\ IsRecord(B)
  BY <1>2, <1>4, LastFacts, BlockIsRecord
<1>6. b1.kind = "match" /\ b1.arg = B.arg /\ b1.nlocals = B.nlocals /\ b1.stmt = B.stmt
  <2> DEFINE K == "match"
             X == {Len(Inner)}
             g == Out
  <2>1. b1 = [B EXCEPT !.kind = K, !.breaks = X, !.exit = g]
    OBVIOUS
  <2>2. K = "match"
    OBVIOUS
  <2> HIDE DEF K, X, g, b1
  <2>3. WithKind(b1, B, K, X, g)
    <3>1. WithKind([B EXCEPT !.kind = K, !.breaks = X, !.exit = g], B, K, X, g)
      BY <1>5, BlockUpdates
    <3> QED
      BY <2>1, <3>1
  <2>4. /\ b1.kind = K /\ b1.stmt = B.stmt /\ b1.nlocals = B.nlocals /\ b1.arg = B.arg
    BY <2>3, UpdatedFields
  <2> QED
    BY <2>2, <2>4
<1> HIDE DEF N, W
<1>7. stk' = u /\ locals' = ms /\ blocks' = Append(cs, y) /\ code' = c /\ flow' = Passed(B, locals)
  <2> HIDE DEF u, d, ms, cs, b1, y
  <2>1. stk' = u /\ locals' = ms
    BY <1>1 DEF Arm, Enter, u
  <2>2. code' = c
    BY <1>1, <1>6 DEF Arm, Enter, Test
  <2>3. flow' = Passed(B, locals)
    BY <1>1, <1>6 DEF Arm, Enter, Passed
  <2>4. blocks' = Append(cs, y)
    BY <1>1, <1>6 DEF Arm, Enter, Test, y
  <2> QED
    BY <2>1, <2>2, <2>3, <2>4
<1>8. BothTo(d, k, B) /\ Skips(k, Inner) /\ FlowOut(Out, flow, B) /\ Dropping(Inner, code, stk)
      /\ Kept(ms, cs, locals, blocks, B)
  BY DEF BothTo, Skips, FlowOut, Dropping, Kept, Out, Inner
<1> HIDE DEF d
<1>9. IsSeq(Inner) /\ Len(Inner) \in Nat /\ Len(Inner) >= Len(code) /\ IsSeq(k) /\ Len(k) = Len(Inner) + 1
  <2>1. IsSeq(code) /\ IsSeq(ScopeDrop(stk))
    <3>1. IsSeq(ScopeDrop(stk))
      BY Literals DEF ScopeDrop
    <3> QED
      BY <1>4, <3>1
  <2>2. IsSeq(Inner) /\ Len(Inner) = Len(code) + Len(ScopeDrop(stk)) /\ Len(ScopeDrop(stk)) \in Nat
    BY <2>1, IsSeqConcat DEF Inner
  <2>3. Len(Inner) \in Nat /\ Len(Inner) >= Len(code)
    BY <1>4, <2>2
  <2>4. IsSeq(k) /\ Len(k) = Len(Inner) + 1
    BY <2>2, IsSeqFacts
  <2> QED
    BY <2>2, <2>3, <2>4
<1> HIDE DEF k
<1>10. B.patch \in Nat /\ B.patch + 2 < Len(code)
  <2>1. \A h \in Holes(B) : h \in 0 .. Len(code) - 1
    BY <1>2, <1>4, LastHole
  <2>2. B.patch \in Holes(B) /\ B.patch + 2 \in Holes(B)
    BY <1>2 DEF Holes, Falls
  <2>3. B.patch \in 0 .. Len(code) - 1 /\ B.patch + 2 \in 0 .. Len(code) - 1
    BY <2>1, <2>2
  <2> QED
    BY <1>4, <2>3
<1>11. IsSeq(d) /\ Len(d) = Len(Inner) + 1
  <2>1. B.patch + 1 \in 1 .. Len(k) /\ B.patch + 3 \in 1 .. Len(k)
    BY <1>4, <1>9, <1>10
  <2>2. IsSeq(d) /\ Len(d) = Len(k)
    BY <1>8, <1>9, <2>1, BothLength
  <2> QED
    BY <1>9, <2>2
<1>12. Len(c) - 1 = Len(Inner) + 2
  <2>1. IsSeq(Test(B.stmt.top)) /\ Len(Test(B.stmt.top)) = 2
    BY Literals DEF Test
  <2>2. IsSeq(d) /\ IsSeq(Test(B.stmt.top))
    BY <1>11, <2>1
  <2>3. Len(c) = Len(d) + Len(Test(B.stmt.top))
    BY <2>2, IsSeqConcat
  <2> QED
    BY <1>9, <1>11, <2>1, <2>3
<1>13. NextRecord(y, B, Outer, Len(Inner), Out)
  BY <1>12 DEF NextRecord
<1>14. Outer.first = B.scope.first
  BY <1>2, <1>4, PopBody
<1>15. IsFlow(Out)
  BY <1>4, <1>8, RestrictFacts DEF FlowOut
<1>16. BodyAt(Outer, u, Outer.top) /\ u.top = Outer.top
  BY <1>2, NextBody
<1> HIDE DEF u, y, ms, cs, b1
<1>17. NextOf(y, B, Len(Inner), Out)
  BY <1>2, <1>5, <1>13, <1>14, <1>15, NextMade
<1>18. PICK Q : Compiling(Q, c, u, ms, Append(cs, y), Passed(B, locals), z, N, W)
  BY <1>2, <1>3, <1>8, <1>16, <1>17, NextArmStep
<1> HIDE DEF c
<1>19. Compiling(Q, code', u, locals', Append(cs, y), flow', z, N, W)
  BY <1>7, <1>18
<1>20. SameFirst(Append(cs, y), blocks) /\ u.top <= stk.top
  BY <1>2, <1>16
<1> QED
  BY <1>2, <1>7, <1>19, <1>20, BackGoes DEF N, W

(* In blocks q a break at n, where the flow is f, leaves block k of bs. *)
BreakMade(q, bs, k, f, n) ==
  q = [bs EXCEPT ![k].breaks = @ \cup {n}, ![k].exit = Join(@, Restrict(f, OuterBits(bs[k])))]

(* The blocks after a `break`. *)
LEMMA BreakBlocks ==
  ASSUME NEW bs, IsSeq(bs), NEW k \in 1 .. Len(bs), IsRecord(bs[k]), NEW f, NEW n, NEW q, BreakMade(q, bs, k, f, n)
  PROVE  \E d : BrokenBy(d, bs[k], f, n) /\ Replaced1(q, bs, k, d)
<1> DEFINE b == bs[k]
           X == b.breaks \cup {n}
           Y == Join(b.exit, Restrict(f, OuterBits(b)))
           q1 == [bs EXCEPT ![k].breaks = X]
           b1 == [b EXCEPT !.breaks = X]
           d == [b1 EXCEPT !.exit = Y]
<1>1. b1.exit = b.exit
  <2> HIDE DEF X, b
  <2> QED
    OBVIOUS
<1>2. Replaced1(q1, bs, k, b1)
  <2> HIDE DEF X
  <2> QED
    BY FieldReplaced
<1>3. IsSeq(q1) /\ Len(q1) = Len(bs) /\ q1[k] = b1
  BY <1>2 DEF Replaced1
<1>4. q = [q1 EXCEPT ![k].exit = Y]
  <2>1. q1[k].exit = b.exit
    BY <1>1, <1>3
  <2> QED
    BY <2>1 DEF BreakMade
<1>5. BrokenBy(d, b, f, n)
  BY <1>1 DEF BrokenBy
<1> HIDE DEF q1, b1, Y, X
<1>6. Replaced1([q1 EXCEPT ![k].exit = Y], q1, k, d)
  BY <1>3, FieldReplaced
<1>7. Replaced1(q, bs, k, d)
  <2> HIDE DEF d
  <2> QED
    BY <1>2, <1>4, <1>6 DEF Replaced1
<1> QED
  BY <1>5, <1>7

(* `break` keeps the outline. *)
LEMMA BreakGoes ==
  ASSUME Accepted, NEW z, Goes(z), Break
  PROVE  GoesOn(z)
<1> DEFINE N == MaxSlots
           W == Width
<1>1. /\ flow.reach /\ stmts' = stmts + 1 /\ Room(stk, stmts, N, W) /\ IsStack(stk, z, N)
  BY LowerFacts DEF Break, Goes
<1>2. PICK k \in Loops :
        LET b == blocks[k]
            c == IF b.kind = "letloop" THEN Append(code, Const(b.scope.top - 1)) ELSE code
        IN  /\ b.kind = "letloop" /\ LiveIn(b) # {} => "break_live" \in Hazards
            /\ Leave(Append(c, Skipped))
            /\ blocks' = [blocks EXCEPT
                 ![k].breaks = @ \cup {Len(c)},
                 ![k].exit = Join(@, Restrict(flow, OuterBits(b)))]
  BY DEF Break
<1> DEFINE b == blocks[k]
           c == IF b.kind = "letloop" THEN Append(code, Const(b.scope.top - 1)) ELSE code
<1>3. BreakMade(blocks', blocks, k, flow, Len(c))
  BY <1>2 DEF BreakMade
<1>4. /\ code' = Append(c, Skipped) /\ flow' = Unreachable /\ stk' = stk /\ locals' = locals
      /\ b.kind = "letloop" => LiveIn(b) = {}
  BY <1>2 DEF Leave, Accepted
<1>5. PICK R : Compiling(R, code, stk, locals, blocks, flow, z, N, W)
  BY DEF Goes, Going
<1> HIDE DEF N, W
<1>6. Scoped(stk, locals, blocks, flow, z, N, W) /\ IsFlow(flow)
  BY <1>5, CompilingFacts
<1>7. IsSeq(blocks) /\ k \in 1 .. Len(blocks) /\ b.kind \in {"loop", "letloop"}
  <2>1. IsSeq(blocks)
    BY <1>6, BlockFacts
  <2> QED
    BY <2>1 DEF Loops, IsSeq
<1>8. IsBlock(b) /\ IsRecord(b) /\ k # 1
  <2>1. IsBlock(b) /\ (b.kind \in Bottom <=> k = 1)
    BY <1>6, <1>7, BlockFacts
  <2> QED
    BY <1>7, <2>1, BlockIsRecord DEF Bottom
<1>9. PICK d : BrokenBy(d, b, flow, Len(c)) /\ Replaced1(blocks', blocks, k, d)
  BY <1>3, <1>7, <1>8, BreakBlocks
<1>10. b.kind = "letloop" => flow.may \subseteq OuterBits(b)
  BY <1>4 DEF LiveIn
<1>11. Written(c, code, b)
  BY DEF Written
<1> HIDE DEF c
<1>12. Skips(Append(c, Skipped), c)
  BY DEF Skips
<1>13. \E Q : Compiling(Q, Append(c, Skipped), stk, locals, blocks', Unreachable, z, N, W)
  BY <1>5, <1>7, <1>9, <1>10, <1>11, <1>12, BreakStep
<1>14. PICK Q : Compiling(Q, code', stk, locals', blocks', flow', z, N, W)
  BY <1>4, <1>13
<1>15. SameFirst(blocks', blocks)
  BY <1>7, <1>8, <1>9 DEF Replaced1, SameFirst
<1>16. Going(code, stk, locals, blocks, flow, stmts, z, N, W)
  BY DEF Goes, N, W
<1>17. stk.top <= stk.top + W
  BY <1>1 DEF Room
<1>18. Going(code', stk, locals', blocks', flow', stmts', z, N, W)
  BY <1>1, <1>14, <1>15, <1>16, <1>17, GoingOn
<1> QED
  BY <1>4, <1>18 DEF GoesOn, N, W

(* `continue` keeps the outline: without a known hazard no flag of the loop's *)
(* body may be set.                                                           *)
LEMMA ContinueGoes ==
  ASSUME Accepted, NEW z, Goes(z), Continue
  PROVE  GoesOn(z)
<1> DEFINE N == MaxSlots
           W == Width
<1>1. /\ flow.reach /\ stmts' = stmts + 1 /\ Room(stk, stmts, N, W) /\ IsStack(stk, z, N)
  BY LowerFacts DEF Continue, Goes
<1>2. PICK k \in Loops :
        /\ BackEdge(blocks[k], flow)
        /\ LiveIn(blocks[k]) # {} => "continue_live" \in Hazards
        /\ Leave(Append(code, Jump(blocks[k].start - Len(code))))
  BY DEF Continue
<1> DEFINE b == blocks[k]
           c == Append(code, Jump(b.start - Len(code)))
<1>3. /\ code' = c /\ flow' = Unreachable /\ stk' = stk /\ locals' = locals /\ blocks' = blocks
      /\ LiveIn(b) = {}
  BY <1>2 DEF Leave, Accepted, Continue
<1>4. PICK R : Compiling(R, code, stk, locals, blocks, flow, z, N, W)
  BY DEF Goes, Going
<1> HIDE DEF N, W
<1>5. Scoped(stk, locals, blocks, flow, z, N, W) /\ IsFlow(flow)
  BY <1>4, CompilingFacts
<1>6. k \in 1 .. Len(blocks) /\ b.kind \in {"loop", "letloop"}
  <2>1. IsSeq(blocks)
    BY <1>5, BlockFacts
  <2> QED
    BY <2>1 DEF Loops, IsSeq
<1>7. flow.may \subseteq OuterBits(b) /\ BackEdge(b, flow)
  BY <1>2, <1>3 DEF LiveIn
<1>8. JumpsBack(c, code, b)
  BY DEF JumpsBack
<1> HIDE DEF c
<1>9. \E Q : Compiling(Q, c, stk, locals, blocks, Unreachable, z, N, W)
  BY <1>4, <1>6, <1>7, <1>8, ContinueStep
<1>10. PICK Q : Compiling(Q, code', stk, locals, blocks, flow', z, N, W)
  BY <1>3, <1>9
<1> QED
  BY <1>1, <1>3, <1>10, SameGoes DEF N, W

(* What evaluates the function's result. *)
LEMMA ResultsAre ==
  ASSUME NEW z, NEW N, NEW W \in Nat, Scoped(stk, locals, blocks, flow, z, N, W), NEW r \in Results
  PROVE  IsResult(r, blocks, locals, flow)
<1>1. CASE blocks[1].kind = "void"
  BY <1>1 DEF Results, IsResult
<1>2. CASE blocks[1].kind # "void"
  <2>1. PICK p \in Readable : WidthOf(p) = 1 /\ r = << Copy(0, p.slot, 1), Ranged("LocalMove", p.lo, p.hi) >>
    BY <1>2 DEF Results
  <2>2. BitsOf(p) \subseteq flow.must /\ \E i \in 1 .. Len(locals) : p \in PlacesOf(locals[i])
    BY ReadablePlace
  <2> QED
    BY <1>2, <2>1, <2>2 DEF IsResult
<1> QED
  BY <1>1, <1>2

(* `return` keeps the outline. *)
LEMMA ReturnStmtGoes ==
  ASSUME Accepted, NEW z, Goes(z), ReturnStmt
  PROVE  GoesOn(z)
<1> DEFINE N == MaxSlots
           W == Width
<1>1. /\ flow.reach /\ stmts' = stmts + 1 /\ Room(stk, stmts, N, W) /\ IsStack(stk, z, N)
  BY LowerFacts DEF ReturnStmt, Goes
<1>2. PICK r \in Results : Leave(code \o r \o << Return(ResultSlot) >>)
  BY DEF ReturnStmt
<1>3. /\ code' = code \o r \o << Return(ResultIn(blocks)) >> /\ flow' = Unreachable /\ stk' = stk
      /\ locals' = locals /\ blocks' = blocks
  BY <1>2 DEF Leave, ReturnStmt, ResultSlot, ResultIn
<1>4. PICK R : Compiling(R, code, stk, locals, blocks, flow, z, N, W)
  BY DEF Goes, Going
<1>5. blocks[1].kind # "void" => z > 0
  BY DEF Goes, Going
<1> HIDE DEF N, W
<1>6. Scoped(stk, locals, blocks, flow, z, N, W) /\ W \in Nat
  BY <1>4, CompilingFacts
<1>7. IsResult(r, blocks, locals, flow)
  BY <1>6, ResultsAre
<1>8. \E Q : Compiling(Q, code \o r \o <<Return(ResultIn(blocks))>>, stk, locals, blocks, Unreachable, z, N, W)
  BY <1>4, <1>5, <1>7, ReturnStep
<1>9. PICK Q : Compiling(Q, code', stk, locals, blocks, flow', z, N, W)
  BY <1>3, <1>8
<1> QED
  BY <1>1, <1>3, <1>9, SameGoes DEF N, W

(* The function is compiled. *)
Finished(z) ==
  /\ \E R : Ready(R, code, stk.leafs, z, MaxSlots)
  /\ stk.top \in 0 .. MaxSlots /\ stk.first \in 0 .. Len(stk.leafs) /\ IsSeq(stk.leafs)
  /\ flow = Unreachable /\ stmts = 0

(* The end of the body leaves code that has an outline without holes. *)
LEMMA FinishGoes ==
  ASSUME Accepted, family' = family, NEW z, Goes(z), Finish
  PROVE  Finished(z)'
<1> DEFINE N == MaxSlots
           W == Width
<1>1. PICK r \in IF flow.reach THEN Results ELSE { <<>> } :
        code' = code \o r \o ScopeDrop(stk) \o << Return(ResultSlot) >>
  BY DEF Finish
<1>2. /\ code' = code \o r \o ScopeDrop(stk) \o << Return(ResultIn(blocks)) >>
      /\ stk' = Outer /\ flow' = Unreachable /\ stmts' = 0 /\ Len(blocks) = 1
  BY <1>1 DEF Finish, ResultSlot, ResultIn
<1>3. PICK R : Compiling(R, code, stk, locals, blocks, flow, z, N, W)
  BY DEF Goes, Going
<1>4. blocks[1].kind # "void" => z > 0
  BY DEF Goes, Going
<1>0. N' = N
  BY DEF MaxSlots
<1> HIDE DEF N, W
<1>5. Scoped(stk, locals, blocks, flow, z, N, W) /\ W \in Nat /\ IsStack(stk, z, N)
  BY <1>3, CompilingFacts
<1>6. LastResult(r, blocks, locals, flow)
  <2>1. CASE flow.reach
    <3>1. r \in Results
      BY <1>1, <2>1
    <3> QED
      BY <1>5, <2>1, <3>1, ResultsAre DEF LastResult
  <2>2. CASE ~flow.reach
    BY <1>1, <2>2 DEF LastResult
  <2> QED
    BY <2>1, <2>2
<1>7. PICK Q : Ready(Q, code \o r \o ScopeDrop(stk) \o <<Return(ResultIn(blocks))>>, stk.leafs, z, N)
  BY <1>2, <1>3, <1>4, <1>6, FinishStep
<1>8. Popped(stk, Outer, B.scope)
  BY <1>5, TrimFacts DEF Popped, Outer
<1>9. Outer.leafs = stk.leafs /\ Outer.top = B.scope.top /\ Outer.first = B.scope.first
  BY <1>8 DEF Popped, Trimmed
<1>10. B.scope.top \in 0 .. N /\ B.scope.first \in 0 .. Len(stk.leafs) /\ IsSeq(stk.leafs)
  <2>1. 1 \in 1 .. Len(blocks) /\ Len(blocks) = 1 /\ B = blocks[1]
    BY <1>2 DEF B
  <2>2. /\ B.scope.top \in Nat /\ B.scope.top <= InnerTop(blocks, stk, 1)
        /\ B.scope.first \in Nat /\ B.scope.first <= B.nbits /\ B.nbits \in Nat
        /\ B.nbits <= InnerFirst(blocks, stk, 1) /\ InnerFirst(blocks, stk, 1) <= Len(stk.leafs)
        /\ InnerFirst(blocks, stk, 1) \in Nat
    BY <1>5, <2>1, BlockFacts
  <2>3. InnerTop(blocks, stk, 1) = stk.top
    BY <2>1 DEF InnerTop
  <2>4. stk.top \in Nat /\ stk.top <= N /\ N \in Nat /\ Len(stk.leafs) \in Nat /\ IsSeq(stk.leafs)
    BY <1>5, StackFacts
  <2> QED
    BY <2>2, <2>3, <2>4
<1>11. Ready(Q, code', stk'.leafs, z, N)
  BY <1>2, <1>7, <1>9
<1>12. Ready(Q, code', stk'.leafs, z, N')
  BY <1>0, <1>11
<1>13. stk'.top \in 0 .. N' /\ stk'.first \in 0 .. Len(stk'.leafs) /\ IsSeq(stk'.leafs)
  BY <1>0, <1>2, <1>9, <1>10
<1> QED
  BY <1>2, <1>12, <1>13 DEF Finished, N

(* The cardinality of a set with at most one element. *)
LEMMA SmallSets ==
  /\ Cardinality({}) = 0
  /\ \A x : Cardinality({x}) = 1
<1>1. ASSUME NEW S, S = {} \/ \E x : S = {x}
      PROVE  Cardinality(S) = IF S = {} THEN 0 ELSE 1
  <2> DEFINE fn(CS, T) == IF T = {} THEN 0 ELSE 1 + CS[T \ {CHOOSE x : x \in T}]
             IsCS(CS) == CS = [T \in SUBSET S |-> fn(CS, T)]
             SZ == [T \in SUBSET S |-> IF T = {} THEN 0 ELSE 1]
             CS == CHOOSE f : IsCS(f)
  <2>1. Cardinality(S) = CS[S]
    BY DEF Cardinality
  <2>2. IsCS(SZ)
    <3>1. ASSUME NEW T \in SUBSET S
          PROVE  SZ[T] = fn(SZ, T)
      <4>1. T = {} \/ (T = S /\ \E x : S = {x})
        <5> HIDE DEF fn, IsCS, SZ, CS
        <5>1. CASE T = {}
          BY <5>1
        <5>2. CASE T # {}
          <6>1. PICK x : S = {x}
            BY <1>1, <5>2
          <6> QED
            BY <5>2, <6>1
        <5> QED
          BY <5>1, <5>2
      <4>2. ASSUME NEW x, T = {x} PROVE T \ {CHOOSE y : y \in T} = {}
        BY <4>2
      <4> QED
        BY <4>1, <4>2
    <3> QED
      BY <3>1
  <2>3. IsCS(CS)
    <3> HIDE DEF IsCS
    <3> QED
      BY <2>2
  <2> HIDE DEF CS
  <2>4. CS[{}] = 0
    BY <2>3
  <2>5. ASSUME NEW x, S = {x} PROVE CS[S] = 1
    <3>1. S \ {CHOOSE y : y \in S} = {} /\ S # {}
      BY <2>5
    <3>2. CS[S] = 1 + CS[S \ {CHOOSE y : y \in S}]
      BY <2>3, <3>1
    <3> QED
      BY <2>4, <3>1, <3>2
  <2> QED
    BY <1>1, <2>1, <2>4, <2>5
<1> QED
  BY <1>1

(* The memory of the running function. *)
Fates == {"garbage", "unborn", "live", "dropped", "given"}
All == Values \cup {Garbage}
Tame(m, f, N) ==
  /\ m \in [0 .. N - 1 -> All] /\ f \in [All -> Fates]
  /\ \A v \in All : f[v] = "garbage" <=> v = Garbage

(* The slots O hold the live values, each its own. *)
Holds(m, f, O) ==
  /\ \A x \in O : m[x] \in Values /\ f[m[x]] = "live"
  /\ \A x, y \in O : m[x] = m[y] => x = y
  /\ \A v \in Values : f[v] = "live" => \E x \in O : m[x] = v

(* Garbage is no value. *)
LEMMA GarbageIsNoValue ==
  Garbage \notin Values /\ 1 \in Values /\ Values \subseteq All /\ Garbage \in All
  BY BodiesAssumption DEF Garbage, Values, All

(* The values in the slots X are dropped or given away. *)
Spent(g, f, m, X, how) ==
  /\ g \in [All -> Fates]
  /\ \A v \in All : g[v] = IF \E x \in X : m[x] = v THEN how ELSE f[v]

Leaves(P, O, X) == X \subseteq O /\ P = O \ X
Ends1(how) == how \in {"dropped", "given"}
Spends(f, g) == \A v \in All : g[v] = f[v] \/ (f[v] = "live" /\ g[v] \in {"dropped", "given"})

(* The memory after values were dropped or given away. *)
LEMMA SpentHolds ==
  ASSUME NEW m, NEW f, NEW N, Tame(m, f, N), NEW O, O \subseteq 0 .. N - 1, Holds(m, f, O), NEW X,
         NEW how, Ends1(how), NEW g, Spent(g, f, m, X, how), NEW P, Leaves(P, O, X)
  PROVE  Tame(m, g, N) /\ Holds(m, g, P) /\ Spends(f, g)
<1>0. how \in {"dropped", "given"} /\ X \subseteq O /\ P = O \ X
  BY DEF Ends1, Leaves
<1>1. \A x \in X : m[x] \in Values /\ f[m[x]] = "live" /\ m[x] # Garbage
  BY <1>0, GarbageIsNoValue DEF Holds
<1>2. \A v \in All : g[v] = f[v] \/ (f[v] = "live" /\ g[v] = how)
  BY <1>1 DEF Spent
<1>3. Tame(m, g, N)
  <2>1. \A v \in All : g[v] = "garbage" <=> v = Garbage
    BY <1>0, <1>2, GarbageIsNoValue DEF Tame
  <2> QED
    BY <2>1 DEF Tame, Spent
<1>4. Holds(m, g, O \ X)
  <2>1. ASSUME NEW x \in O \ X PROVE m[x] \in Values /\ g[m[x]] = "live"
    <3>1. m[x] \in Values /\ f[m[x]] = "live" /\ \A y \in X : m[y] # m[x]
      BY <1>0 DEF Holds
    <3> QED
      BY <3>1, GarbageIsNoValue DEF Spent
  <2>2. ASSUME NEW v \in Values, g[v] = "live" PROVE \E x \in O \ X : m[x] = v
    <3>1. f[v] = "live" /\ ~\E x \in X : m[x] = v
      BY <1>0, <2>2, GarbageIsNoValue DEF Spent
    <3> QED
      BY <3>1 DEF Holds
  <2>3. \A x, y \in O \ X : m[x] = m[y] => x = y
    BY DEF Holds
  <2> QED
    BY <2>1, <2>2, <2>3 DEF Holds
<1> QED
  BY <1>0, <1>2, <1>3, <1>4 DEF Spends

(* Run the drop glue for the bits D. *)
LEMMA DroppedIs ==
  ASSUME NEW f, NEW N, Tame(mem, f, N), NEW O, O \subseteq 0 .. N - 1, Holds(mem, f, O),
         NEW D, Apart(stk.leafs, D), SlotsOf(stk.leafs, D) \subseteq O
  PROVE  Spent(Dropped(f, D), f, mem, SlotsOf(stk.leafs, D), "dropped")
<1>1. DOMAIN f = All
  BY DEF Tame
<1>2. \A b \in D : SlotAt(stk.leafs, b) \in O /\ Holder(b) = mem[SlotAt(stk.leafs, b)] /\ f[Holder(b)] = "live"
  <2> SUFFICES ASSUME NEW b \in D
               PROVE  SlotAt(stk.leafs, b) \in O /\ Holder(b) = mem[SlotAt(stk.leafs, b)] /\ f[Holder(b)] = "live"
    OBVIOUS
  <2>1. SlotAt(stk.leafs, b) \in O
    BY DEF SlotsOf
  <2>2. Holder(b) = mem[SlotAt(stk.leafs, b)]
    BY DEF Holder, SlotOf, Leaf, SlotAt
  <2> QED
    BY <2>1, <2>2 DEF Holds
<1>3. ASSUME NEW v \in All
      PROVE  Dropped(f, D)[v] = IF \E x \in SlotsOf(stk.leafs, D) : mem[x] = v THEN "dropped" ELSE f[v]
  <2>1. (\E x \in SlotsOf(stk.leafs, D) : mem[x] = v) <=> \E b \in D : Holder(b) = v
    BY <1>2 DEF SlotsOf
  <2>2. CASE ~\E b \in D : Holder(b) = v
    <3>1. {b \in D : Holder(b) = v} = {}
      BY <2>2
    <3>2. Cardinality({b \in D : Holder(b) = v}) = 0
      BY <3>1, SmallSets
    <3>3. Dropped(f, D)[v] = f[v]
      BY <1>1, <3>2 DEF Dropped
    <3> QED
      BY <2>1, <2>2, <3>3
  <2>3. CASE \E b \in D : Holder(b) = v
    <3>1. PICK c \in D : Holder(c) = v
      BY <2>3
    <3>2. \A b \in D : Holder(b) = v => b = c
      <4> SUFFICES ASSUME NEW b \in D, Holder(b) = v PROVE b = c
        OBVIOUS
      <4>1. mem[SlotAt(stk.leafs, b)] = mem[SlotAt(stk.leafs, c)]
        BY <1>2, <3>1
      <4>2. SlotAt(stk.leafs, b) = SlotAt(stk.leafs, c)
        BY <1>2, <4>1 DEF Holds
      <4> QED
        BY <4>2 DEF Apart
    <3>3. {b \in D : Holder(b) = v} = {c}
      BY <3>1, <3>2
    <3>4. Cardinality({b \in D : Holder(b) = v}) = 1
      BY <3>3, SmallSets
    <3>5. f[v] = "live"
      BY <1>2, <3>1
    <3>6. Dropped(f, D)[v] = "dropped"
      BY <1>1, <3>4, <3>5 DEF Dropped
    <3> QED
      BY <2>1, <2>3, <3>6
  <2> QED
    BY <2>2, <2>3
<1>4. Dropped(f, D) \in [All -> Fates]
  <2>1. \A v \in All : Dropped(f, D)[v] \in Fates
    BY <1>3 DEF Tame, Fates
  <2>2. Dropped(f, D) = [v \in All |-> Dropped(f, D)[v]]
    BY <1>1 DEF Dropped
  <2> QED
    BY <2>1, <2>2
<1> QED
  BY <1>3, <1>4 DEF Spent

(* The values in the slots X are handed over. *)
LEMMA GivenIs ==
  ASSUME NEW m, NEW f, NEW N, Tame(m, f, N), NEW O, O \subseteq 0 .. N - 1, Holds(m, f, O), NEW X, X \subseteq O
  PROVE  Spent(Given(f, {m[x] : x \in X}), f, m, X, "given")
<1>1. DOMAIN f = All
  BY DEF Tame
<1>2. \A x \in X : m[x] \in Values /\ f[m[x]] = "live"
  BY DEF Holds
<1>3. \A v \in All : Given(f, {m[x] : x \in X})[v] = IF \E x \in X : m[x] = v THEN "given" ELSE f[v]
  BY <1>1, <1>2 DEF Given
<1>4. Given(f, {m[x] : x \in X}) \in [All -> Fates]
  <2> DEFINE g == Given(f, {m[x] : x \in X})
  <2>1. \A v \in All : g[v] \in Fates
    BY <1>3 DEF Tame, Fates
  <2>2. g = [v \in All |-> g[v]]
    BY <1>1 DEF Given
  <2>3. g \in [All -> Fates]
    <3> HIDE DEF g
    <3> QED
      BY <2>1, <2>2
  <2> QED
    BY <2>3
<1> QED
  BY <1>3, <1>4 DEF Spent

(* A value is moved from the slots at a to the free ones at d. *)
Relocated(m2, m, a, d, n, N) ==
  m2 = [x \in 0 .. N - 1 |-> IF x \in d .. d + n - 1 THEN m[a + x - d] ELSE m[x]]

(* The memory after a move. *)
LEMMA CopyHolds ==
  ASSUME NEW m, NEW f, NEW N \in Nat, Tame(m, f, N), NEW O, O \subseteq 0 .. N - 1, Holds(m, f, O),
         NEW a \in Nat, NEW d \in Nat, NEW n \in Nat,
         a .. a + n - 1 \subseteq O, (d .. d + n - 1) \cap O = {}, d .. d + n - 1 \subseteq 0 .. N - 1,
         NEW m2, Relocated(m2, m, a, d, n, N)
  PROVE  Tame(m2, f, N) /\ Holds(m2, f, (O \ (a .. a + n - 1)) \cup d .. d + n - 1)
<1> DEFINE S == a .. a + n - 1
           T == d .. d + n - 1
<1>0. m2 = [x \in 0 .. N - 1 |-> IF x \in d .. d + n - 1 THEN m[a + x - d] ELSE m[x]]
  BY DEF Relocated
<1>1. \A x \in T : a + x - d \in S
  OBVIOUS
<1>2. \A x \in S : d + x - a \in T /\ a + (d + x - a) - d = x
  OBVIOUS
<1>3. \A x \in T : m2[x] = m[a + x - d]
  BY <1>0
<1>4. \A x \in O : m2[x] = m[x]
  BY <1>0
<1>5. \A x, y \in T : a + x - d = a + y - d => x = y
  OBVIOUS
<1>6. m2 \in [0 .. N - 1 -> All]
  <2>1. \A x \in T : m[a + x - d] \in All
    BY <1>1 DEF Tame
  <2>2. \A x \in 0 .. N - 1 : m[x] \in All
    BY DEF Tame
  <2> QED
    BY <1>0, <2>1, <2>2
<1>7. S \subseteq O /\ T \cap O = {}
  OBVIOUS
<1> HIDE DEF S, T
<1>8. Holds(m2, f, (O \ S) \cup T)
  <2>1. ASSUME NEW x \in (O \ S) \cup T PROVE m2[x] \in Values /\ f[m2[x]] = "live"
    <3>1. CASE x \in T
      <4>1. m2[x] = m[a + x - d] /\ a + x - d \in O
        BY <1>1, <1>3, <1>7, <3>1
      <4> QED
        BY <4>1 DEF Holds
    <3>2. CASE x \notin T
      BY <1>4, <3>2 DEF Holds
    <3> QED
      BY <3>1, <3>2
  <2>2. ASSUME NEW x \in (O \ S) \cup T, NEW y \in (O \ S) \cup T, m2[x] = m2[y] PROVE x = y
    <3>1. CASE x \in T /\ y \in T
      BY <1>1, <1>3, <1>5, <1>7, <2>2, <3>1 DEF Holds
    <3>2. CASE x \in T /\ y \notin T
      <4>1. m2[x] = m[a + x - d] /\ a + x - d \in S /\ a + x - d \in O /\ y \in O /\ y \notin S /\ m2[y] = m[y]
        BY <1>1, <1>3, <1>4, <1>7, <3>2
      <4> QED
        BY <2>2, <4>1 DEF Holds
    <3>3. CASE x \notin T /\ y \in T
      <4>1. m2[y] = m[a + y - d] /\ a + y - d \in S /\ a + y - d \in O /\ x \in O /\ x \notin S /\ m2[x] = m[x]
        BY <1>1, <1>3, <1>4, <1>7, <3>3
      <4> QED
        BY <2>2, <4>1 DEF Holds
    <3>4. CASE x \notin T /\ y \notin T
      BY <1>4, <2>2, <3>4 DEF Holds
    <3> QED
      BY <3>1, <3>2, <3>3, <3>4
  <2>3. ASSUME NEW v \in Values, f[v] = "live" PROVE \E x \in (O \ S) \cup T : m2[x] = v
    <3>1. PICK x \in O : m[x] = v
      BY <2>3 DEF Holds
    <3>2. CASE x \in S
      <4>1. d + x - a \in T /\ m2[d + x - a] = v
        BY <1>2, <1>3, <3>1, <3>2
      <4> QED
        BY <4>1
    <3>3. CASE x \notin S
      BY <1>4, <3>1, <3>3
    <3> QED
      BY <3>2, <3>3
  <2> QED
    BY <2>1, <2>2, <2>3 DEF Holds
<1> QED
  BY <1>6, <1>8 DEF Tame, S, T

Keeping(m2, m, O, N) == m2 \in [0 .. N - 1 -> All] /\ \A x \in O : m2[x] = m[x]

(* Slots that hold nothing change. *)
LEMMA OthersHold ==
  ASSUME NEW m, NEW f, NEW N, Tame(m, f, N), NEW O, Holds(m, f, O), NEW m2, Keeping(m2, m, O, N)
  PROVE  Tame(m2, f, N) /\ Holds(m2, f, O)
  BY DEF Tame, Holds, Keeping

(* A new value v in slot r. *)
Births(f, g) == \A u \in All : g[u] = f[u] \/ (f[u] = "unborn" /\ g[u] = "live")
Born(g, f, v) == f[v] = "unborn" /\ g = [f EXCEPT ![v] = "live"]
With(P, O, r) == r \notin O /\ P = O \cup {r}

(* The memory after a call that returned a value. *)
LEMMA NewHolds ==
  ASSUME NEW m, NEW f, NEW N, Tame(m, f, N), NEW O, Holds(m, f, O), NEW r \in 0 .. N - 1,
         NEW v \in Values, NEW m2, Keeping(m2, m, O, N), m2[r] = v, NEW g, Born(g, f, v), NEW P, With(P, O, r)
  PROVE  Tame(m2, g, N) /\ Holds(m2, g, P) /\ Births(f, g)
<1>0. /\ m2 \in [0 .. N - 1 -> All] /\ (\A x \in O : m2[x] = m[x])
      /\ f[v] = "unborn" /\ g = [f EXCEPT ![v] = "live"] /\ r \notin O /\ P = O \cup {r}
  BY DEF Keeping, Born, With
<1>1. /\ g \in [All -> Fates] /\ g[v] = "live" /\ \A u \in All : u # v => g[u] = f[u]
  BY <1>0, GarbageIsNoValue DEF Tame, Fates
<1>2. Tame(m2, g, N)
  BY <1>0, <1>1, GarbageIsNoValue DEF Tame
<1>3. \A x \in O : m[x] \in Values /\ m[x] # v /\ m2[x] = m[x]
  BY <1>0 DEF Holds
<1>4. Holds(m2, g, O \cup {r})
  <2>1. \A x \in O \cup {r} : m2[x] \in Values /\ g[m2[x]] = "live"
    BY <1>0, <1>1, <1>3, GarbageIsNoValue DEF Holds
  <2>2. \A x, y \in O \cup {r} : m2[x] = m2[y] => x = y
    BY <1>0, <1>3 DEF Holds
  <2>3. ASSUME NEW u \in Values, g[u] = "live" PROVE \E x \in O \cup {r} : m2[x] = u
    BY <1>0, <1>1, <2>3, GarbageIsNoValue DEF Holds
  <2> QED
    BY <2>1, <2>2, <2>3 DEF Holds
<1> QED
  BY <1>0, <1>1, <1>2, <1>4 DEF Births

(* The compiled function runs as outline R says and is in state s. *)
Runner(R, s, z) ==
  /\ Ready(R, code, stk.leafs, z, MaxSlots)
  /\ pc \in Nat /\ s \in R[pc] /\ s.flags = flags
  /\ Tame(mem, fate, MaxSlots) /\ Holds(mem, fate, s.owned)

(* What the next instruction may count on. *)
LEMMA AtFacts ==
  ASSUME NEW R, NEW s, NEW z, Runner(R, s, z)
  PROVE  /\ MaxSlots \in Nat /\ pc \in 0 .. Len(code) - 1 /\ Len(code) \in Nat
         /\ Safe(At, stk.leafs, s) /\ At.op # "Skipped" /\ s.flags = flags
         /\ s.owned \subseteq 0 .. MaxSlots - 1 /\ flags \subseteq 0 .. Len(stk.leafs) - 1 /\ Len(stk.leafs) \in Nat
         /\ \A t \in Nexts(At, pc) : /\ t \in Nat /\ After(At, stk.leafs, s) \in R[t]
                                     /\ After(At, stk.leafs, s).owned \subseteq 0 .. MaxSlots - 1
         /\ Tame(mem, fate, MaxSlots) /\ Holds(mem, fate, s.owned)
<1> DEFINE N == MaxSlots
           l == stk.leafs
<1>0. Ready(R, code, l, z, N) /\ pc \in Nat /\ s \in R[pc] /\ s.flags = flags
  BY DEF Runner
<1>9. Tame(mem, fate, N) /\ Holds(mem, fate, s.owned)
  BY DEF Runner
<1> HIDE DEF N, l
<1>1. /\ Outline(R, code, l, N) /\ N \in Nat /\ Len(l) \in Nat /\ IsSeq(code)
      /\ R[Len(code)] = {} /\ \A h \in 0 .. Len(code) - 1 : code[h + 1].op # "Skipped"
  BY <1>0 DEF Ready, Slotted
<1>2. R \in [Nat -> SUBSET State(l, N)] /\ \A k \in Nat : k > Len(code) => R[k] = {}
  BY <1>1, OutlineType
<1>3. Len(code) \in Nat
  BY <1>1, IsSeqFacts
<1>4. pc \in 0 .. Len(code) - 1
  BY <1>0, <1>1, <1>2, <1>3
<1>5. StepOk(R, At, pc, l) /\ At.op # "Skipped"
  BY <1>1, <1>4 DEF Outline, At
<1>6. s \in State(l, N)
  BY <1>0, <1>2
<1>7. s.owned \subseteq 0 .. N - 1 /\ flags \subseteq 0 .. Len(l) - 1
  BY <1>0, <1>6 DEF State
<1>8. Safe(At, l, s)
  BY <1>0, <1>5 DEF StepOk
<1>10. ASSUME NEW t \in Nexts(At, pc)
       PROVE  t \in Nat /\ After(At, l, s) \in R[t] /\ After(At, l, s).owned \subseteq 0 .. N - 1
  <2>1. t \in Nat /\ After(At, l, s) \in R[t]
    BY <1>0, <1>5 DEF StepOk
  <2>2. After(At, l, s) \in State(l, N)
    BY <1>2, <2>1
  <2> QED
    BY <2>1, <2>2 DEF State
<1> QED
  BY <1>0, <1>1, <1>3, <1>4, <1>5, <1>7, <1>8, <1>9, <1>10 DEF N, l

(* The value u of a variable changes as Ownership allows. *)
FatesGo == \A v \in All : \/ fate'[v] = fate[v]
                          \/ fate[v] = "unborn" /\ fate'[v] = "live"
                          \/ fate[v] = "live" /\ fate'[v] \in {"dropped", "given"}

(* The instruction has been executed as the outline says. *)
Carried1(R, s) ==
  /\ phase' = phase /\ pc' \in Nexts(At, pc) /\ After(At, stk.leafs, s).flags = flags'
  /\ Tame(mem', fate', MaxSlots) /\ Holds(mem', fate', After(At, stk.leafs, s).owned)
  /\ FatesGo

(* Jumps run as the outline says. *)
LEMMA JumpCarries ==
  ASSUME NEW R, NEW s, NEW z, Runner(R, s, z), ExecJump \/ ExecJumpF
  PROVE  Carried1(R, s)
<1>1. Tame(mem, fate, MaxSlots) /\ Holds(mem, fate, s.owned) /\ s.flags = flags
  BY AtFacts
<1>2. At.op \in {"Jump", "JumpF"} /\ phase' = phase /\ flags' = flags /\ mem' = mem /\ fate' = fate
  BY DEF ExecJump, ExecJumpF, Running
<1>3. After(At, stk.leafs, s) = s
  BY <1>2 DEF After
<1>4. pc' \in Nexts(At, pc)
  <2>1. CASE ExecJump
    BY <2>1 DEF ExecJump, Running, Nexts
  <2>2. CASE ExecJumpF
    BY <2>2 DEF ExecJumpF, Running, Nexts
  <2> QED
    BY <2>1, <2>2
<1>5. FatesGo
  BY <1>2 DEF FatesGo
<1> QED
  BY <1>1, <1>2, <1>3, <1>4, <1>5 DEF Carried1

(* So do the positions of straight instructions. *)
LEMMA AdvanceNext ==
  ASSUME Straight(At), Advance
  PROVE  phase' = phase /\ pc' \in Nexts(At, pc)
  BY NextsStraight DEF Advance

(* Copy runs as the outline says. *)
LEMMA CopyCarries ==
  ASSUME NEW R, NEW s, NEW z, Runner(R, s, z), ExecCopy
  PROVE  Carried1(R, s)
<1>1. At.op = "Copy" /\ Advance /\ flags' = flags /\ fate' = fate
  BY DEF ExecCopy, Running
<1>2. Straight(At) /\ phase' = phase /\ pc' \in Nexts(At, pc)
  BY <1>1, AdvanceNext DEF Straight
<1>3. /\ Tame(mem, fate, MaxSlots) /\ Holds(mem, fate, s.owned) /\ s.flags = flags /\ MaxSlots \in Nat
      /\ Safe(At, stk.leafs, s) /\ s.owned \subseteq 0 .. MaxSlots - 1
      /\ After(At, stk.leafs, s).owned \subseteq 0 .. MaxSlots - 1
  BY <1>2, AtFacts
<1>4. /\ At.src \in Nat /\ At.dst \in Nat /\ At.n \in Nat
      /\ Sources(At) \subseteq s.owned /\ Targets(At) \cap s.owned = {}
  BY <1>1, <1>3 DEF Safe
<1>5. After(At, stk.leafs, s) = [flags |-> s.flags, owned |-> (s.owned \ Sources(At)) \cup Targets(At)]
  BY <1>1 DEF After
<1>6. mem' = [x \in 0 .. MaxSlots - 1 |-> IF x \in At.dst .. At.dst + At.n - 1
                                          THEN mem[At.src + x - At.dst] ELSE mem[x]]
  BY DEF ExecCopy, Slots
<1>7. Tame(mem', fate, MaxSlots) /\ Holds(mem', fate, (s.owned \ Sources(At)) \cup Targets(At))
  <2> DEFINE N == MaxSlots
             O == s.owned
             a == At.src
             d == At.dst
             n == At.n
             m2 == mem'
  <2>1. /\ a .. a + n - 1 \subseteq O /\ (d .. d + n - 1) \cap O = {} /\ d .. d + n - 1 \subseteq 0 .. N - 1
        /\ a \in Nat /\ d \in Nat /\ n \in Nat /\ N \in Nat
        /\ Sources(At) = a .. a + n - 1 /\ Targets(At) = d .. d + n - 1
    BY <1>3, <1>4, <1>5 DEF Sources, Targets
  <2>2. Relocated(m2, mem, a, d, n, N)
    BY <1>6 DEF Relocated
  <2>3. Tame(mem, fate, N) /\ Holds(mem, fate, O) /\ O \subseteq 0 .. N - 1
    BY <1>3
  <2> HIDE DEF N, O, a, d, n, m2
  <2>4. Tame(m2, fate, N) /\ Holds(m2, fate, (O \ (a .. a + n - 1)) \cup d .. d + n - 1)
    BY <2>1, <2>2, <2>3, CopyHolds
  <2> QED
    BY <2>1, <2>4 DEF N, O, m2
<1>8. FatesGo
  BY <1>1 DEF FatesGo
<1> QED
  BY <1>1, <1>2, <1>3, <1>5, <1>7, <1>8 DEF Carried1

(* Const runs as the outline says: it overwrites no value. *)
LEMMA ConstCarries ==
  ASSUME NEW R, NEW s, NEW z, Runner(R, s, z), ExecConst
  PROVE  Carried1(R, s)
<1>1. At.op = "Const" /\ Advance /\ flags' = flags /\ fate' = fate /\ mem' = [mem EXCEPT ![At.dst] = Garbage]
  BY DEF ExecConst, Running
<1>2. Straight(At) /\ phase' = phase /\ pc' \in Nexts(At, pc)
  BY <1>1, AdvanceNext DEF Straight
<1>3. /\ Tame(mem, fate, MaxSlots) /\ Holds(mem, fate, s.owned) /\ s.flags = flags
      /\ Safe(At, stk.leafs, s) /\ s.owned \subseteq 0 .. MaxSlots - 1
  BY AtFacts
<1>4. At.dst \notin s.owned
  BY <1>1, <1>3 DEF Safe
<1>5. After(At, stk.leafs, s) = s
  BY <1>1 DEF After
<1>6. mem \in [0 .. MaxSlots - 1 -> All]
  BY <1>3 DEF Tame
<1>7. mem' \in [0 .. MaxSlots - 1 -> All] /\ \A x \in s.owned : mem'[x] = mem[x]
  <2> DEFINE N == MaxSlots
             d == At.dst
  <2>1. mem \in [0 .. N - 1 -> All] /\ mem' = [mem EXCEPT ![d] = Garbage] /\ d \notin s.owned
    BY <1>1, <1>4, <1>6
  <2>2. s.owned \subseteq 0 .. N - 1
    BY <1>3
  <2> HIDE DEF N, d
  <2>3. mem' \in [0 .. N - 1 -> All]
    BY <2>1, GarbageIsNoValue
  <2>4. \A x \in s.owned : mem'[x] = mem[x]
    BY <2>1, <2>2
  <2> QED
    BY <2>3, <2>4 DEF N
<1>8. Tame(mem', fate, MaxSlots) /\ Holds(mem', fate, s.owned)
  <2> DEFINE N == MaxSlots
             m2 == mem'
  <2>1. Keeping(m2, mem, s.owned, N)
    BY <1>7 DEF Keeping
  <2>2. Tame(mem, fate, N) /\ Holds(mem, fate, s.owned)
    BY <1>3
  <2> HIDE DEF N, m2
  <2>3. Tame(m2, fate, N) /\ Holds(m2, fate, s.owned)
    BY <2>1, <2>2, OthersHold
  <2> QED
    BY <2>3 DEF N, m2
<1>9. FatesGo
  BY <1>1 DEF FatesGo
<1> QED
  BY <1>1, <1>2, <1>3, <1>5, <1>8, <1>9 DEF Carried1

(* LocalInit and LocalMove run as the outline says: they do not panic. *)
LEMMA FlagsCarry ==
  ASSUME NEW R, NEW s, NEW z, Runner(R, s, z), ExecLocalInit \/ ExecLocalMove
  PROVE  Carried1(R, s)
<1>1. At.op \in {"LocalInit", "LocalMove"}
  BY DEF ExecLocalInit, ExecLocalMove, Running
<1>2. /\ Tame(mem, fate, MaxSlots) /\ Holds(mem, fate, s.owned) /\ s.flags = flags
      /\ Safe(At, stk.leafs, s)
  BY AtFacts
<1>3. /\ Advance /\ mem' = mem /\ fate' = fate
      /\ flags' = IF At.op = "LocalInit" THEN flags \cup Range(At) ELSE flags \ Range(At)
  <2>1. CASE ExecLocalInit
    BY <1>2, <2>1 DEF Safe, ExecLocalInit, Running
  <2>2. CASE ExecLocalMove
    BY <1>2, <2>2 DEF Safe, ExecLocalMove, Running
  <2> QED
    BY <2>1, <2>2
<1>4. Straight(At) /\ phase' = phase /\ pc' \in Nexts(At, pc)
  BY <1>1, <1>3, AdvanceNext DEF Straight
<1>5. After(At, stk.leafs, s).flags = flags' /\ After(At, stk.leafs, s).owned = s.owned
  BY <1>1, <1>2, <1>3 DEF After
<1>6. FatesGo
  BY <1>3 DEF FatesGo
<1> QED
  BY <1>2, <1>3, <1>4, <1>5, <1>6 DEF Carried1

(* LocalDrop and LocalDropInit run as the outline says: each value is dropped *)
(* once.                                                                      *)
LEMMA DropCarries ==
  ASSUME NEW R, NEW s, NEW z, Runner(R, s, z), ExecLocalDrop \/ ExecLocalDropInit
  PROVE  Carried1(R, s)
<1> DEFINE N == MaxSlots
           D == Range(At) \cap flags
           l == stk.leafs
           g == Dropped(fate, D)
           O == s.owned
<1>1. At.op \in {"LocalDrop", "LocalDropInit"}
  BY DEF ExecLocalDrop, ExecLocalDropInit, Running
<1>2. /\ Tame(mem, fate, N) /\ Holds(mem, fate, O) /\ s.flags = flags
      /\ Safe(At, l, s) /\ O \subseteq 0 .. N - 1
  BY AtFacts
<1>3. /\ Advance /\ mem' = mem /\ fate' = g
      /\ flags' = IF At.op = "LocalDrop" THEN flags \ Range(At) ELSE flags \cup Range(At)
  BY DEF ExecLocalDrop, ExecLocalDropInit, Running
<1>4. Straight(At) /\ phase' = phase /\ pc' \in Nexts(At, pc)
  BY <1>1, <1>3, AdvanceNext DEF Straight
<1>5. Apart(l, flags) /\ SlotsOf(l, flags) \subseteq O
  BY <1>1, <1>2 DEF Safe, Clean
<1>6. Apart(l, D) /\ SlotsOf(l, D) \subseteq O
  BY <1>5 DEF Apart, SlotsOf
<1>7. /\ After(At, l, s).flags = flags' /\ After(At, l, s).owned = O \ SlotsOf(l, D)
  <2>1. s.flags \cap Range(At) = D
    BY <1>2
  <2> HIDE DEF D, l, O
  <2> QED
    BY <1>1, <1>2, <1>3, <2>1 DEF After, O
<1>8. Spent(g, fate, mem, SlotsOf(l, D), "dropped")
  <2> HIDE DEF N, D, O
  <2>1. Tame(mem, fate, N) /\ O \subseteq 0 .. N - 1 /\ Holds(mem, fate, O)
        /\ Apart(stk.leafs, D) /\ SlotsOf(stk.leafs, D) \subseteq O
    BY <1>2, <1>6
  <2>2. Spent(Dropped(fate, D), fate, mem, SlotsOf(stk.leafs, D), "dropped")
    BY <2>1, DroppedIs
  <2> QED
    BY <2>2
<1> HIDE DEF N, D, O, l, g
<1>9. Tame(mem, g, N) /\ Holds(mem, g, O \ SlotsOf(l, D)) /\ Spends(fate, g)
  <2> DEFINE P == O \ SlotsOf(l, D)
  <2>1. Leaves(P, O, SlotsOf(l, D)) /\ Ends1("dropped")
    BY <1>6 DEF Leaves, Ends1
  <2> HIDE DEF P
  <2>2. Tame(mem, fate, N) /\ O \subseteq 0 .. N - 1 /\ Holds(mem, fate, O) /\ Leaves(P, O, SlotsOf(l, D))
        /\ Spent(g, fate, mem, SlotsOf(l, D), "dropped") /\ Ends1("dropped")
    BY <1>2, <1>8, <2>1
  <2>3. Tame(mem, g, N) /\ Holds(mem, g, P) /\ Spends(fate, g)
    BY <2>2, SpentHolds
  <2> QED
    BY <2>3 DEF P
<1>10. FatesGo
  BY <1>3, <1>9 DEF FatesGo, Spends
<1> QED
  BY <1>3, <1>4, <1>7, <1>9, <1>10 DEF Carried1, N, l

(* The slots that the callee leaves alone. *)
Clobber(m, k, r, N) == [x \in 0 .. N - 1 |-> IF x < k THEN m[x] ELSE IF x = k THEN r ELSE Garbage]

(* The callee leaves alone what is below its frame. *)
LEMMA ClobberFacts ==
  ASSUME NEW N, NEW m \in [0 .. N - 1 -> All], NEW k, NEW r \in All, NEW O, O \subseteq 0 .. N - 1, \A x \in O : x < k,
         NEW m2, m2 = Clobber(m, k, r, N)
  PROVE  Keeping(m2, m, O, N) /\ (k \in 0 .. N - 1 /\ N \in Int => m2[k] = r)
  BY GarbageIsNoValue DEF Clobber, Keeping

(* Calls run as the outline says: arguments are given away, and no value is   *)
(* in the callee's frame.                                                     *)
LEMMA CallCarries ==
  ASSUME NEW R, NEW s, NEW z, Runner(R, s, z), ExecCall
  PROVE  Carried1(R, s)
<1> DEFINE N == MaxSlots
           l == stk.leafs
           X == At.args
           g == Given(fate, {mem[a] : a \in At.args})
           O == s.owned
           k == At.frame
<1>1. At.op = "Call" /\ Advance /\ flags' = flags
  BY DEF ExecCall, Running
<1>2. Straight(At) /\ phase' = phase /\ pc' \in Nexts(At, pc)
  BY <1>1, AdvanceNext DEF Straight
<1>3. /\ Tame(mem, fate, N) /\ Holds(mem, fate, O) /\ s.flags = flags /\ N \in Nat
      /\ Safe(At, l, s) /\ O \subseteq 0 .. N - 1 /\ After(At, l, s).owned \subseteq 0 .. N - 1
  BY <1>2, AtFacts
<1>4. X \subseteq O /\ \A x \in O \ X : x < k
  BY <1>1, <1>3 DEF Safe
<1>5. /\ After(At, l, s).flags = flags'
      /\ After(At, l, s).owned = (O \ X) \cup IF At.ret THEN {k} ELSE {}
  BY <1>1, <1>3 DEF After
<1>6. Spent(g, fate, mem, X, "given")
  <2> HIDE DEF N, O, X
  <2>1. Tame(mem, fate, N) /\ O \subseteq 0 .. N - 1 /\ Holds(mem, fate, O) /\ X \subseteq O
    BY <1>3, <1>4
  <2>2. Spent(Given(fate, {mem[x] : x \in X}), fate, mem, X, "given")
    BY <2>1, GivenIs
  <2> QED
    BY <2>2 DEF X
<1>7. IF At.ret
      THEN \E v \in Values : fate[v] = "unborn" /\ mem' = Clobber(mem, k, v, N) /\ fate' = [g EXCEPT ![v] = "live"]
      ELSE mem' = Clobber(mem, k, Garbage, N) /\ fate' = g
  <2>1. CASE At.ret
    BY <2>1 DEF ExecCall, Clobber, Slots
  <2>2. CASE ~At.ret
    BY <2>2 DEF ExecCall, Clobber, Slots
  <2> QED
    BY <2>1, <2>2
<1> HIDE DEF N, l, X, g, O, k
<1> DEFINE P == O \ X
<1>11. Leaves(P, O, X) /\ Ends1("given")
  BY <1>4 DEF Leaves, Ends1
<1>9. mem \in [0 .. N - 1 -> All] /\ P \subseteq 0 .. N - 1 /\ \A x \in P : x < k
  BY <1>3, <1>4 DEF Tame
<1>12. After(At, l, s).owned = P \cup IF At.ret THEN {k} ELSE {}
  BY <1>5
<1> HIDE DEF P
<1>8. Tame(mem, g, N) /\ Holds(mem, g, P) /\ Spends(fate, g)
  <2>1. Tame(mem, fate, N) /\ O \subseteq 0 .. N - 1 /\ Holds(mem, fate, O) /\ Leaves(P, O, X)
        /\ Spent(g, fate, mem, X, "given") /\ Ends1("given")
    BY <1>3, <1>6, <1>11
  <2> QED
    BY <2>1, SpentHolds
<1>10. Tame(mem', fate', N) /\ Holds(mem', fate', After(At, l, s).owned) /\ FatesGo
  <2>1. CASE ~At.ret
    <3>1. mem' = Clobber(mem, k, Garbage, N) /\ fate' = g /\ After(At, l, s).owned = P
      BY <1>7, <1>12, <2>1
    <3>2. Garbage \in All
      BY GarbageIsNoValue
    <3> DEFINE m2 == mem'
    <3>3. m2 = Clobber(mem, k, Garbage, N)
      BY <3>1
    <3> HIDE DEF m2
    <3>4. Keeping(m2, mem, P, N)
      BY <1>9, <3>2, <3>3, ClobberFacts
    <3>5. Tame(m2, g, N) /\ Holds(m2, g, P)
      BY <1>8, <3>4, OthersHold
    <3>6. FatesGo
      BY <1>8, <3>1 DEF FatesGo, Spends
    <3> QED
      BY <3>1, <3>5, <3>6 DEF m2
  <2>2. CASE At.ret
    <3>1. PICK v \in Values : fate[v] = "unborn" /\ mem' = Clobber(mem, k, v, N) /\ fate' = [g EXCEPT ![v] = "live"]
      BY <1>7, <2>2
    <3>2. After(At, l, s).owned = P \cup {k} /\ k \in 0 .. N - 1
      <4>1. After(At, l, s).owned = P \cup {k}
        BY <1>12, <2>2
      <4> QED
        BY <1>3, <4>1
    <3>3. v \in All /\ g[v] = "unborn" /\ k \notin P
      <4>1. v \in All
        BY GarbageIsNoValue
      <4>2. g[v] = "unborn"
        BY <1>8, <3>1, <4>1 DEF Spends
      <4>3. k \in Int
        BY <1>3, <3>2
      <4>4. k \notin P
        <5>1. ~(k < k)
          BY <4>3
        <5> QED
          BY <1>9, <5>1
      <4> QED
        BY <4>1, <4>2, <4>4
    <3> DEFINE m2 == mem'
               h == fate'
    <3>4. m2 = Clobber(mem, k, v, N) /\ h = [g EXCEPT ![v] = "live"]
      BY <3>1
    <3> HIDE DEF m2, h
    <3>5. Keeping(m2, mem, P, N) /\ (k \in 0 .. N - 1 /\ N \in Int => m2[k] = v)
      <4>1. v \in All /\ m2 = Clobber(mem, k, v, N)
        BY <3>3, <3>4
      <4> QED
        BY <1>9, <4>1, ClobberFacts
    <3>6. m2[k] = v
      BY <1>3, <3>2, <3>5
    <3> DEFINE Q == P \cup {k}
    <3>9. With(Q, P, k) /\ Born(h, g, v)
      BY <3>3, <3>4 DEF With, Born
    <3> HIDE DEF Q
    <3>10. Tame(mem, g, N) /\ Holds(mem, g, P) /\ k \in 0 .. N - 1 /\ v \in Values /\ Keeping(m2, mem, P, N)
           /\ m2[k] = v /\ Born(h, g, v) /\ With(Q, P, k)
      BY <1>8, <3>1, <3>2, <3>5, <3>6, <3>9
    <3>7. Tame(m2, h, N) /\ Holds(m2, h, Q) /\ Births(g, h)
      BY <3>10, NewHolds
    <3>8. FatesGo
      BY <1>8, <3>7 DEF FatesGo, h, Births, Spends
    <3>11. After(At, l, s).owned = Q
      BY <3>2 DEF Q
    <3> QED
      BY <3>7, <3>8, <3>11 DEF m2, h
  <2> QED
    BY <2>1, <2>2
<1> QED
  BY <1>2, <1>5, <1>10 DEF Carried1, N, l

(* Return: the result is given away and what is still flagged is dropped. *)
LEMMA ReturnEnds ==
  ASSUME NEW R, NEW s, NEW z, Runner(R, s, z), ExecReturn
  PROVE  /\ phase' = "returned" /\ flags' = {} /\ pc' = pc /\ mem' = mem
         /\ Tame(mem', fate', MaxSlots) /\ FatesGo /\ \A v \in All : fate'[v] # "live"
<1> DEFINE N == MaxSlots
           l == stk.leafs
           O == s.owned
           X == Result(At)
           D == flags
           g == Given(fate, {mem[x] : x \in X})
           h == Dropped(g, D)
<1>1. /\ At.op = "Return" /\ phase' = "returned" /\ flags' = {} /\ pc' = pc /\ mem' = mem
      /\ fate' = Dropped(Given(fate, IF At.dst = NoSlot THEN {} ELSE {mem[At.dst]}), flags)
  BY DEF ExecReturn, Running
<1>2. {mem[x] : x \in X} = IF At.dst = NoSlot THEN {} ELSE {mem[At.dst]}
  BY DEF Result
<1>3. fate' = h
  BY <1>1, <1>2
<1>4. /\ Tame(mem, fate, N) /\ Holds(mem, fate, O) /\ s.flags = D
      /\ Safe(At, l, s) /\ O \subseteq 0 .. N - 1
  BY AtFacts
<1>5. /\ O = SlotsOf(l, D) \cup X /\ X \cap SlotsOf(l, D) = {} /\ Apart(l, D)
  BY <1>1, <1>4 DEF Safe, Clean
<1> HIDE DEF N, O, X, D
<1>6. Spent(g, fate, mem, X, "given")
  <2>1. Tame(mem, fate, N) /\ O \subseteq 0 .. N - 1 /\ Holds(mem, fate, O) /\ X \subseteq O
    BY <1>4, <1>5
  <2> QED
    BY <2>1, GivenIs
<1> HIDE DEF g
<1> DEFINE P == O \ X
           Q == {}
<1>14. Leaves(P, O, X) /\ Ends1("given") /\ Ends1("dropped") /\ Leaves(Q, P, SlotsOf(l, D))
  BY <1>5 DEF Leaves, Ends1
<1>8. P = SlotsOf(l, D) /\ P \subseteq 0 .. N - 1
  BY <1>4, <1>5
<1> HIDE DEF P, Q
<1>7. Tame(mem, g, N) /\ Holds(mem, g, P) /\ Spends(fate, g)
  <2>1. Tame(mem, fate, N) /\ O \subseteq 0 .. N - 1 /\ Holds(mem, fate, O) /\ Leaves(P, O, X)
        /\ Spent(g, fate, mem, X, "given") /\ Ends1("given")
    BY <1>4, <1>6, <1>14
  <2> QED
    BY <2>1, SpentHolds
<1>10. Spent(h, g, mem, SlotsOf(l, D), "dropped")
  <2>1. Tame(mem, g, N) /\ P \subseteq 0 .. N - 1 /\ Holds(mem, g, P)
        /\ Apart(stk.leafs, D) /\ SlotsOf(stk.leafs, D) \subseteq P
    BY <1>5, <1>7, <1>8
  <2>2. Spent(Dropped(g, D), g, mem, SlotsOf(stk.leafs, D), "dropped")
    BY <2>1, DroppedIs
  <2> QED
    BY <2>2
<1> HIDE DEF h, l
<1>11. Tame(mem, h, N) /\ Holds(mem, h, Q) /\ Spends(g, h)
  <2>1. Tame(mem, g, N) /\ P \subseteq 0 .. N - 1 /\ Holds(mem, g, P) /\ Leaves(Q, P, SlotsOf(l, D))
        /\ Spent(h, g, mem, SlotsOf(l, D), "dropped") /\ Ends1("dropped")
    BY <1>7, <1>8, <1>10, <1>14
  <2> QED
    BY <2>1, SpentHolds
<1>12. \A v \in All : h[v] # "live"
  <2>1. ASSUME NEW v \in Values PROVE h[v] # "live"
    BY <1>11 DEF Holds, Q
  <2>2. h[Garbage] = "garbage"
    BY <1>11, GarbageIsNoValue DEF Tame
  <2> QED
    BY <2>1, <2>2 DEF All
<1>13. FatesGo
  BY <1>3, <1>7, <1>11 DEF FatesGo, Spends
<1> QED
  BY <1>1, <1>3, <1>11, <1>12, <1>13 DEF N

(* The empty stack, and the slot of the result. *)
LEMMA EmptyOk ==
  ASSUME NEW N \in Nat, N >= 4
  PROVE  IsStack(EmptyStack, 0, N) /\ IsStack(AllocPlain(EmptyStack, 1), 1, N)
         /\ EmptyStack.top = 0 /\ AllocPlain(EmptyStack, 1).top = 1
         /\ Len(EmptyStack.leafs) = 0 /\ Len(AllocPlain(EmptyStack, 1).leafs) = 0
         /\ EmptyStack.first = 0 /\ AllocPlain(EmptyStack, 1).first = 0
<1> DEFINE e == EmptyStack
           u == AllocPlain(EmptyStack, 1)
<1>1. /\ e = [top |-> e.top, entries |-> e.entries, leafs |-> e.leafs, first |-> e.first, dropped |-> e.dropped]
      /\ e.top = 0 /\ e.leafs = <<>> /\ e.first = 0 /\ e.dropped = {}
  BY DEF EmptyStack
<1>2. Len(<<>>) = 0 /\ IsSeq(<<>>)
  BY Literals
<1> HIDE DEF e
<1>3. Bits(e) = {} /\ Pending(e) = {}
  BY <1>1, <1>2 DEF Bits, Pending
<1>4. IsStack(e, 0, N)
  <2>1. Slotted(e.leafs, 0, N)
    BY <1>1, <1>2 DEF Slotted
  <2>2. Apart(e.leafs, Pending(e)) /\ (\A b \in Pending(e) : SlotAt(e.leafs, b) < e.top) /\ e.dropped \subseteq Bits(e)
    BY <1>1, <1>3 DEF Apart
  <2>3. e.top \in 0 .. N /\ e.first \in 0 .. Len(e.leafs) /\ IsSeq(e.leafs)
    BY <1>1, <1>2
  <2> QED
    BY <1>1, <2>1, <2>2, <2>3 DEF IsStack
<1> HIDE DEF u
<1>5. Trimmed(e, u, 1, 0, {})
  <2>1. Trimmed(e, AllocPlain(e, 1), e.top + 1, e.first, {})
    BY <1>4, TrimFacts
  <2>2. AllocPlain(e, 1) = u
    BY DEF e, u
  <2> QED
    BY <1>1, <2>1, <2>2
<1>6. /\ u = [top |-> u.top, entries |-> u.entries, leafs |-> u.leafs, first |-> u.first, dropped |-> u.dropped]
      /\ u.top = 1 /\ u.leafs = <<>> /\ u.first = 0 /\ u.dropped = {}
  BY <1>1, <1>5 DEF Trimmed
<1>7. Bits(u) = {} /\ Pending(u) = {}
  BY <1>2, <1>6 DEF Bits, Pending
<1>8. IsStack(u, 1, N)
  <2>1. Slotted(u.leafs, 1, N)
    BY <1>2, <1>6 DEF Slotted
  <2>2. Apart(u.leafs, Pending(u)) /\ (\A b \in Pending(u) : SlotAt(u.leafs, b) < u.top) /\ u.dropped \subseteq Bits(u)
    BY <1>6, <1>7 DEF Apart
  <2>3. u.top \in 1 .. N /\ u.first \in 0 .. Len(u.leafs) /\ IsSeq(u.leafs)
    BY <1>2, <1>6
  <2> QED
    BY <1>6, <2>1, <2>2, <2>3 DEF IsStack
<1> QED
  BY <1>1, <1>2, <1>4, <1>6, <1>8 DEF e, u

(* The block of the body. *)
Outermost(b, s, f) ==
  b = Record(b.kind, Saved(s), Saved(s), 1, Len(s.leafs), 0, NoPlace, 0, {}, f, Unreachable) /\ b.kind \in Bottom

(* The parameter is in slot z, and drop bit 0 stands for it. *)
Entered(s, u, x, z, N) ==
  /\ IsStack(s, z, N) /\ IsStack(u, z, N) /\ s.top = z + 1 /\ s.first = 0 /\ Len(s.leafs) = 1
  /\ u.leafs = s.leafs /\ u.top = z + 1 /\ u.first = 1 /\ (\A y : y \in Pending(u) <=> y = 0)
  /\ SlotAt(s.leafs, 0) = z /\ LocalOk(x, u) /\ x.lo = 0 /\ x.n = 1 /\ x.slot = z

(* The stack when the parameter has been registered. *)
LEMMA EnteredIs ==
  ASSUME NEW N \in Nat, N >= 4, NEW s0, NEW z \in {0, 1}, IsStack(s0, z, N), s0.top = z, Len(s0.leafs) = 0, s0.first = 0
  PROVE  Entered(AllocVal(s0, 1), PushScope(AllocVal(s0, 1)), Newest(AllocVal(s0, 1), 1), z, N)
<1> DEFINE s == AllocVal(s0, 1)
           u == PushScope(s)
           x == Newest(s, 1)
<1>1. Allocated(s0, 1, s)
  BY AllocFacts
<1> HIDE DEF s
<1>2. /\ IsStack(s, z, N) /\ s.first = s0.first /\ s.top = s0.top + 1
      /\ Len(s.leafs) = Len(s0.leafs) + 1
      /\ \A y : y \in Pending(s) <=> y \in Pending(s0) \/ y \in Len(s0.leafs) .. Len(s0.leafs) + 1 - 1
      /\ Newest(s, 1) = [slot |-> s0.top, lo |-> Len(s0.leafs), n |-> 1]
      /\ LocalOk(Newest(s, 1), s)
  <2> DEFINE w == 1
  <2>1. w \in {1, 2} /\ s0.top + w <= N /\ Allocated(s0, w, s)
    BY <1>1
  <2> HIDE DEF w
  <2>2. /\ IsStack(s, z, N) /\ s.first = s0.first /\ s.top = s0.top + w
        /\ Len(s.leafs) = Len(s0.leafs) + w
        /\ (\A y : y \in Pending(s) <=> y \in Pending(s0) \/ y \in Len(s0.leafs) .. Len(s0.leafs) + w - 1)
        /\ Newest(s, w) = [slot |-> s0.top, lo |-> Len(s0.leafs), n |-> w]
        /\ LocalOk(Newest(s, w), s)
    BY <2>1, AllocatedOk
  <2> QED
    BY <2>2 DEF w
<1>3. Pending(s0) = {}
  BY DEF Pending, Bits
<1>4. \A y : y \in Pending(s) <=> y = 0
  BY <1>2, <1>3
<1>5. s.top = z + 1 /\ s.first = 0 /\ Len(s.leafs) = 1 /\ x.lo = 0 /\ x.n = 1 /\ x.slot = z /\ LocalOk(x, s)
  BY <1>2
<1>6. SlotAt(s.leafs, 0) = z
  <2>1. SlotAt(s.leafs, x.lo + x.n - 1) = x.slot + 1 - 1
    BY <1>5 DEF LocalOk
  <2> QED
    BY <1>5, <2>1
<1> HIDE DEF u, x
<1>7. Trimmed(s, u, s.top, Len(s.leafs), {})
  BY <1>2, TrimFacts DEF u
<1>8. IsStack(u, z, N) /\ u.leafs = s.leafs /\ u.top = s.top /\ u.first = Len(s.leafs)
      /\ \A y : y \in Pending(u) <=> y \in Pending(s)
  <2> DEFINE X == {}
             t == s.top
             m == Len(s.leafs)
  <2>1. /\ t \in z .. N /\ m \in 0 .. Len(s.leafs) /\ X \subseteq Bits(s)
        /\ \A b \in Pending(s) : b \in X \/ SlotAt(s.leafs, b) < t
    BY <1>2, StackFacts
  <2>2. Trimmed(s, u, t, m, X)
    BY <1>7
  <2>4. IsStack(s, z, N)
    BY <1>2
  <2> HIDE DEF X, t, m
  <2>3. IsStack(u, z, N) /\ u.leafs = s.leafs /\ u.top = t /\ u.first = m
        /\ \A y : y \in Pending(u) <=> y \in Pending(s) /\ y \notin X
    BY <2>1, <2>2, <2>4, TrimmedOk
  <2> QED
    BY <2>3 DEF X, t, m
<1>9. LocalOk(x, u)
  BY <1>5, <1>8 DEF LocalOk
<1> QED
  BY <1>2, <1>4, <1>5, <1>6, <1>8, <1>9 DEF Entered, s, u, x

(* The scopes at the start. *)
LEMMA EnteredScoped ==
  ASSUME NEW s, NEW u, NEW x, NEW z, NEW N, NEW W, W \in Nat, W >= 2, Entered(s, u, x, z, N), NEW b, Outermost(b, s, Reach({0}, {0}))
  PROVE  Scoped(u, <<x>>, <<b>>, Reach({0}, {0}), z, N, W)
<1> DEFINE f == Reach({0}, {0})
           ls == <<x>>
           bs == <<b>>
<1>1. /\ IsStack(s, z, N) /\ IsStack(u, z, N) /\ s.top = z + 1 /\ s.first = 0 /\ Len(s.leafs) = 1
      /\ u.leafs = s.leafs /\ u.top = z + 1 /\ u.first = 1 /\ (\A y : y \in Pending(u) <=> y = 0)
      /\ SlotAt(s.leafs, 0) = z /\ LocalOk(x, u) /\ x.lo = 0 /\ x.n = 1 /\ x.slot = z
  BY DEF Entered
<1>2. z \in Nat /\ N \in Nat
  BY <1>1, StackFacts
<1>3. /\ IsRecord(b) /\ b.kind \in Bottom /\ b.stmt = Saved(s) /\ b.scope = Saved(s) /\ b.nlocals = 1
      /\ b.nbits = Len(s.leafs) /\ b.start = 0 /\ b.breaks = {} /\ b.entry = f /\ b.exit = Unreachable
  BY DEF Outermost, Record, IsRecord
<1>4. Saved(s).top = z + 1 /\ Saved(s).first = 0
  BY <1>1 DEF Saved
<1>5. IsFlow(f) /\ IsFlow(Unreachable) /\ f.may = {0} /\ f.reach /\ Unreachable.may = {}
  BY DEF IsFlow, Reach, Unreachable
<1>6. IsSeq(ls) /\ Len(ls) = 1 /\ ls[1] = x /\ IsSeq(bs) /\ Len(bs) = 1 /\ bs[1] = b
  BY Literals
<1> HIDE DEF f, ls, bs
<1>7. LocalsOk(ls, u, W)
  BY <1>1, <1>6 DEF LocalsOk
<1>8. IsBlock(b)
  BY <1>1, <1>2, <1>3, <1>4, <1>5, BlockIsRecord
<1>9. Nested(b, u.first, u.top, u, ls, z)
  <2>1. b.kind \notin {"match", "guarded", "letloop"}
    BY <1>3 DEF Bottom
  <2>2. \A j \in 1 .. Len(ls) : j = 1 /\ ls[j].lo + ls[j].n = 1
    BY <1>1, <1>6
  <2>3. \A y \in Pending(u) : y = 0 /\ SlotAt(u.leafs, y) = z
    BY <1>1
  <2>4. /\ b.stmt.first = 0 /\ b.nbits = 1 /\ u.first = 1 /\ Len(u.leafs) = 1 /\ b.stmt.top = z + 1
        /\ b.scope.top = z + 1 /\ u.top = z + 1 /\ b.scope.first = 0 /\ b.nlocals = 1
        /\ b.entry.reach /\ b.entry.may = {0} /\ b.exit.may = {}
    BY <1>1, <1>3, <1>4, <1>5
  <2>5. b.kind \in Bottom => b.kind \in {"letloop", "void", "returns"}
    BY DEF Bottom
  <2>6. 0 \in Pending(u)
    BY <1>1
  <2> QED
    BY <1>2, <1>3, <1>6, <1>8, <2>1, <2>2, <2>3, <2>4, <2>5, <2>6 DEF Nested
<1>10. BlocksOk(bs, u, ls, z)
  <2>1. InnerFirst(bs, u, 1) = u.first /\ InnerTop(bs, u, 1) = u.top
    BY <1>6 DEF InnerFirst, InnerTop
  <2> QED
    BY <1>3, <1>6, <1>9, <2>1 DEF BlocksOk
<1>11. FlowOk(f, bs, u, ls)
  <2>1. Fits(f, b, ls)
    BY <1>3 DEF Fits, Knows
  <2> QED
    BY <1>1, <1>5, <1>6, <2>1 DEF FlowOk
<1> QED
  BY <1>1, <1>7, <1>10, <1>11 DEF Scoped, f, ls, bs

(* The outline at the start. *)
LEMMA EnteredCompiling ==
  ASSUME NEW s, NEW u, NEW x, NEW z, NEW N, NEW W, W \in Nat, W >= 2, Entered(s, u, x, z, N), NEW b, Outermost(b, s, Reach({0}, {0}))
  PROVE  \E R : Compiling(R, <<Ranged("LocalInit", 0, 0)>>, u, <<x>>, <<b>>, Reach({0}, {0}), z, N, W)
<1> DEFINE f == Reach({0}, {0})
           l == u.leafs
           i == Ranged("LocalInit", 0, 0)
           c == <<i>>
           s0 == [flags |-> {}, owned |-> {z}]
           s1 == Settled(l, {0})
           R == [k \in Nat |-> IF k = 0 THEN {s0} ELSE IF k = 1 THEN {s1} ELSE {}]
<1>1. /\ IsStack(u, z, N) /\ Len(l) = 1 /\ SlotAt(l, 0) = z /\ z \in Nat /\ N \in Nat /\ z < N
  <2>1. /\ IsStack(u, z, N) /\ Len(l) = 1 /\ SlotAt(l, 0) = z /\ u.top = z + 1
    BY DEF Entered
  <2>2. z \in Nat /\ N \in Nat /\ u.top <= N
    BY <2>1, StackFacts
  <2> QED
    BY <2>1, <2>2
<1>2. IsSeq(c) /\ Len(c) = 1 /\ c[1] = i
  BY Literals
<1>3. i.op = "LocalInit" /\ Range(i) = {0}
  BY DEF Ranged, Range
<1>4. SlotsOf(l, {0}) = {z} /\ s1 = [flags |-> {0}, owned |-> {z}] /\ Apart(l, {0})
  BY <1>1 DEF SlotsOf, Settled, Apart
<1>5. s0 \in State(l, N) /\ s1 \in State(l, N)
  BY <1>1, <1>4 DEF State
<1>6. Safe(i, l, s0) /\ After(i, l, s0) = s1 /\ Nexts(i, 0) = {1}
  <2> HIDE DEF i
  <2>1. Safe(i, l, s0)
    BY <1>3 DEF Safe
  <2>2. After(i, l, s0) = [flags |-> s0.flags \cup Range(i), owned |-> s0.owned]
    BY <1>3 DEF After
  <2>3. Nexts(i, 0) = {0 + 1}
    BY <1>3, NextsStraight DEF Straight
  <2>4. s0.flags \cup Range(i) = {0} /\ s0.owned = {z}
    BY <1>3
  <2> HIDE DEF s0, s1
  <2> QED
    BY <1>4, <2>1, <2>2, <2>3, <2>4
<1> HIDE DEF i, c, s0, s1, l, f
<1>7. R[0] = {s0} /\ R[1] = {s1} /\ \A k \in Nat : k > 1 => R[k] = {}
  OBVIOUS
<1>8. R \in [Nat -> SUBSET State(l, N)]
  BY <1>5
<1> HIDE DEF R
<1>9. Outline(R, c, l, N)
  <2>1. StepOk(R, c[0 + 1], 0, l)
    BY <1>2, <1>6, <1>7 DEF StepOk
  <2>2. \A k \in 0 .. Len(c) - 1 : k = 0
    BY <1>2
  <2> QED
    BY <1>2, <1>7, <1>8, <2>1, <2>2 DEF Outline
<1>10. /\ IsRecord(b) /\ b.kind \in Bottom /\ b.nbits = 1 /\ b.start = 0
  <2>1. Len(s.leafs) = 1
    BY DEF Entered
  <2> QED
    BY <2>1 DEF Outermost, Record, IsRecord
<1>11. Falls(b) = {} /\ Exits(b) = {} /\ b.kind \notin {"then", "guarded", "loop", "letloop"}
  BY <1>10 DEF Falls, Exits, Bottom
<1>12. HoleOk(R, l, b, <<x>>) /\ Placed(b, Len(c))
  BY <1>2, <1>10, <1>11 DEF HoleOk, Placed, Holes
<1>13. Traced(R, c, l, z, N, <<b>>, <<x>>, {})
  <2>1. Len(<<b>>) = 1 /\ <<b>>[1] = b
    OBVIOUS
  <2>2. Filled(c, <<b>>, {})
    BY <1>2, <1>3 DEF Filled
  <2>3. s0 \in R[0]
    BY <1>7
  <2>4. [flags |-> {}, owned |-> {z}] \in R[0]
    BY <2>3 DEF s0
  <2>5. \A k \in 1 .. Len(<<b>>) : k = 1 /\ <<b>>[k] = b
    BY <2>1
  <2> QED
    BY <1>1, <1>2, <1>9, <1>10, <1>12, <2>2, <2>4, <2>5 DEF Traced
<1>14. \A t \in R[Len(c)] : Arrives(l, f, t)
  <2>1. Arrives(l, f, s1)
    BY <1>1, <1>4 DEF Arrives, f, Reach, s1
  <2> QED
    BY <1>2, <1>7, <2>1
<1>15. Scoped(u, <<x>>, <<b>>, f, z, N, W)
  BY EnteredScoped DEF f
<1>16. Compiling(R, c, u, <<x>>, <<b>>, f, z, N, W)
  BY <1>13, <1>14, <1>15 DEF Compiling, l
<1> QED
  BY <1>16 DEF c, i, f

(* What stays of the compiler when the function is compiled. *)
Compiled == /\ stk.top \in 0 .. MaxSlots /\ stk.first \in 0 .. Len(stk.leafs) /\ IsSeq(stk.leafs)
            /\ flow = Unreachable /\ stmts = 0

Lowering == \E z : /\ Goes(z) /\ stmts \in 0 .. MaxStmts /\ pc = 0 /\ flags = {}
                   /\ Tame(mem, fate, MaxSlots) /\ Holds(mem, fate, {z})
Executing == Compiled /\ \E R, s, z : Runner(R, s, z)
Over == /\ Compiled /\ pc \in 0 .. Len(code) /\ flags = {}
        /\ Tame(mem, fate, MaxSlots) /\ \A v \in All : fate[v] # "live"

(* The inductive invariant. *)
DropInv ==
  /\ family \in Families
  /\ \/ phase = "compile" /\ Lowering
     \/ phase = "run" /\ Executing
     \/ phase = "returned" /\ Over

(* The values at the start. *)
LEMMA InitFated ==
  ASSUME Init
  PROVE  /\ fate \in [All -> Fates] /\ fate[1] = "live" /\ \A v \in All : v # 1 => fate[v] # "live"
         /\ \A v \in All : fate[v] = "garbage" <=> v = Garbage
<1>1. fate = [v \in All |-> IF v = 1 THEN "live" ELSE IF v = Garbage THEN "garbage" ELSE "unborn"]
  BY DEF Init, All
<1>2. 1 \in All /\ Garbage \in All /\ Garbage # 1
  BY GarbageIsNoValue
<1> QED
  BY <1>1, <1>2 DEF Fates

(* The memory at the start. *)
LEMMA InitMemory ==
  ASSUME NEW N \in Nat, NEW z \in 0 .. N - 1, NEW m, m = [x \in 0 .. N - 1 |-> IF x = z THEN 1 ELSE Garbage],
         NEW f \in [All -> Fates], f[1] = "live", \A v \in All : v # 1 => f[v] # "live",
         \A v \in All : f[v] = "garbage" <=> v = Garbage
  PROVE  Tame(m, f, N) /\ Holds(m, f, {z})
<1>1. m \in [0 .. N - 1 -> All] /\ m[z] = 1
  BY GarbageIsNoValue
<1>2. \A v \in Values : f[v] = "live" => v = 1
  BY GarbageIsNoValue
<1> QED
  BY <1>1, <1>2, GarbageIsNoValue DEF Tame, Holds

(* The invariant holds at the start. *)
LEMMA InitHolds ==
  ASSUME Hazards = {}, Init
  PROVE  DropInv
<1> DEFINE N == MaxSlots
           W == Width
<1>1. family \in Families /\ phase = "compile" /\ stmts = 0 /\ pc = 0 /\ flags = {}
  BY DEF Init
<1>2. Accepted
  BY <1>1 DEF Accepted
<1>3. W \in {2, 4} /\ N = W * MaxStmts + 4 /\ MaxStmts \in Nat
  BY <1>2, Widths
<1>4. PICK returns \in BOOLEAN : InitFor(returns)
  BY DEF Init
<1> DEFINE z == IF returns THEN 1 ELSE 0
           s0 == IF returns THEN AllocPlain(EmptyStack, 1) ELSE EmptyStack
           s == AllocVal(s0, 1)
           x == Newest(s, 1)
           b == [kind |-> IF returns THEN "returns" ELSE "void",
                 stmt |-> Saved(s), scope |-> Saved(s), nlocals |-> 1,
                 nbits |-> Len(s.leafs), start |-> 0, arg |-> NoPlace,
                 patch |-> 0, breaks |-> {}, entry |-> Reach({x.lo}, {x.lo}), exit |-> Unreachable]
<1>5. /\ stk = PushScope(s) /\ code = <<Ranged("LocalInit", x.lo, x.lo)>> /\ locals = <<x>>
      /\ flow = Reach({x.lo}, {x.lo}) /\ blocks = <<b>>
      /\ mem = [y \in Slots |-> IF y = x.slot THEN 1 ELSE Garbage]
  BY <1>4 DEF InitFor
<1>6. N \in Nat /\ N >= 4 /\ W \in Nat /\ W >= 2
  <2> HIDE DEF N, W
  <2>1. CASE W = 2
    BY <1>3, <2>1
  <2>2. CASE W = 4
    BY <1>3, <2>2
  <2> QED
    BY <1>3, <2>1, <2>2
<1>7. z \in {0, 1} /\ IsStack(s0, z, N) /\ s0.top = z /\ Len(s0.leafs) = 0 /\ s0.first = 0
  <2> HIDE DEF N
  <2>1. CASE returns
    BY <1>6, <2>1, EmptyOk
  <2>2. CASE ~returns
    BY <1>6, <2>2, EmptyOk
  <2> QED
    BY <2>1, <2>2
<1>8. Entered(s, PushScope(s), x, z, N)
  <2> HIDE DEF N, z, s0
  <2> QED
    BY <1>6, <1>7, EnteredIs
<1>9. b.kind # "void" => z > 0
  BY <1>4
<1>10. b = Record(b.kind, Saved(s), Saved(s), 1, Len(s.leafs), 0, NoPlace, 0, {}, Reach({x.lo}, {x.lo}), Unreachable)
       /\ b.kind \in Bottom
  BY DEF Record, Bottom
<1> HIDE DEF N, W, z, s, s0, x, b
<1>11. x.lo = 0 /\ x.slot = z /\ s.top = z + 1 /\ PushScope(s).top = z + 1
  BY <1>8 DEF Entered
<1>12. Outermost(b, s, Reach({0}, {0}))
  BY <1>10, <1>11 DEF Outermost
<1>13. \E R : Compiling(R, <<Ranged("LocalInit", 0, 0)>>, PushScope(s), <<x>>, <<b>>, Reach({0}, {0}), z, N, W)
  BY <1>6, <1>8, <1>12, EnteredCompiling
<1>14. PICK R : Compiling(R, code, stk, locals, blocks, flow, z, N, W)
  BY <1>5, <1>11, <1>13
<1>15. Goes(z)
  <2>1. stk.top <= W * 0 + 2
    BY <1>5, <1>6, <1>7, <1>11
  <2>2. blocks[1] = b
    BY <1>5
  <2> QED
    BY <1>1, <1>9, <1>14, <2>1, <2>2 DEF Goes, Going, N, W
<1>16. Tame(mem, fate, N) /\ Holds(mem, fate, {z})
  <2>1. z \in 0 .. N - 1
    BY <1>6, <1>7
  <2>2. mem = [y \in 0 .. N - 1 |-> IF y = z THEN 1 ELSE Garbage]
    BY <1>5, <1>11 DEF Slots, N
  <2> DEFINE m == mem
  <2>3. m = [y \in 0 .. N - 1 |-> IF y = z THEN 1 ELSE Garbage]
    BY <2>2
  <2> HIDE DEF m
  <2>4. /\ fate \in [All -> Fates] /\ fate[1] = "live" /\ (\A v \in All : v # 1 => fate[v] # "live")
        /\ \A v \in All : fate[v] = "garbage" <=> v = Garbage
    BY InitFated
  <2>5. Tame(m, fate, N) /\ Holds(m, fate, {z})
    BY <1>6, <2>1, <2>3, <2>4, InitMemory
  <2> QED
    BY <2>5 DEF m
<1>17. stmts \in 0 .. MaxStmts
  BY <1>1, <1>3
<1>18. Tame(mem, fate, MaxSlots)
  BY <1>16 DEF N
<1>19. Lowering
  BY <1>1, <1>15, <1>16, <1>17, <1>18 DEF Lowering
<1> QED
  BY <1>1, <1>19 DEF DropInv

(* Every action of the compiler but the last keeps the outline. *)
LEMMA CompileGoes ==
  ASSUME Accepted, NEW z, Goes(z), Compile, ~Finish
  PROVE  GoesOn(z) /\ ((\E form : Lower(form)) \/ \E kinds : Closing(kinds))
<1>1. CASE \E w \in family.widths : LetCall(w) \/ LetUninit(w)
  <2>1. PICK w \in family.widths : LetCall(w) \/ LetUninit(w)
    BY <1>1
  <2>2. CASE LetCall(w)
    BY <2>2, LetCallGoes DEF LetCall
  <2>3. CASE LetUninit(w)
    BY <2>3, LetUninitGoes DEF LetUninit
  <2> QED
    BY <2>1, <2>2, <2>3
<1>2. CASE LetMove
  BY <1>2, LetMoveGoes DEF LetMove
<1>3. CASE AssignCall
  BY <1>3, AssignCallGoes DEF AssignCall
<1>4. CASE AssignMove
  BY <1>4, AssignMoveGoes DEF AssignMove
<1>5. CASE Pass
  BY <1>5, PassGoes DEF Pass
<1>6. CASE CallStmt
  BY <1>6, CallStmtGoes DEF CallStmt
<1>7. CASE OpenBlock
  BY <1>7, OpenBlockGoes DEF OpenBlock
<1>8. CASE OpenIf
  BY <1>8, OpenIfGoes DEF OpenIf
<1>9. CASE OpenLoop
  BY <1>9, OpenLoopGoes DEF OpenLoop
<1>10. CASE OpenLetLoop
  BY <1>10, OpenLetLoopGoes DEF OpenLetLoop
<1>11. CASE OpenMatch
  BY <1>11, OpenMatchGoes DEF OpenMatch
<1>12. CASE CloseBlock
  BY <1>12, CloseBlockGoes DEF CloseBlock
<1>13. CASE CloseThen
  BY <1>13, CloseThenGoes DEF CloseThen
<1>14. CASE Else
  BY <1>14, ElseGoes DEF Else
<1>15. CASE CloseElse
  BY <1>15, CloseElseGoes DEF CloseElse
<1>16. CASE CloseLoop
  BY <1>16, CloseLoopGoes DEF CloseLoop
<1>17. CASE CloseLetLoop
  BY <1>17, CloseLetLoopGoes DEF CloseLetLoop
<1>18. CASE CloseMatch
  BY <1>18, CloseMatchGoes DEF CloseMatch
<1>19. CASE NextArm
  BY <1>19, NextArmGoes DEF NextArm
<1>20. CASE Break
  BY <1>20, BreakGoes DEF Break
<1>21. CASE Continue
  BY <1>21, ContinueGoes DEF Continue
<1>22. CASE ReturnStmt
  BY <1>22, ReturnStmtGoes DEF ReturnStmt
<1> QED
  BY <1>1, <1>2, <1>3, <1>4, <1>5, <1>6, <1>7, <1>8, <1>9, <1>10, <1>11, <1>12, <1>13, <1>14, <1>15,
     <1>16, <1>17, <1>18, <1>19, <1>20, <1>21, <1>22 DEF Compile

(* While the body is compiled nothing is executed. *)
LEMMA CompileIdles ==
  ASSUME Accepted, NEW z, Goes(z), Compile, ~Finish, stmts \in 0 .. MaxStmts
  PROVE  phase' = phase /\ runVars' = runVars /\ stmts' \in 0 .. MaxStmts
<1>1. CASE \E form : Lower(form)
  <2>1. PICK form : Lower(form)
    BY <1>1
  <2>2. Room(stk, stmts, MaxSlots, Width) /\ stmts' = stmts + 1 /\ stmts' <= MaxStmts
        /\ phase' = phase /\ runVars' = runVars
    BY <2>1, LowerFacts DEF Goes
  <2> QED
    BY <2>2
<1>2. CASE \E kinds : Closing(kinds)
  BY <1>2 DEF Closing
<1> QED
  BY <1>1, <1>2, CompileGoes

(* Every action of the compiler keeps the invariant. *)
LEMMA CompileKeeps ==
  ASSUME Accepted, family' = family, phase = "compile", Lowering, Compile
  PROVE  DropInv' /\ FatesGo
<1>1. PICK z : /\ Goes(z) /\ stmts \in 0 .. MaxStmts /\ pc = 0 /\ flags = {}
               /\ Tame(mem, fate, MaxSlots) /\ Holds(mem, fate, {z})
  BY DEF Lowering
<1>2. MaxSlots' = MaxSlots /\ Width' = Width
  BY DEF MaxSlots, Width
<1>3. CASE ~Finish
  <2>1. GoesOn(z)
    BY <1>1, <1>3, CompileGoes
  <2>2. Goes(z)'
    BY <1>2, <2>1 DEF Goes, GoesOn
  <2>3. phase' = phase /\ runVars' = runVars /\ stmts' \in 0 .. MaxStmts
    BY <1>1, <1>3, CompileIdles
  <2>4. pc' = 0 /\ flags' = {} /\ mem' = mem /\ fate' = fate
    BY <1>1, <2>3 DEF runVars
  <2>5. Tame(mem', fate', MaxSlots') /\ Holds(mem', fate', {z})
    BY <1>1, <1>2, <2>4
  <2>6. Lowering'
    BY <2>2, <2>3, <2>4, <2>5 DEF Lowering
  <2>7. FatesGo
    BY <2>4 DEF FatesGo
  <2> QED
    BY <2>3, <2>6, <2>7 DEF DropInv, Accepted
<1>4. CASE Finish
  <2>1. Finished(z)'
    BY <1>1, <1>4, FinishGoes
  <2>2. phase' = "run" /\ pc' = 0 /\ flags' = {} /\ mem' = mem /\ fate' = fate
    BY <1>1, <1>4 DEF Finish, runVars
  <2> DEFINE s == [flags |-> {}, owned |-> {z}]
  <2>3. s.flags = {} /\ s.owned = {z}
    OBVIOUS
  <2>4. Compiled' /\ \E R : Ready(R, code', stk'.leafs, z, MaxSlots')
    BY <2>1 DEF Finished, Compiled
  <2>5. PICK R : Ready(R, code', stk'.leafs, z, MaxSlots')
    BY <2>4
  <2>6. s \in R[0]
    BY <2>5 DEF Ready
  <2> HIDE DEF s
  <2>7. Tame(mem', fate', MaxSlots') /\ Holds(mem', fate', s.owned)
    BY <1>1, <1>2, <2>2, <2>3
  <2>8. /\ Ready(R, code', stk'.leafs, z, MaxSlots') /\ pc' \in Nat /\ s \in R[pc'] /\ s.flags = flags'
        /\ Tame(mem', fate', MaxSlots') /\ Holds(mem', fate', s.owned)
    BY <2>2, <2>3, <2>5, <2>6, <2>7
  <2>9. Runner(R, s, z)'
    BY <2>8 DEF Runner
  <2>10. Executing'
    BY <2>4, <2>9 DEF Executing
  <2>11. FatesGo
    BY <2>2 DEF FatesGo
  <2> QED
    BY <2>2, <2>10, <2>11 DEF DropInv, Accepted
<1> QED
  BY <1>3, <1>4

(* An instruction is executed. *)
LEMMA RunKeeps ==
  ASSUME Accepted, family' = family, phase = "run", Executing, Run
  PROVE  DropInv' /\ FatesGo
<1>1. PICK R, s, z : Runner(R, s, z)
  BY DEF Executing
<1>2. MaxSlots' = MaxSlots
  BY DEF MaxSlots
<1>3. compileVars' = compileVars
  BY DEF Run, ExecCall, ExecCopy, ExecConst, ExecJump, ExecJumpF, ExecReturn, ExecLocalInit, ExecLocalMove,
         ExecLocalDrop, ExecLocalDropInit, Running
<1>4. code' = code /\ stk' = stk /\ flow' = flow /\ stmts' = stmts
  BY <1>3 DEF compileVars
<1>5. Compiled'
  BY <1>2, <1>4 DEF Executing, Compiled
<1>6. CASE ExecReturn
  <2>1. /\ phase' = "returned" /\ flags' = {} /\ pc' = pc /\ mem' = mem
        /\ Tame(mem', fate', MaxSlots) /\ FatesGo /\ \A v \in All : fate'[v] # "live"
    BY <1>1, <1>6, ReturnEnds
  <2>2. pc \in 0 .. Len(code) - 1 /\ Len(code) \in Nat
    BY <1>1, AtFacts
  <2>3. pc' \in 0 .. Len(code') /\ Tame(mem', fate', MaxSlots')
    BY <1>2, <1>4, <2>1, <2>2
  <2>4. Over'
    BY <1>5, <2>1, <2>3 DEF Over
  <2> QED
    BY <2>1, <2>4 DEF DropInv, Accepted
<1>7. CASE ~ExecReturn
  <2>1. Carried1(R, s)
    <3>1. CASE ExecJump \/ ExecJumpF
      BY <1>1, <3>1, JumpCarries
    <3>2. CASE ExecCopy
      BY <1>1, <3>2, CopyCarries
    <3>3. CASE ExecConst
      BY <1>1, <3>3, ConstCarries
    <3>4. CASE ExecLocalInit \/ ExecLocalMove
      BY <1>1, <3>4, FlagsCarry
    <3>5. CASE ExecLocalDrop \/ ExecLocalDropInit
      BY <1>1, <3>5, DropCarries
    <3>6. CASE ExecCall
      BY <1>1, <3>6, CallCarries
    <3> QED
      BY <1>7, <3>1, <3>2, <3>3, <3>4, <3>5, <3>6 DEF Run
  <2>0. PICK t : t = After(At, stk.leafs, s)
    OBVIOUS
  <2>2. /\ phase' = phase /\ pc' \in Nexts(At, pc) /\ t.flags = flags'
        /\ Tame(mem', fate', MaxSlots) /\ Holds(mem', fate', t.owned) /\ FatesGo
    BY <2>0, <2>1 DEF Carried1
  <2>3. pc' \in Nat /\ t \in R[pc']
    BY <1>1, <2>0, <2>2, AtFacts
  <2>4. Ready(R, code', stk'.leafs, z, MaxSlots')
    BY <1>1, <1>2, <1>4 DEF Runner
  <2>5. Tame(mem', fate', MaxSlots')
    BY <1>2, <2>2
  <2>6. Runner(R, t, z)'
    BY <2>2, <2>3, <2>4, <2>5 DEF Runner
  <2>7. Executing'
    BY <1>5, <2>6 DEF Executing
  <2> QED
    BY <2>2, <2>7 DEF DropInv, Accepted
<1> QED
  BY <1>6, <1>7

(* The invariant is inductive, and every step changes values as Ownership allows. *)
LEMMA NextKeeps ==
  ASSUME Hazards = {}, DropInv, [Next]_vars
  PROVE  DropInv' /\ FatesGo
<1>1. Accepted
  BY DEF DropInv, Accepted
<1>2. CASE UNCHANGED vars
  <2>1. UNCHANGED <<family, phase, code, stk, locals, blocks, flow, stmts, pc, flags, mem, fate>>
    BY <1>2 DEF vars, compileVars, runVars
  <2>2. MaxSlots' = MaxSlots /\ Width' = Width
    BY <2>1 DEF MaxSlots, Width
  <2>3. Compiled' <=> Compiled
    BY <2>1, <2>2 DEF Compiled
  <2>4. phase = "compile" /\ Lowering => Lowering'
    <3>1. \A z : Goes(z) => Goes(z)'
      BY <2>1, <2>2 DEF Goes
    <3> QED
      BY <2>1, <2>2, <3>1 DEF Lowering
  <2>5. Executing => Executing'
    <3>1. \A R, s, z : Runner(R, s, z) => Runner(R, s, z)'
      BY <2>1, <2>2 DEF Runner
    <3> QED
      BY <2>3, <3>1 DEF Executing
  <2>6. Over => Over'
    BY <2>1, <2>2, <2>3 DEF Over
  <2>7. FatesGo
    BY <2>1 DEF FatesGo
  <2> QED
    BY <2>1, <2>4, <2>5, <2>6, <2>7 DEF DropInv
<1>3. CASE Next
  <2>1. family' = family
    BY <1>3 DEF Next
  <2>2. CASE Compile
    <3>1. phase = "compile"
      BY <2>2 DEF Compile, LetCall, LetUninit, LetMove, AssignCall, AssignMove, Pass, CallStmt, OpenBlock, OpenIf,
           OpenLoop, OpenLetLoop, OpenMatch, CloseBlock, CloseThen, Else, CloseElse, CloseLoop, CloseLetLoop,
           CloseMatch, NextArm, Break, Continue, ReturnStmt, Finish, Lower, Closing
    <3>2. Lowering
      BY <3>1 DEF DropInv
    <3> QED
      BY <1>1, <2>1, <2>2, <3>1, <3>2, CompileKeeps
  <2>3. CASE Run
    <3>1. phase = "run"
      BY <2>3 DEF Run, ExecCall, ExecCopy, ExecConst, ExecJump, ExecJumpF, ExecReturn, ExecLocalInit, ExecLocalMove,
         ExecLocalDrop, ExecLocalDropInit, Running
    <3>2. Executing
      BY <3>1 DEF DropInv
    <3> QED
      BY <1>1, <2>1, <2>3, <3>1, <3>2, RunKeeps
  <2> QED
    BY <1>3, <2>2, <2>3 DEF Next
<1> QED
  BY <1>2, <1>3

(* What the outline says of the states of the program. *)
LEMMA LoweringTypes ==
  ASSUME Lowering
  PROVE  /\ stmts \in 0 .. MaxStmts /\ stk.top \in 0 .. MaxSlots /\ stk.first \in 0 .. Len(stk.leafs)
         /\ flow.must \cup flow.may \subseteq Bits(stk) /\ flow.must \subseteq flow.may
         /\ pc \in 0 .. Len(code) /\ flags \subseteq Bits(stk) /\ Tame(mem, fate, MaxSlots)
<1>1. PICK z : /\ Goes(z) /\ stmts \in 0 .. MaxStmts /\ pc = 0 /\ flags = {} /\ Tame(mem, fate, MaxSlots)
  BY DEF Lowering
<1> DEFINE N == MaxSlots
           W == Width
<1>2. Going(code, stk, locals, blocks, flow, stmts, z, N, W)
  BY <1>1 DEF Goes
<1> HIDE DEF N, W
<1>3. IsStack(stk, z, N) /\ Scoped(stk, locals, blocks, flow, z, N, W) /\ IsSeq(code)
  BY <1>2, GoingFacts
<1>4. /\ z \in Nat /\ N \in Nat /\ Len(stk.leafs) \in Nat /\ stk.top \in Nat /\ stk.top <= N
      /\ stk.first \in Nat /\ stk.first <= Len(stk.leafs) /\ Pending(stk) \subseteq Bits(stk)
  BY <1>3, StackFacts
<1>5. flow.must \subseteq flow.may /\ flow.may \subseteq Pending(stk)
  BY <1>3 DEF Scoped, FlowOk, IsFlow
<1>6. Len(code) \in Nat
  BY <1>3, IsSeqFacts
<1>7. stk.top \in 0 .. N /\ stk.first \in 0 .. Len(stk.leafs) /\ pc \in 0 .. Len(code)
  BY <1>1, <1>4, <1>6
<1> QED
  BY <1>1, <1>4, <1>5, <1>7 DEF N

(* The invariant implies TypeOK. *)
LEMMA InvTypes ==
  ASSUME Hazards = {}, DropInv
  PROVE  TypeOK
<1>1. family \in Families /\ MaxStmts \in Nat
  BY BodiesAssumption DEF DropInv
<1>2. Tame(mem, fate, MaxSlots) => /\ mem \in [Slots -> Values \cup {Garbage}]
                                   /\ fate \in [Values \cup {Garbage} ->
                                        {"garbage", "unborn", "live", "dropped", "given", "double"}]
  BY DEF Tame, Slots, All, Fates
<1>3. Compiled => /\ stmts \in 0 .. MaxStmts /\ flow.must = {} /\ flow.may = {}
                  /\ stk.top \in 0 .. MaxSlots /\ stk.first \in 0 .. Len(stk.leafs)
  BY <1>1 DEF Compiled, Unreachable
<1>4. CASE phase = "compile"
  <2>1. Lowering
    BY <1>4 DEF DropInv
  <2>2. /\ stmts \in 0 .. MaxStmts /\ stk.top \in 0 .. MaxSlots /\ stk.first \in 0 .. Len(stk.leafs)
        /\ flow.must \cup flow.may \subseteq Bits(stk) /\ flow.must \subseteq flow.may
        /\ pc \in 0 .. Len(code) /\ flags \subseteq Bits(stk) /\ Tame(mem, fate, MaxSlots)
    BY <2>1, LoweringTypes
  <2> QED
    BY <1>1, <1>2, <1>4, <2>2 DEF TypeOK
<1>5. CASE phase = "run"
  <2>1. Compiled /\ \E R, s, z : Runner(R, s, z)
    BY <1>5 DEF DropInv, Executing
  <2>2. PICK R, s, z : Runner(R, s, z)
    BY <2>1
  <2>3. /\ pc \in 0 .. Len(code) - 1 /\ Len(code) \in Nat /\ flags \subseteq 0 .. Len(stk.leafs) - 1
        /\ Tame(mem, fate, MaxSlots)
    BY <2>2, AtFacts
  <2>4. pc \in 0 .. Len(code)
    BY <2>3
  <2> QED
    BY <1>1, <1>2, <1>3, <1>5, <2>1, <2>3, <2>4 DEF TypeOK, Bits
<1>6. CASE phase = "returned"
  <2>1. Over
    BY <1>6 DEF DropInv
  <2> QED
    BY <1>1, <1>2, <1>3, <1>6, <2>1 DEF TypeOK, Over
<1> QED
  BY <1>4, <1>5, <1>6 DEF DropInv

(* It implies NoPanic. *)
LEMMA InvNoPanic ==
  ASSUME DropInv
  PROVE  NoPanic
<1>1. ASSUME phase = "run" PROVE At.op # "Skipped"
  BY <1>1, AtFacts DEF DropInv, Executing
<1> QED
  BY <1>1 DEF NoPanic, DropInv

(* It implies FlagsOwnDistinctValues. *)
LEMMA InvFlagsOwn ==
  ASSUME DropInv
  PROVE  FlagsOwnDistinctValues
<1> SUFFICES ASSUME phase = "run", At.op \in {"Call", "LocalDrop", "LocalDropInit", "Jump", "JumpF", "Return"}
             PROVE  \A b \in flags : fate[Holder(b)] = "live" /\ \A c \in flags : Holder(b) = Holder(c) => b = c
  BY DEF FlagsOwnDistinctValues
<1>1. PICK R, s, z : Runner(R, s, z)
  BY DEF DropInv, Executing
<1>2. Safe(At, stk.leafs, s) /\ s.flags = flags /\ Holds(mem, fate, s.owned)
  BY <1>1, AtFacts
<1>3. Apart(stk.leafs, flags) /\ SlotsOf(stk.leafs, flags) \subseteq s.owned
  BY <1>2 DEF Safe, Clean
<1>4. \A b : Holder(b) = mem[SlotAt(stk.leafs, b)]
  BY DEF Holder, SlotOf, Leaf, SlotAt
<1>5. \A b \in flags : SlotAt(stk.leafs, b) \in s.owned
  BY <1>3 DEF SlotsOf
<1> QED
  BY <1>2, <1>3, <1>4, <1>5 DEF Apart, Holds

(* It implies ScopeExitDrops. *)
LEMMA InvScopes ==
  ASSUME DropInv
  PROVE  ScopeExitDrops
<1> SUFFICES ASSUME phase = "run", At.op = "Call"
             PROVE  flags \subseteq At.open
  BY DEF ScopeExitDrops
<1>1. PICK R, s, z : Runner(R, s, z)
  BY DEF DropInv, Executing
<1>2. Safe(At, stk.leafs, s) /\ s.flags = flags
  BY <1>1, AtFacts
<1> QED
  BY <1>2 DEF Safe

(* It bounds memory and fates. *)
LEMMA InvTame ==
  ASSUME DropInv
  PROVE  Tame(mem, fate, MaxSlots)
  BY DEF DropInv, Lowering, Executing, Runner, Over

(* It implies DroppedAtMostOnce. *)
LEMMA InvNoDouble ==
  ASSUME DropInv
  PROVE  DroppedAtMostOnce
  BY InvTame DEF Tame, Fates, DroppedAtMostOnce

--------------------------------------------------------------------------------
(* The drop machinery of a body that has no known defect. *)

(* The invariant holds in every reachable state. *)
LEMMA DropInvariance ==
  ASSUME Hazards = {}
  PROVE  Spec => []DropInv
<1>1. Init => DropInv
  BY InitHolds
<1>2. DropInv /\ [Next]_vars => DropInv'
  BY NextKeeps
<1> QED
  BY <1>1, <1>2, PTL DEF Spec

(* The variables of compiler and interpreter keep their types: no body of     *)
(* MaxStmts statements needs more than MaxSlots slots.                        *)
THEOREM DropTypeCorrect ==
  ASSUME Hazards = {}
  PROVE  Spec => []TypeOK
<1>1. DropInv => TypeOK
  BY InvTypes
<1> QED
  BY <1>1, DropInvariance, PTL

(* No assertion of the interpreter fires on an accepted program, however      *)
(* long: local_init never meets a set flag nor local_move a clear one, and no *)
(* placeholder is left unpatched.                                             *)
THEOREM NeverPanics ==
  ASSUME Hazards = {}
  PROVE  Spec => []NoPanic
<1>1. DropInv => NoPanic
  BY InvNoPanic
<1> QED
  BY <1>1, DropInvariance, PTL

(* Whenever user code may run or control may branch, each set drop flag       *)
(* stands for a live value of its own in the slot that it guards:             *)
(* CompilerStack reuses no slot of a flagged local, and every move clears its *)
(* source.                                                                    *)
THEOREM FlagsOwnValues ==
  ASSUME Hazards = {}
  PROVE  Spec => []FlagsOwnDistinctValues
<1>1. DropInv => FlagsOwnDistinctValues
  BY InvFlagsOwn
<1> QED
  BY <1>1, DropInvariance, PTL

(* No user code runs while the flag of a scope that control has left is set:  *)
(* pop_scope's LocalDrop is on every path out of the scope.                   *)
THEOREM ScopesDropped ==
  ASSUME Hazards = {}
  PROVE  Spec => []ScopeExitDrops
<1>1. DropInv => ScopeExitDrops
  BY InvScopes
<1> QED
  BY <1>1, DropInvariance, PTL

(* No value is dropped twice, or dropped after it was given away, and         *)
(* local_drop never runs on a slot without one.                               *)
THEOREM NoDoubleDrop ==
  ASSUME Hazards = {}
  PROVE  Spec => []DroppedAtMostOnce
<1>1. DropInv => DroppedAtMostOnce
  BY InvNoDouble
<1> QED
  BY <1>1, DropInvariance, PTL

(* The fates as Ownership sees them. *)
Seen == [v \in Values \cup {Garbage} |-> IF v = Garbage /\ fate[v] = "garbage" THEN "unborn" ELSE fate[v]]

(* The first state is one of Ownership. *)
LEMMA InitOwns ==
  ASSUME Init
  PROVE  Own!Init
<1>1. /\ fate \in [All -> Fates] /\ fate[1] = "live" /\ \A v \in All : v # 1 => fate[v] # "live"
      /\ \A v \in All : fate[v] = "garbage" <=> v = Garbage
  BY InitFated
<1>2. fate = [v \in All |-> IF v = 1 THEN "live" ELSE IF v = Garbage THEN "garbage" ELSE "unborn"]
  BY DEF Init, All
<1>3. \A v \in All : fate[v] \in {"unborn", "live"} \/ (v = Garbage /\ fate[v] = "garbage")
  BY <1>2
<1>4. Seen \in [All -> {"unborn", "live"}]
  BY <1>3 DEF Seen, All
<1>5. (phase = "returned") = FALSE
  BY DEF Init
<1> QED
  BY <1>4, <1>5 DEF Own!Init, Seen, All

(* A step is one of Ownership or changes nothing it sees. *)
LEMMA StepOwns ==
  ASSUME Hazards = {}, DropInv, [Next]_vars
  PROVE  Own!Next \/ (Seen' = Seen /\ (phase = "returned")' = (phase = "returned"))
<1>1. DropInv' /\ FatesGo
  BY NextKeeps
<1>2. Tame(mem, fate, MaxSlots) /\ Tame(mem, fate, MaxSlots)'
  BY <1>1 DEF DropInv, Lowering, Executing, Runner, Over
<1>3. /\ fate \in [All -> Fates] /\ fate' \in [All -> Fates]
      /\ \A v \in All : (fate[v] = "garbage" <=> v = Garbage) /\ (fate'[v] = "garbage" <=> v = Garbage)
  BY <1>2 DEF Tame, Fates, All
<1>4. Seen \in [All -> {"unborn", "live", "dropped", "given"}] /\ Seen' \in [All -> {"unborn", "live", "dropped", "given"}]
  BY <1>3 DEF Seen, All, Fates
<1>5. \A v \in All : Seen[v] = IF v = Garbage THEN "unborn" ELSE fate[v]
  BY <1>3 DEF Seen, All
<1>6. \A v \in All : Seen'[v] = IF v = Garbage THEN "unborn" ELSE fate'[v]
  BY <1>3 DEF Seen, All
<1>7. \A v \in All : \/ Seen'[v] = Seen[v]
                     \/ Seen[v] = "unborn" /\ Seen'[v] = "live"
                     \/ Seen[v] = "live" /\ Seen'[v] \in {"dropped", "given"}
  BY <1>1, <1>5, <1>6 DEF FatesGo
<1>8. CASE phase = "returned"
  <2>1. ~Next
    BY <1>8 DEF Next, Compile, LetCall, LetUninit, LetMove, AssignCall, AssignMove, Pass, CallStmt, OpenBlock, OpenIf,
           OpenLoop, OpenLetLoop, OpenMatch, CloseBlock, CloseThen, Else, CloseElse, CloseLoop, CloseLetLoop,
           CloseMatch, NextArm, Break, Continue, ReturnStmt, Finish, Lower, Closing,
           Run, ExecCall, ExecCopy, ExecConst, ExecJump, ExecJumpF, ExecReturn, ExecLocalInit, ExecLocalMove,
           ExecLocalDrop, ExecLocalDropInit, Running
  <2>2. phase' = phase /\ fate' = fate
    BY <2>1 DEF vars, runVars
  <2> QED
    BY <2>2 DEF Seen
<1>9. CASE phase # "returned"
  <2>1. phase' = "returned" => \A v \in All : Seen'[v] # "live"
    BY <1>1, <1>6 DEF DropInv, Over
  <2> QED
    BY <1>4, <1>7, <1>9, <2>1 DEF Own!Next, Own!Step, Seen, All
<1> QED
  BY <1>8, <1>9

(* The compiled code implements Ownership: every value is dropped or given    *)
(* away exactly once, and the function owns none when it returns.             *)
THEOREM CodeImplementsOwnership ==
  ASSUME Hazards = {}
  PROVE  Spec => OwnershipSpec
<1>1. Init => Own!Init
  BY InitOwns
<1>2. DropInv /\ [Next]_vars => [Own!Next]_<<Seen, phase = "returned">>
  BY StepOwns
<1> QED
  BY <1>1, <1>2, DropInvariance, PTL DEF Spec, OwnershipSpec, Own!Spec, Seen
================================================================================
