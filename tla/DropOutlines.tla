------------------------------ MODULE DropOutlines -----------------------------
(* What the code that the compiler of DropScopes emits does to drop flags and   *)
(* to slots, before any of it runs.                                             *)
(*                                                                              *)
(* An outline R of code c says for each position which abstract states, flags   *)
(* set and slots that hold a live value, may be met there; R[k] and what the    *)
(* instruction at k does to a state give R at the positions that may follow.    *)
(* As long as a body is compiled its code has an outline in which the states at *)
(* the end agree with `flow`, and each jump that is still to be filled in may   *)
(* lead wherever its block will make it lead (Compiling).  This module has the  *)
(* statements without a body and the opening of blocks; DropScopesProofs has    *)
(* the rest.                                                                    *)
EXTENDS DropScopes, TLAPS

--------------------------------------------------------------------------------

(* Slots behind drop bits. *)
IsSeq(q) == \E S : q \in Seq(S)
SlotAt(l, b) == l[b + 1].slot
SlotsOf(l, F) == {SlotAt(l, b) : b \in F}
Apart(l, F) == \A b, c \in F : SlotAt(l, b) = SlotAt(l, c) => b = c

(* An abstract state of the running function: the flags that are set and the    *)
(* slots that hold a live value.                                                *)
State(l, N) == [flags : SUBSET (0 .. Len(l) - 1), owned : SUBSET (0 .. N - 1)]
Clean(l, s) == Apart(l, s.flags) /\ SlotsOf(l, s.flags) \subseteq s.owned

Sources(i) == i.src .. i.src + i.n - 1
Targets(i) == i.dst .. i.dst + i.n - 1
Result(i) == IF i.dst = NoSlot THEN {} ELSE {i.dst}

Safe(i, l, s) ==
  /\ i.op \in {"Call", "LocalDrop", "LocalDropInit", "Jump", "JumpF", "Return"} => Clean(l, s)
  /\ i.op = "Call" => /\ s.flags \subseteq i.open /\ i.args \subseteq s.owned
                      /\ \A x \in s.owned \ i.args : x < i.frame
  /\ i.op = "Copy" => /\ i.src \in Nat /\ i.dst \in Nat /\ i.n \in Nat
                      /\ Sources(i) \subseteq s.owned /\ Targets(i) \cap s.owned = {}
  /\ i.op = "Const" => i.dst \notin s.owned
  /\ i.op = "LocalInit" => Range(i) \cap s.flags = {}
  /\ i.op = "LocalMove" => Range(i) \subseteq s.flags
  /\ i.op = "Return" => /\ s.owned = SlotsOf(l, s.flags) \cup Result(i)
                        /\ Result(i) \cap SlotsOf(l, s.flags) = {}

After(i, l, s) ==
  CASE i.op = "Call" -> [flags |-> s.flags, owned |-> (s.owned \ i.args) \cup IF i.ret THEN {i.frame} ELSE {}]
    [] i.op = "Copy" -> [flags |-> s.flags, owned |-> (s.owned \ Sources(i)) \cup Targets(i)]
    [] i.op = "LocalInit" -> [flags |-> s.flags \cup Range(i), owned |-> s.owned]
    [] i.op = "LocalMove" -> [flags |-> s.flags \ Range(i), owned |-> s.owned]
    [] i.op = "LocalDrop" -> [flags |-> s.flags \ Range(i),
                              owned |-> s.owned \ SlotsOf(l, s.flags \cap Range(i))]
    [] i.op = "LocalDropInit" -> [flags |-> s.flags \cup Range(i),
                                  owned |-> s.owned \ SlotsOf(l, s.flags \cap Range(i))]
    [] OTHER -> s

Nexts(i, k) ==
  CASE i.op = "Jump" -> {k + i.off}
    [] i.op = "JumpF" -> {k + 1} \cup IF i.sure THEN {} ELSE {k + i.off}
    [] i.op \in {"Return", "Skipped"} -> {}
    [] OTHER -> {k + 1}

StepOk(R, i, k, l) ==
  \A s \in R[k] : Safe(i, l, s) /\ \A t \in Nexts(i, k) : t \in Nat /\ After(i, l, s) \in R[t]

Outline(R, c, l, N) ==
  /\ R \in [Nat -> SUBSET State(l, N)]
  /\ \A k \in Nat : k > Len(c) => R[k] = {}
  /\ \A k \in 0 .. Len(c) - 1 : StepOk(R, c[k + 1], k, l)

Keeps(R, Q, n) == (\A k \in 0 .. n - 1 : Q[k] = R[k]) /\ R[n] \subseteq Q[n]

Extends(l, m) == Len(l) <= Len(m) /\ \A b \in 0 .. Len(l) - 1 : SlotAt(m, b) = SlotAt(l, b)

--------------------------------------------------------------------------------
(* Sequences. *)

(* What Append does to a sequence. *)
LEMMA IsSeqFacts ==
  ASSUME NEW q, IsSeq(q)
  PROVE  /\ Len(q) \in Nat
         /\ \A e : /\ IsSeq(Append(q, e)) /\ Len(Append(q, e)) = Len(q) + 1
                   /\ \A k \in 1 .. Len(q) : Append(q, e)[k] = q[k]
                   /\ Append(q, e)[Len(q) + 1] = e
<1>1. PICK S : q \in Seq(S)
  BY DEF IsSeq
<1> SUFFICES ASSUME NEW e
             PROVE  /\ IsSeq(Append(q, e)) /\ Len(Append(q, e)) = Len(q) + 1 /\ Len(q) \in Nat
                    /\ \A k \in 1 .. Len(q) : Append(q, e)[k] = q[k]
                    /\ Append(q, e)[Len(q) + 1] = e
  OBVIOUS
<1>2. q \in Seq(S \cup {e})
  BY <1>1
<1>3. Append(q, e) \in Seq(S \cup {e})
  BY <1>2
<1> QED
  BY <1>2, <1>3 DEF IsSeq

(* What \o does to two sequences. *)
LEMMA IsSeqConcat ==
  ASSUME NEW p, NEW q, IsSeq(p), IsSeq(q)
  PROVE  /\ IsSeq(p \o q) /\ Len(p \o q) = Len(p) + Len(q) /\ Len(p) \in Nat /\ Len(q) \in Nat
         /\ \A k \in 1 .. Len(p) : (p \o q)[k] = p[k]
         /\ \A k \in 1 .. Len(q) : (p \o q)[Len(p) + k] = q[k]
<1>1. PICK S : p \in Seq(S)
  BY DEF IsSeq
<1>2. PICK T : q \in Seq(T)
  BY DEF IsSeq
<1>3. p \in Seq(S \cup T) /\ q \in Seq(S \cup T)
  BY <1>1, <1>2
<1>4. p \o q \in Seq(S \cup T)
  BY <1>3
<1> QED
  BY <1>3, <1>4 DEF IsSeq

(* What replacing an element does. *)
LEMMA IsSeqExcept ==
  ASSUME NEW q, IsSeq(q), NEW k \in 1 .. Len(q), NEW e
  PROVE  /\ IsSeq([q EXCEPT ![k] = e]) /\ Len([q EXCEPT ![k] = e]) = Len(q)
         /\ [q EXCEPT ![k] = e][k] = e
         /\ \A j \in 1 .. Len(q) : j # k => [q EXCEPT ![k] = e][j] = q[j]
<1>1. PICK S : q \in Seq(S)
  BY DEF IsSeq
<1>2. q \in Seq(S \cup {e})
  BY <1>1
<1>3. [q EXCEPT ![k] = e] \in Seq(S \cup {e})
  BY <1>2
<1> QED
  BY <1>2, <1>3 DEF IsSeq

(* PatchAll replaces the instructions at `is` by jumps and keeps the others. *)
LEMMA IsSeqPatchAll ==
  ASSUME NEW c, IsSeq(c), NEW is, NEW x
  PROVE  /\ IsSeq(PatchAll(c, is, x)) /\ Len(PatchAll(c, is, x)) = Len(c)
         /\ \A k \in 1 .. Len(c) : PatchAll(c, is, x)[k] = IF k - 1 \in is THEN Jump(x - (k - 1)) ELSE c[k]
<1>1. PICK S : c \in Seq(S)
  BY DEF IsSeq
<1> DEFINE T == S \cup {Jump(x - (k - 1)) : k \in 1 .. Len(c)}
<1>2. Len(c) \in Nat /\ DOMAIN c = 1 .. Len(c)
  BY <1>1
<1>3. PatchAll(c, is, x) \in [1 .. Len(c) -> T]
  BY <1>1, <1>2 DEF PatchAll
<1>4. PatchAll(c, is, x) \in Seq(T)
  BY <1>2, <1>3
<1>5. Len(PatchAll(c, is, x)) = Len(c)
  <2> HIDE DEF T
  <2> QED
    BY <1>2, <1>3, <1>4
<1> QED
  BY <1>2, <1>4, <1>5 DEF IsSeq, PatchAll

--------------------------------------------------------------------------------
(* Slots. *)

(* More drop bits leave the slots of those there are. *)
LEMMA SlotsExtended ==
  ASSUME NEW l, NEW m, Extends(l, m), NEW F \in SUBSET (0 .. Len(l) - 1)
  PROVE  SlotsOf(m, F) = SlotsOf(l, F) /\ (Apart(m, F) <=> Apart(l, F))
<1>1. \A b \in F : SlotAt(m, b) = SlotAt(l, b)
  BY DEF Extends
<1> QED
  BY <1>1 DEF SlotsOf, Apart

(* An instruction does the same when more drop bits are registered. *)
LEMMA SafeExtended ==
  ASSUME NEW l, NEW m, Extends(l, m), NEW s, s.flags \in SUBSET (0 .. Len(l) - 1), NEW i
  PROVE  (Safe(i, m, s) <=> Safe(i, l, s)) /\ After(i, m, s) = After(i, l, s)
<1>1. SlotsOf(m, s.flags) = SlotsOf(l, s.flags) /\ (Apart(m, s.flags) <=> Apart(l, s.flags))
  BY SlotsExtended
<1>2. SlotsOf(m, s.flags \cap Range(i)) = SlotsOf(l, s.flags \cap Range(i))
  BY SlotsExtended
<1>3. Clean(m, s) <=> Clean(l, s)
  BY <1>1 DEF Clean
<1>4. Safe(i, m, s) <=> Safe(i, l, s)
  BY <1>1, <1>3 DEF Safe
<1> QED
  BY <1>2, <1>4 DEF After

(* So does all the code. *)
LEMMA OutlineExtended ==
  ASSUME NEW l, NEW m, Len(l) \in Nat, Len(m) \in Nat, Extends(l, m), NEW N, NEW c, NEW R, Outline(R, c, l, N)
  PROVE  Outline(R, c, m, N)
<1>1. Len(l) \in Nat /\ Len(m) \in Nat /\ Len(l) <= Len(m)
  BY DEF Extends
<1>2. State(l, N) \subseteq State(m, N)
  BY <1>1 DEF State
<1>3. R \in [Nat -> SUBSET State(l, N)]
  BY DEF Outline
<1>4. R \in [Nat -> SUBSET State(m, N)]
  BY <1>2, <1>3
<1>5. ASSUME NEW k \in 0 .. Len(c) - 1, StepOk(R, c[k + 1], k, l), k \in Nat
      PROVE  StepOk(R, c[k + 1], k, m)
  <2> SUFFICES ASSUME NEW s \in R[k]
               PROVE  Safe(c[k + 1], m, s)
                      /\ \A t \in Nexts(c[k + 1], k) : t \in Nat /\ After(c[k + 1], m, s) \in R[t]
    BY DEF StepOk
  <2>1. s.flags \in SUBSET (0 .. Len(l) - 1)
    BY <1>3, <1>5 DEF State
  <2> QED
    BY <1>5, <2>1, SafeExtended DEF StepOk
<1> QED
  BY <1>4, <1>5 DEF Outline

Straight(i) == i.op \in {"Call", "Copy", "Const", "LocalInit", "LocalMove", "LocalDrop", "LocalDropInit"}

Move(i, l, N, s, t) ==
  Straight(i) /\ s \in State(l, N) /\ t \in State(l, N) /\ Safe(i, l, s) /\ t = After(i, l, s)

IsRun(q, ch, l, N) ==
  /\ q \in [0 .. Len(ch) -> State(l, N)]
  /\ \A k \in 0 .. Len(ch) - 1 : Move(ch[k + 1], l, N, q[k], q[k + 1])

Runs(ch, l, N, s, t) == \E q : IsRun(q, ch, l, N) /\ q[0] = s /\ q[Len(ch)] = t

(* A straight instruction is followed by the next one. *)
LEMMA NextsStraight ==
  ASSUME NEW i, Straight(i), NEW k
  PROVE  Nexts(i, k) = {k + 1} /\ i.op # "Skipped"
  BY DEF Straight, Nexts

(* No code does nothing. *)
LEMMA RunsEmpty ==
  ASSUME NEW l, NEW N, NEW s \in State(l, N)
  PROVE  Runs(<<>>, l, N, s, s)
<1> DEFINE q == [k \in 0 .. 0 |-> s]
<1>1. IsRun(q, <<>>, l, N) /\ q[0] = s
  BY DEF IsRun
<1> QED
  BY <1>1 DEF Runs

(* One instruction. *)
LEMMA RunsOne ==
  ASSUME NEW i, NEW l, NEW N, NEW s, NEW t, Move(i, l, N, s, t)
  PROVE  Runs(<<i>>, l, N, s, t)
<1> DEFINE q == [k \in 0 .. 1 |-> IF k = 0 THEN s ELSE t]
<1>1. Len(<<i>>) = 1 /\ <<i>>[1] = i
  OBVIOUS
<1>2. q \in [0 .. 1 -> State(l, N)] /\ q[0] = s /\ q[1] = t
  BY DEF Move
<1>3. IsRun(q, <<i>>, l, N)
  <2> HIDE DEF q
  <2> QED
    BY <1>1, <1>2 DEF IsRun
<1> QED
  BY <1>1, <1>2, <1>3 DEF Runs

(* One piece of code after the other. *)
LEMMA RunsConcat ==
  ASSUME NEW p, NEW r, IsSeq(p), IsSeq(r), NEW l, NEW N, NEW s, NEW t, NEW u,
         Runs(p, l, N, s, t), Runs(r, l, N, t, u)
  PROVE  Runs(p \o r, l, N, s, u)
<1>1. PICK a : IsRun(a, p, l, N) /\ a[0] = s /\ a[Len(p)] = t
  BY DEF Runs
<1>2. PICK b : IsRun(b, r, l, N) /\ b[0] = t /\ b[Len(r)] = u
  BY DEF Runs
<1> DEFINE q == [k \in 0 .. Len(p) + Len(r) |-> IF k <= Len(p) THEN a[k] ELSE b[k - Len(p)]]
<1>3. /\ Len(p) \in Nat /\ Len(r) \in Nat /\ Len(p \o r) = Len(p) + Len(r)
      /\ \A k \in 1 .. Len(p) : (p \o r)[k] = p[k]
      /\ \A k \in 1 .. Len(r) : (p \o r)[Len(p) + k] = r[k]
  BY IsSeqConcat
<1>4. \A k \in 0 .. Len(p) : q[k] = a[k]
  BY <1>3
<1>5. ASSUME NEW k \in 0 .. Len(r) PROVE q[Len(p) + k] = b[k]
  <2>1. k = 0 \/ ~(Len(p) + k <= Len(p))
    BY <1>3
  <2>2. Len(p) + k - Len(p) = k /\ Len(p) + k \in 0 .. Len(p) + Len(r) /\ Len(p) + 0 = Len(p)
    BY <1>3
  <2> QED
    BY <1>1, <1>2, <2>1, <2>2
<1>6. q \in [0 .. Len(p) + Len(r) -> State(l, N)]
  BY <1>1, <1>2, <1>3 DEF IsRun
<1>7. ASSUME NEW k \in 0 .. Len(p) + Len(r) - 1
      PROVE  Move((p \o r)[k + 1], l, N, q[k], q[k + 1])
  <2> HIDE DEF q
  <2>1. CASE k < Len(p)
    <3>1. k \in 0 .. Len(p) - 1 /\ k + 1 \in 1 .. Len(p) /\ k \in 0 .. Len(p) /\ k + 1 \in 0 .. Len(p)
      BY <1>3, <2>1
    <3>2. Move(p[k + 1], l, N, a[k], a[k + 1])
      BY <1>1, <3>1 DEF IsRun
    <3> QED
      BY <1>3, <1>4, <3>1, <3>2
  <2>2. CASE k >= Len(p)
    <3>1. PICK j \in 0 .. Len(r) - 1 : k = Len(p) + j
      <4>1. k - Len(p) \in 0 .. Len(r) - 1 /\ k = Len(p) + (k - Len(p))
        BY <1>3, <2>2
      <4> QED
        BY <4>1
    <3>2. /\ j + 1 \in 1 .. Len(r) /\ j \in 0 .. Len(r) /\ j + 1 \in 0 .. Len(r)
          /\ k + 1 = Len(p) + (j + 1)
      BY <1>3, <3>1
    <3>3. Move(r[j + 1], l, N, b[j], b[j + 1])
      BY <1>2, <3>1 DEF IsRun
    <3>4. (p \o r)[k + 1] = r[j + 1] /\ q[k] = b[j] /\ q[k + 1] = b[j + 1]
      BY <1>3, <1>5, <3>1, <3>2
    <3> QED
      BY <3>3, <3>4
  <2> QED
    BY <1>3, <2>1, <2>2
<1>8. IsRun(q, p \o r, l, N) /\ q[0] = s /\ q[Len(p \o r)] = u
  <2> HIDE DEF q
  <2>1. q[0] = s /\ q[Len(p) + Len(r)] = u
    BY <1>1, <1>2, <1>3, <1>4, <1>5
  <2> QED
    BY <1>3, <1>6, <1>7, <2>1 DEF IsRun
<1> HIDE DEF q
<1> QED
  BY <1>8 DEF Runs

(* Sequences are equal if their elements are. *)
LEMMA SameSeq ==
  ASSUME NEW p, NEW q, IsSeq(p), IsSeq(q), Len(p) = Len(q), \A k \in 1 .. Len(p) : p[k] = q[k]
  PROVE  p = q
<1>1. PICK S : p \in Seq(S)
  BY DEF IsSeq
<1>2. PICK T : q \in Seq(T)
  BY DEF IsSeq
<1>3. p \in Seq(S \cup T) /\ q \in Seq(S \cup T)
  BY <1>1, <1>2
<1> QED
  BY <1>3

(* Short sequences are concatenations of shorter ones. *)
LEMMA Literals ==
  /\ IsSeq(<<>>)
  /\ \A a : IsSeq(<<a>>) /\ Len(<<a>>) = 1
  /\ \A a, b : IsSeq(<<a, b>>) /\ <<a, b>> = <<a>> \o <<b>>
  /\ \A a, b, d : IsSeq(<<a, b, d>>) /\ <<a, b, d>> = <<a>> \o <<b, d>>
<1>1. IsSeq(<<>>)
  <2>1. <<>> \in Seq({})
    OBVIOUS
  <2> QED
    BY <2>1 DEF IsSeq
<1>2. ASSUME NEW a PROVE IsSeq(<<a>>) /\ Len(<<a>>) = 1
  <2>1. <<a>> \in Seq({a})
    OBVIOUS
  <2> QED
    BY <2>1 DEF IsSeq
<1>3. ASSUME NEW a, NEW b PROVE IsSeq(<<a, b>>) /\ <<a, b>> = <<a>> \o <<b>>
  <2>1. <<a, b>> \in Seq({a, b})
    OBVIOUS
  <2>2. IsSeq(<<a, b>>) /\ Len(<<a, b>>) = 2 /\ <<a, b>>[1] = a /\ <<a, b>>[2] = b
    BY <2>1 DEF IsSeq
  <2>3. /\ IsSeq(<<a>> \o <<b>>) /\ Len(<<a>> \o <<b>>) = 2
        /\ (<<a>> \o <<b>>)[1] = a /\ (<<a>> \o <<b>>)[2] = b
    BY <1>2, IsSeqConcat
  <2>4. \A k \in 1 .. Len(<<a, b>>) : <<a, b>>[k] = (<<a>> \o <<b>>)[k]
    BY <2>2, <2>3
  <2> QED
    BY <2>2, <2>3, <2>4, SameSeq
<1>4. ASSUME NEW a, NEW b, NEW d PROVE IsSeq(<<a, b, d>>) /\ <<a, b, d>> = <<a>> \o <<b, d>>
  <2>1. <<a, b, d>> \in Seq({a, b, d}) /\ <<b, d>> \in Seq({b, d})
    OBVIOUS
  <2>2. /\ IsSeq(<<a, b, d>>) /\ Len(<<a, b, d>>) = 3
        /\ <<a, b, d>>[1] = a /\ <<a, b, d>>[2] = b /\ <<a, b, d>>[3] = d
        /\ Len(<<b, d>>) = 2 /\ <<b, d>>[1] = b /\ <<b, d>>[2] = d
    BY <2>1 DEF IsSeq
  <2>3. /\ IsSeq(<<a>> \o <<b, d>>) /\ Len(<<a>> \o <<b, d>>) = 3
        /\ (<<a>> \o <<b, d>>)[1] = a
        /\ (<<a>> \o <<b, d>>)[1 + 1] = b /\ (<<a>> \o <<b, d>>)[1 + 2] = d
    <3>1. IsSeq(<<a>>) /\ IsSeq(<<b, d>>) /\ Len(<<a>>) = 1 /\ <<a>>[1] = a
      BY <1>2, <1>3
    <3>2. /\ IsSeq(<<a>> \o <<b, d>>) /\ Len(<<a>> \o <<b, d>>) = 1 + 2
          /\ \A k \in 1 .. 1 : (<<a>> \o <<b, d>>)[k] = <<a>>[k]
          /\ \A k \in 1 .. 2 : (<<a>> \o <<b, d>>)[1 + k] = <<b, d>>[k]
      BY <2>2, <3>1, IsSeqConcat
    <3> QED
      BY <2>2, <3>1, <3>2
  <2>4. \A k \in 1 .. Len(<<a, b, d>>) : <<a, b, d>>[k] = (<<a>> \o <<b, d>>)[k]
    BY <2>2, <2>3
  <2> QED
    BY <2>2, <2>3, <2>4, SameSeq
<1> QED
  BY <1>1, <1>2, <1>3, <1>4

(* Two instructions. *)
LEMMA RunsTwo ==
  ASSUME NEW i, NEW j, NEW l, NEW N, NEW s, NEW t, NEW u,
         Move(i, l, N, s, t), Move(j, l, N, t, u)
  PROVE  Runs(<<i, j>>, l, N, s, u)
  BY RunsOne, RunsConcat, Literals

(* Three instructions. *)
LEMMA RunsThree ==
  ASSUME NEW i, NEW j, NEW k, NEW l, NEW N, NEW s, NEW t, NEW u, NEW v,
         Move(i, l, N, s, t), Move(j, l, N, t, u), Move(k, l, N, u, v)
  PROVE  Runs(<<i, j, k>>, l, N, s, v)
<1>1. Runs(<<j, k>>, l, N, t, v)
  BY RunsTwo
<1>2. Runs(<<i>>, l, N, s, t)
  BY RunsOne
<1>3. Runs(<<i>> \o <<j, k>>, l, N, s, v)
  BY <1>1, <1>2, RunsConcat, Literals
<1> QED
  BY <1>3, Literals

(* Outlines grow with the code. *)
LEMMA OutlineType ==
  ASSUME NEW R, NEW c, NEW l, NEW N, Outline(R, c, l, N)
  PROVE  R \in [Nat -> SUBSET State(l, N)] /\ \A k \in Nat : k > Len(c) => R[k] = {}
  BY DEF Outline

(* Straight-line code is appended. *)
LEMMA EmitRuns ==
  ASSUME NEW R, NEW c, NEW ch, NEW l, NEW N, NEW X, IsSeq(c), IsSeq(ch), Outline(R, c, l, N),
         \A s \in R[Len(c)] : \E t \in X : Runs(ch, l, N, s, t)
  PROVE  \E Q : Outline(Q, c \o ch, l, N) /\ Keeps(R, Q, Len(c)) /\ Q[Len(c) + Len(ch)] \subseteq X
<1> DEFINE n == Len(c)
           m == Len(ch)
           All == {q \in [0 .. m -> State(l, N)] : IsRun(q, ch, l, N) /\ q[0] \in R[n] /\ q[m] \in X}
           Q == [k \in Nat |-> IF k < n THEN R[k]
                               ELSE IF k <= n + m THEN {q[k - n] : q \in All} ELSE {}]
<1>1. /\ n \in Nat /\ m \in Nat /\ Len(c \o ch) = n + m
      /\ \A k \in 1 .. n : (c \o ch)[k] = c[k]
      /\ \A k \in 1 .. m : (c \o ch)[n + k] = ch[k]
  BY IsSeqConcat
<1>2. R \in [Nat -> SUBSET State(l, N)] /\ \A k \in Nat : k > n => R[k] = {}
  BY DEF Outline
<1>3. \A k \in 0 .. n - 1 : Q[k] = R[k]
  BY <1>1
<1>4. ASSUME NEW k \in 0 .. m PROVE Q[n + k] = {q[k] : q \in All}
  <2>1. n + k \in Nat /\ ~(n + k < n) /\ n + k <= n + m /\ n + k - n = k
    BY <1>1
  <2> HIDE DEF All
  <2> QED
    BY <2>1
<1>5. R[n] \subseteq Q[n]
  <2> SUFFICES ASSUME NEW s \in R[n] PROVE s \in Q[n]
    OBVIOUS
  <2>1. PICK t \in X : Runs(ch, l, N, s, t)
    OBVIOUS
  <2>2. PICK q : IsRun(q, ch, l, N) /\ q[0] = s /\ q[m] = t
    BY <2>1 DEF Runs
  <2>3. q \in All
    BY <2>2 DEF IsRun
  <2>4. 0 \in 0 .. m /\ n + 0 = n
    BY <1>1
  <2> HIDE DEF All, Q
  <2>5. Q[n] = {r[0] : r \in All}
    BY <1>4, <2>4
  <2> QED
    BY <2>2, <2>3, <2>5
<1>6. \A k \in 0 .. n : R[k] \subseteq Q[k]
  <2> HIDE DEF Q
  <2> QED
    BY <1>1, <1>3, <1>5
<1>7. Q[n + m] \subseteq X
  <2>1. m \in 0 .. m
    BY <1>1
  <2>2. Q[n + m] = {q[m] : q \in All}
    BY <1>4, <2>1
  <2> QED
    BY <2>2
<1>8. Q \in [Nat -> SUBSET State(l, N)]
  <2> SUFFICES ASSUME NEW k \in Nat PROVE Q[k] \in SUBSET State(l, N)
    OBVIOUS
  <2>1. CASE k < n
    BY <1>2, <2>1
  <2>2. CASE ~(k < n) /\ k <= n + m
    <3>1. k - n \in 0 .. m
      BY <1>1, <2>2
    <3> QED
      BY <2>2, <3>1
  <2>3. CASE ~(k < n) /\ ~(k <= n + m)
    BY <2>3
  <2> QED
    BY <2>1, <2>2, <2>3
<1>9. ASSUME NEW k \in Nat, k > n + m PROVE Q[k] = {}
  <2>1. ~(k < n) /\ ~(k <= n + m)
    BY <1>1, <1>9
  <2> QED
    BY <2>1
<1> HIDE DEF Q
<1>10. ASSUME NEW k \in 0 .. n - 1
       PROVE  StepOk(Q, (c \o ch)[k + 1], k, l)
  <2>1. StepOk(R, c[k + 1], k, l) /\ (c \o ch)[k + 1] = c[k + 1] /\ Q[k] = R[k]
    BY <1>1, <1>3 DEF Outline
  <2> SUFFICES ASSUME NEW s \in R[k], NEW t \in Nexts(c[k + 1], k)
               PROVE  Safe(c[k + 1], l, s) /\ t \in Nat /\ After(c[k + 1], l, s) \in Q[t]
    BY <2>1 DEF StepOk
  <2>2. Safe(c[k + 1], l, s) /\ t \in Nat /\ After(c[k + 1], l, s) \in R[t]
    BY <2>1 DEF StepOk
  <2>3. t \in 0 .. n
    BY <1>1, <1>2, <2>2
  <2> QED
    BY <1>6, <2>2, <2>3
<1>11. ASSUME NEW k \in 0 .. n - 1
       PROVE  \A s \in R[k] : Safe((c \o ch)[k + 1], l, s)
  BY <1>1 DEF Outline, StepOk
<1>12. ASSUME NEW j \in 0 .. m - 1
       PROVE  StepOk(Q, ch[j + 1], n + j, l)
  <2>1. j \in 0 .. m /\ j + 1 \in 0 .. m /\ n + j + 1 = n + (j + 1) /\ n + j + 1 \in Nat
    BY <1>1
  <2> SUFFICES ASSUME NEW s \in Q[n + j]
               PROVE  Safe(ch[j + 1], l, s)
                      /\ \A t \in Nexts(ch[j + 1], n + j) : t \in Nat /\ After(ch[j + 1], l, s) \in Q[t]
    BY DEF StepOk
  <2>2. PICK q \in All : s = q[j]
    <3> HIDE DEF All
    <3> QED
      BY <1>4, <2>1
  <2>3. Move(ch[j + 1], l, N, q[j], q[j + 1])
    BY DEF IsRun
  <2>4. q[j + 1] \in Q[n + j + 1]
    <3> HIDE DEF All
    <3>1. Q[n + (j + 1)] = {r[j + 1] : r \in All}
      BY <1>4, <2>1
    <3> QED
      BY <2>1, <3>1
  <2>5. Nexts(ch[j + 1], n + j) = {n + j + 1}
    BY <2>3, NextsStraight DEF Move
  <2> QED
    BY <2>1, <2>2, <2>3, <2>4, <2>5 DEF Move
<1>13. ASSUME NEW k \in 0 .. n + m - 1
       PROVE  StepOk(Q, (c \o ch)[k + 1], k, l)
  <2>1. CASE k < n
    <3>1. k \in 0 .. n - 1
      BY <1>1, <2>1
    <3> QED
      BY <1>10, <3>1
  <2>2. CASE k >= n
    <3> DEFINE j == k - n
    <3>1. j \in 0 .. m - 1 /\ j + 1 \in 1 .. m /\ k = n + j /\ k + 1 = n + (j + 1)
      BY <1>1, <2>2
    <3> HIDE DEF j
    <3>2. (c \o ch)[k + 1] = ch[j + 1]
      BY <1>1, <3>1
    <3> QED
      BY <1>12, <3>1, <3>2
  <2> QED
    BY <1>1, <2>1, <2>2
<1>14. Outline(Q, c \o ch, l, N)
  BY <1>1, <1>8, <1>9, <1>13 DEF Outline
<1>15. Keeps(R, Q, n)
  BY <1>3, <1>5 DEF Keeps
<1> QED
  BY <1>7, <1>14, <1>15

(* One instruction is appended that may jump back; the states after it are      *)
(* any, as after a jump or a hole.                                              *)
LeadsBack(R, i, n, l) ==
  \A s \in R[n] : Safe(i, l, s) /\ \A t \in Nexts(i, n) : t \in 0 .. n /\ After(i, l, s) \in R[t]
Starts(R, Q, n, X) == (\A k \in 0 .. n : Q[k] = R[k]) /\ Q[n + 1] = X
Widened(R, Q, n, X) == (\A k \in 0 .. n - 1 : Q[k] = R[k]) /\ Q[n] = R[n] \cup X

(* The outline of code to which one instruction is appended. *)
LEMMA EmitOne ==
  ASSUME NEW R, NEW c, NEW i, NEW l, NEW N, NEW X, IsSeq(c), Outline(R, c, l, N),
         X \subseteq State(l, N), LeadsBack(R, i, Len(c), l)
  PROVE  \E Q : Outline(Q, Append(c, i), l, N) /\ Starts(R, Q, Len(c), X)
<1> DEFINE n == Len(c)
           Q == [R EXCEPT ![n + 1] = X]
<1>1. /\ n \in Nat /\ Len(Append(c, i)) = n + 1 /\ Append(c, i)[n + 1] = i
      /\ \A k \in 1 .. n : Append(c, i)[k] = c[k]
  BY IsSeqFacts
<1>2. R \in [Nat -> SUBSET State(l, N)] /\ \A k \in Nat : k > n => R[k] = {}
  BY DEF Outline
<1>3. Q \in [Nat -> SUBSET State(l, N)] /\ Q[n + 1] = X /\ \A k \in Nat : k # n + 1 => Q[k] = R[k]
  BY <1>1, <1>2
<1> HIDE DEF Q
<1>4. \A k \in 0 .. n : Q[k] = R[k]
  BY <1>1, <1>3
<1>5. ASSUME NEW k \in 0 .. n PROVE StepOk(Q, Append(c, i)[k + 1], k, l)
  <2>1. CASE k < n
    <3>1. StepOk(R, c[k + 1], k, l) /\ Append(c, i)[k + 1] = c[k + 1]
      BY <1>1, <2>1 DEF Outline
    <3> SUFFICES ASSUME NEW s \in R[k], NEW t \in Nexts(c[k + 1], k)
                 PROVE  Safe(c[k + 1], l, s) /\ t \in Nat /\ After(c[k + 1], l, s) \in Q[t]
      BY <1>4, <3>1 DEF StepOk
    <3>2. Safe(c[k + 1], l, s) /\ t \in Nat /\ After(c[k + 1], l, s) \in R[t]
      BY <3>1 DEF StepOk
    <3> QED
      BY <1>1, <1>2, <1>4, <3>2
  <2>2. CASE k = n
    <3> SUFFICES ASSUME NEW s \in R[n]
                 PROVE  Safe(i, l, s) /\ \A t \in Nexts(i, n) : t \in Nat /\ After(i, l, s) \in Q[t]
      BY <1>1, <1>4, <2>2 DEF StepOk
    <3> QED
      BY <1>1, <1>4 DEF LeadsBack
  <2> QED
    BY <1>1, <2>1, <2>2
<1>6. \A k \in Nat : k > n + 1 => Q[k] = {}
  BY <1>1, <1>2, <1>3
<1>7. Outline(Q, Append(c, i), l, N)
  BY <1>1, <1>3, <1>5, <1>6 DEF Outline
<1> QED
  BY <1>3, <1>4, <1>7 DEF Starts

(* More states reach the end. *)
LEMMA Widen ==
  ASSUME NEW R, NEW c, NEW l, NEW N, NEW X, IsSeq(c), Outline(R, c, l, N), X \subseteq State(l, N)
  PROVE  \E Q : Outline(Q, c, l, N) /\ Widened(R, Q, Len(c), X)
<1> DEFINE n == Len(c)
           Q == [R EXCEPT ![n] = @ \cup X]
<1>1. n \in Nat
  BY IsSeqFacts
<1>2. R \in [Nat -> SUBSET State(l, N)] /\ \A k \in Nat : k > n => R[k] = {}
  BY DEF Outline
<1>3. Q \in [Nat -> SUBSET State(l, N)] /\ Q[n] = R[n] \cup X /\ \A k \in Nat : k # n => Q[k] = R[k]
  BY <1>1, <1>2
<1> HIDE DEF Q
<1>4. \A k \in Nat : R[k] \subseteq Q[k]
  BY <1>3
<1>5. ASSUME NEW k \in 0 .. n - 1 PROVE StepOk(Q, c[k + 1], k, l)
  <2>1. StepOk(R, c[k + 1], k, l) /\ Q[k] = R[k]
    BY <1>1, <1>3 DEF Outline
  <2> QED
    BY <1>4, <2>1 DEF StepOk
<1>6. \A k \in Nat : k > n => Q[k] = {}
  BY <1>1, <1>2, <1>3
<1>7. Outline(Q, c, l, N)
  BY <1>3, <1>5, <1>6 DEF Outline
<1>8. Widened(R, Q, n, X)
  BY <1>1, <1>3 DEF Widened
<1> QED
  BY <1>7, <1>8

(* A hole is filled in. *)
LEMMA FillHole ==
  ASSUME NEW R, NEW c, NEW l, NEW N, IsSeq(c), Outline(R, c, l, N),
         NEW h \in 0 .. Len(c) - 1, NEW i, StepOk(R, i, h, l)
  PROVE  Outline(R, [c EXCEPT ![h + 1] = i], l, N)
<1>1. Len(c) \in Nat /\ h + 1 \in 1 .. Len(c)
  BY IsSeqFacts
<1>2. /\ Len([c EXCEPT ![h + 1] = i]) = Len(c) /\ [c EXCEPT ![h + 1] = i][h + 1] = i
      /\ \A j \in 1 .. Len(c) : j # h + 1 => [c EXCEPT ![h + 1] = i][j] = c[j]
  BY <1>1, IsSeqExcept
<1>3. ASSUME NEW k \in 0 .. Len(c) - 1 PROVE StepOk(R, [c EXCEPT ![h + 1] = i][k + 1], k, l)
  <2>1. CASE k = h
    BY <1>2, <2>1
  <2>2. CASE k # h
    <3>1. k + 1 \in 1 .. Len(c) /\ k + 1 # h + 1
      BY <1>1, <2>2
    <3> QED
      BY <1>2, <3>1 DEF Outline
  <2> QED
    BY <2>1, <2>2
<1> QED
  BY <1>2, <1>3 DEF Outline

(* All instructions at `is` become jumps to x, where their states may go on. *)
LEMMA FillAll ==
  ASSUME NEW R, NEW c, NEW l, NEW N, IsSeq(c), Outline(R, c, l, N), NEW is, NEW x \in Nat,
         \A h \in is : h \in 0 .. Len(c) - 1 => \A s \in R[h] : Clean(l, s) /\ s \in R[x]
  PROVE  Outline(R, PatchAll(c, is, x), l, N)
<1>1. Len(c) \in Nat
  BY IsSeqFacts
<1>2. /\ Len(PatchAll(c, is, x)) = Len(c)
      /\ \A k \in 1 .. Len(c) : PatchAll(c, is, x)[k] = IF k - 1 \in is THEN Jump(x - (k - 1)) ELSE c[k]
  BY IsSeqPatchAll
<1>3. ASSUME NEW k \in 0 .. Len(c) - 1 PROVE StepOk(R, PatchAll(c, is, x)[k + 1], k, l)
  <2>1. k + 1 \in 1 .. Len(c) /\ k + 1 - 1 = k
    BY <1>1
  <2>2. CASE k \in is
    <3>1. PatchAll(c, is, x)[k + 1] = Jump(x - k)
      BY <1>2, <2>1, <2>2
    <3>2. Nexts(Jump(x - k), k) = {x}
      <4>1. k + (x - k) = x
        BY <1>1
      <4> QED
        BY <4>1 DEF Nexts, Jump
    <3>3. \A s \in R[k] : Safe(Jump(x - k), l, s) /\ After(Jump(x - k), l, s) = s
      BY <2>2 DEF Safe, After, Jump
    <3> QED
      BY <2>2, <3>1, <3>2, <3>3 DEF StepOk
  <2>3. CASE k \notin is
    <3>1. PatchAll(c, is, x)[k + 1] = c[k + 1]
      BY <1>2, <2>1, <2>3
    <3> QED
      BY <3>1 DEF Outline
  <2> QED
    BY <2>2, <2>3
<1> QED
  BY <1>2, <1>3 DEF Outline

(* The flags F stand for exactly the live values; besides, the slots O hold one. *)
Settled(l, F) == [flags |-> F, owned |-> SlotsOf(l, F)]
Holding(l, F, O) == [flags |-> F, owned |-> SlotsOf(l, F) \cup O]

(* l[b + 1] is the slot of drop bit b, in a frame of N slots. *)
Slotted(l, z, N) == z \in Nat /\ N \in Nat /\ Len(l) \in Nat /\ \A b \in 0 .. Len(l) - 1 : SlotAt(l, b) \in z .. N - 1

PlaceOk(l, p) ==
  /\ p.slot \in Nat /\ p.lo \in Nat /\ p.hi \in Nat /\ p.lo <= p.hi /\ p.hi < Len(l)
  /\ SlotsOf(l, BitsOf(p)) = p.slot .. p.slot + WidthOf(p) - 1

(* Abstract states of a frame. *)
LEMMA HoldingState ==
  ASSUME NEW l, NEW z, NEW N, Slotted(l, z, N), NEW F \in SUBSET (0 .. Len(l) - 1), NEW O \in SUBSET (0 .. N - 1)
  PROVE  /\ Holding(l, F, O) \in State(l, N) /\ Settled(l, F) \in State(l, N)
         /\ Settled(l, F) = Holding(l, F, {}) /\ SlotsOf(l, F) \subseteq z .. N - 1
<1>1. SlotsOf(l, F) \subseteq z .. N - 1 /\ SlotsOf(l, F) \subseteq 0 .. N - 1
  BY DEF Slotted, SlotsOf
<1> QED
  BY <1>1 DEF Holding, Settled, State

(* A frame whose drop bits P stand for different slots. *)
Frame(l, z, N, P) == Slotted(l, z, N) /\ P \subseteq 0 .. Len(l) - 1 /\ Apart(l, P)

(* The bits X are set and D cleared: X was clear and D set. *)
Rebound(F, X, D, G, P) ==
  /\ F \subseteq P /\ X \subseteq P /\ D \subseteq F /\ F \cap X = {} /\ G = (F \cup X) \ D

(* The bits D are set and S cleared: S was set. *)
Replaced(F, D, S, G, P) ==
  /\ F \subseteq P /\ D \subseteq P /\ S \subseteq F /\ S \cap D = {} /\ G = (F \cup D) \ S

(* The bits of place p, at the slots that it occupies. *)
PlaceAt(l, p, D) == PlaceOk(l, p) /\ D = BitsOf(p)

(* The slots when X is set and D, which was set, is cleared. *)
LEMMA BindSlots ==
  ASSUME NEW l, NEW z, NEW N, NEW P, Frame(l, z, N, P), NEW F, NEW X, NEW D, NEW G, Rebound(F, X, D, G, P)
  PROVE  /\ SlotsOf(l, X) \cap SlotsOf(l, F) = {} /\ SlotsOf(l, D) \subseteq SlotsOf(l, F)
         /\ SlotsOf(l, G) = (SlotsOf(l, F) \ SlotsOf(l, D)) \cup SlotsOf(l, X)
         /\ SlotsOf(l, F) \subseteq 0 .. N - 1 /\ SlotsOf(l, X) \subseteq 0 .. N - 1
<1>1. SlotsOf(l, F) \subseteq 0 .. N - 1 /\ SlotsOf(l, X) \subseteq 0 .. N - 1
  BY DEF SlotsOf, Frame, Slotted, Rebound
<1>2. /\ SlotsOf(l, X) \cap SlotsOf(l, F) = {} /\ SlotsOf(l, D) \subseteq SlotsOf(l, F)
      /\ SlotsOf(l, G) = (SlotsOf(l, F) \ SlotsOf(l, D)) \cup SlotsOf(l, X)
  BY DEF SlotsOf, Apart, Frame, Rebound
<1> QED
  BY <1>1, <1>2

Overlap(l, F, D) == SlotsOf(l, F \cap D)

(* The slots when the old value at D is dropped and that of S moves in. *)
LEMMA IntoSlots ==
  ASSUME NEW l, NEW z, NEW N, NEW P, Frame(l, z, N, P), NEW F, NEW D, NEW S, NEW G, Replaced(F, D, S, G, P)
  PROVE  /\ SlotsOf(l, D) \cap (SlotsOf(l, F) \ Overlap(l, F, D)) = {}
         /\ SlotsOf(l, S) \subseteq SlotsOf(l, F) \ Overlap(l, F, D)
         /\ SlotsOf(l, G) = ((SlotsOf(l, F) \ Overlap(l, F, D)) \ SlotsOf(l, S)) \cup SlotsOf(l, D)
         /\ SlotsOf(l, F) \subseteq 0 .. N - 1 /\ SlotsOf(l, D) \subseteq 0 .. N - 1 /\ Apart(l, F)
<1>1. SlotsOf(l, F) \subseteq 0 .. N - 1 /\ SlotsOf(l, D) \subseteq 0 .. N - 1
  BY DEF SlotsOf, Frame, Slotted, Replaced
<1>2. /\ SlotsOf(l, D) \cap (SlotsOf(l, F) \ Overlap(l, F, D)) = {}
      /\ SlotsOf(l, S) \subseteq SlotsOf(l, F) \ Overlap(l, F, D)
      /\ SlotsOf(l, G) = ((SlotsOf(l, F) \ Overlap(l, F, D)) \ SlotsOf(l, S)) \cup SlotsOf(l, D)
      /\ Apart(l, F)
  BY DEF SlotsOf, Overlap, Apart, Frame, Replaced
<1> QED
  BY <1>1, <1>2

(* The bits of a place and their slots. *)
LEMMA PlaceFacts ==
  ASSUME NEW l, NEW p, NEW D, PlaceAt(l, p, D)
  PROVE  /\ p.lo \in Nat /\ p.hi \in Nat /\ p.slot \in Nat /\ p.lo <= p.hi /\ D = p.lo .. p.hi
         /\ WidthOf(p) \in Nat \ {0} /\ SlotsOf(l, D) = p.slot .. p.slot + WidthOf(p) - 1
  BY DEF PlaceAt, PlaceOk, BitsOf, WidthOf

(* A by-value binding (match_pattern_internal) moves the value and the flags. *)
LEMMA BindRun ==
  ASSUME NEW l, NEW z, NEW N, NEW P, Frame(l, z, N, P),
         NEW x, NEW p, NEW X, NEW D, PlaceAt(l, PlaceOf(x), X), PlaceAt(l, p, D),
         x.n = WidthOf(p), NEW F, NEW G, Rebound(F, X, D, G, P)
  PROVE  Runs(Bind(x, p), l, N, Settled(l, F), Settled(l, G))
<1> DEFINE O == (SlotsOf(l, F) \ SlotsOf(l, D)) \cup SlotsOf(l, X)
           s1 == [flags |-> F, owned |-> O]
           s2 == [flags |-> F \cup X, owned |-> O]
           i == Copy(x.slot, p.slot, x.n)
           j == Ranged("LocalInit", x.lo, x.lo + x.n - 1)
           k == Ranged("LocalMove", p.lo, p.hi)
<1>1. /\ X = x.lo .. x.lo + x.n - 1 /\ SlotsOf(l, X) = x.slot .. x.slot + x.n - 1
      /\ D = p.lo .. p.hi /\ SlotsOf(l, D) = p.slot .. p.slot + x.n - 1
  <2>1. WidthOf(PlaceOf(x)) = x.n
    <3>1. x.n \in Nat /\ x.lo \in Nat
      BY PlaceFacts DEF PlaceOf
    <3> QED
      BY <3>1 DEF WidthOf, PlaceOf
  <2>2. /\ X = PlaceOf(x).lo .. PlaceOf(x).hi /\ D = p.lo .. p.hi
        /\ SlotsOf(l, X) = PlaceOf(x).slot .. PlaceOf(x).slot + WidthOf(PlaceOf(x)) - 1
        /\ SlotsOf(l, D) = p.slot .. p.slot + WidthOf(p) - 1
    BY PlaceFacts
  <2> QED
    BY <2>1, <2>2 DEF PlaceOf
<1>2. /\ SlotsOf(l, X) \cap SlotsOf(l, F) = {} /\ SlotsOf(l, D) \subseteq SlotsOf(l, F)
      /\ SlotsOf(l, G) = O /\ SlotsOf(l, F) \subseteq 0 .. N - 1 /\ SlotsOf(l, X) \subseteq 0 .. N - 1
  BY BindSlots
<1>3. Settled(l, F) \in State(l, N) /\ s1 \in State(l, N) /\ s2 \in State(l, N) /\ Settled(l, G) \in State(l, N)
  <2>1. O \subseteq 0 .. N - 1
    BY <1>2
  <2>2. F \subseteq 0 .. Len(l) - 1 /\ G \subseteq 0 .. Len(l) - 1 /\ F \cup X \subseteq 0 .. Len(l) - 1
    BY DEF Frame, Rebound
  <2> HIDE DEF O
  <2> QED
    BY <1>2, <2>1, <2>2 DEF State, Settled
<1>4. F \cap X = {} /\ D \subseteq F \cup X /\ G = (F \cup X) \ D
  BY DEF Rebound
<1> HIDE DEF s1, s2
<1>5. Move(i, l, N, Settled(l, F), s1)
  <2>1. Sources(i) = SlotsOf(l, D) /\ Targets(i) = SlotsOf(l, X) /\ i.op = "Copy"
    BY <1>1 DEF Sources, Targets, Copy
  <2>4. i.src \in Nat /\ i.dst \in Nat /\ i.n \in Nat
    <3>1. p.slot \in Nat /\ WidthOf(p) \in Nat /\ PlaceOf(x).slot \in Nat
      BY PlaceFacts
    <3>2. x.slot = PlaceOf(x).slot
      BY DEF PlaceOf
    <3> QED
      BY <3>1, <3>2 DEF Copy
  <2> HIDE DEF i
  <2>2. Safe(i, l, Settled(l, F))
    BY <1>2, <2>1, <2>4 DEF Safe, Settled
  <2>3. After(i, l, Settled(l, F)) = s1
    BY <2>1 DEF After, Settled, s1
  <2> QED
    BY <1>3, <2>1, <2>2, <2>3 DEF Move, Straight
<1>6. Move(j, l, N, s1, s2)
  <2>1. Range(j) = X /\ j.op = "LocalInit"
    BY <1>1 DEF Range, Ranged
  <2> HIDE DEF j
  <2>2. Safe(j, l, s1)
    BY <1>4, <2>1 DEF Safe, s1
  <2>3. After(j, l, s1) = s2
    BY <2>1 DEF After, s1, s2
  <2> QED
    BY <1>3, <2>1, <2>2, <2>3 DEF Move, Straight
<1>7. Move(k, l, N, s2, Settled(l, G))
  <2>1. Range(k) = D /\ k.op = "LocalMove"
    BY <1>1 DEF Range, Ranged
  <2> HIDE DEF k
  <2>2. Safe(k, l, s2)
    BY <1>4, <2>1 DEF Safe, s2
  <2>3. After(k, l, s2) = Settled(l, G)
    BY <1>2, <1>4, <2>1 DEF After, Settled, s2
  <2> QED
    BY <1>3, <2>1, <2>2, <2>3 DEF Move, Straight
<1>8. Runs(<<i, j, k>>, l, N, Settled(l, F), Settled(l, G))
  BY <1>5, <1>6, <1>7, RunsThree
<1> QED
  BY <1>8 DEF Bind

(* local_move drops the old value and moves in the new one, with the flags. *)
LEMMA MoveIntoRun ==
  ASSUME NEW l, NEW z, NEW N, NEW P, Frame(l, z, N, P),
         NEW d, NEW p, NEW D, NEW S, PlaceAt(l, d, D), PlaceAt(l, p, S),
         WidthOf(d) = WidthOf(p), NEW F, NEW G, Replaced(F, D, S, G, P)
  PROVE  Runs(MoveInto(d, p), l, N, Settled(l, F), Settled(l, G))
<1> DEFINE O == SlotsOf(l, F) \ Overlap(l, F, D)
           O2 == (O \ SlotsOf(l, S)) \cup SlotsOf(l, D)
           s1 == [flags |-> F \cup D, owned |-> O]
           s2 == [flags |-> F \cup D, owned |-> O2]
           i == Ranged("LocalDropInit", d.lo, d.hi)
           j == Copy(d.slot, p.slot, WidthOf(p))
           k == Ranged("LocalMove", p.lo, p.hi)
<1>1. /\ D = d.lo .. d.hi /\ SlotsOf(l, D) = d.slot .. d.slot + WidthOf(p) - 1
      /\ S = p.lo .. p.hi /\ SlotsOf(l, S) = p.slot .. p.slot + WidthOf(p) - 1
  BY PlaceFacts
<1>2. /\ SlotsOf(l, D) \cap O = {} /\ SlotsOf(l, S) \subseteq O
      /\ SlotsOf(l, G) = O2 /\ Apart(l, F)
      /\ SlotsOf(l, F) \subseteq 0 .. N - 1 /\ SlotsOf(l, D) \subseteq 0 .. N - 1
  BY IntoSlots
<1>3. Settled(l, F) \in State(l, N) /\ s1 \in State(l, N) /\ s2 \in State(l, N) /\ Settled(l, G) \in State(l, N)
  <2>1. O \subseteq 0 .. N - 1 /\ O2 \subseteq 0 .. N - 1
    BY <1>2
  <2>2. F \subseteq 0 .. Len(l) - 1 /\ G \subseteq 0 .. Len(l) - 1 /\ F \cup D \subseteq 0 .. Len(l) - 1
    BY DEF Frame, Replaced
  <2> HIDE DEF O, O2
  <2> QED
    BY <1>2, <2>1, <2>2 DEF State, Settled
<1>4. S \subseteq F \cup D /\ G = (F \cup D) \ S
  BY DEF Replaced
<1> HIDE DEF s1, s2, O2, O
<1>5. Move(i, l, N, Settled(l, F), s1)
  <2>1. Range(i) = D /\ i.op = "LocalDropInit"
    BY <1>1 DEF Range, Ranged
  <2> HIDE DEF i
  <2>2. Safe(i, l, Settled(l, F))
    BY <1>2, <2>1 DEF Safe, Settled, Clean
  <2>3. After(i, l, Settled(l, F)) = s1
    BY <2>1 DEF After, Settled, s1, O, Overlap
  <2> QED
    BY <1>3, <2>1, <2>2, <2>3 DEF Move, Straight
<1>6. Move(j, l, N, s1, s2)
  <2>1. Sources(j) = SlotsOf(l, S) /\ Targets(j) = SlotsOf(l, D) /\ j.op = "Copy"
    BY <1>1 DEF Sources, Targets, Copy
  <2>4. j.src \in Nat /\ j.dst \in Nat /\ j.n \in Nat
    <3>1. p.slot \in Nat /\ WidthOf(p) \in Nat /\ d.slot \in Nat
      BY PlaceFacts
    <3> QED
      BY <3>1 DEF Copy
  <2> HIDE DEF j
  <2>2. Safe(j, l, s1)
    BY <1>2, <2>1, <2>4 DEF Safe, s1
  <2>3. After(j, l, s1) = s2
    BY <2>1 DEF After, s1, s2, O2
  <2> QED
    BY <1>3, <2>1, <2>2, <2>3 DEF Move, Straight
<1>7. Move(k, l, N, s2, Settled(l, G))
  <2>1. Range(k) = S /\ k.op = "LocalMove"
    BY <1>1 DEF Range, Ranged
  <2> HIDE DEF k
  <2>2. Safe(k, l, s2)
    BY <1>4, <2>1 DEF Safe, s2
  <2>3. After(k, l, s2) = Settled(l, G)
    BY <1>2, <1>4, <2>1 DEF After, Settled, s2
  <2> QED
    BY <1>3, <2>1, <2>2, <2>3 DEF Move, Straight
<1>8. Runs(<<i, j, k>>, l, N, Settled(l, F), Settled(l, G))
  BY <1>5, <1>6, <1>7, RunsThree
<1> QED
  BY <1>8 DEF MoveInto

Added(F, b, G, P) == F \subseteq P /\ b \in P \ F /\ G = F \cup {b}
Without(F, D, G, P) == F \subseteq P /\ D \subseteq F /\ G = F \ D
Below(l, F, x) == \A y \in SlotsOf(l, F) : y < x

(* The slots when bit b is set besides F. *)
LEMMA AddedSlots ==
  ASSUME NEW l, NEW z, NEW N, NEW P, Frame(l, z, N, P), NEW F, NEW b, NEW G, Added(F, b, G, P)
  PROVE  /\ SlotsOf(l, G) = SlotsOf(l, F) \cup {SlotAt(l, b)} /\ SlotAt(l, b) \notin SlotsOf(l, F)
         /\ SlotsOf(l, F) \subseteq 0 .. N - 1 /\ SlotAt(l, b) \in 0 .. N - 1 /\ Apart(l, F)
         /\ F \subseteq 0 .. Len(l) - 1 /\ G \subseteq 0 .. Len(l) - 1 /\ G = F \cup {b} /\ b \notin F
<1>1. SlotsOf(l, F) \subseteq 0 .. N - 1 /\ SlotAt(l, b) \in 0 .. N - 1
  BY DEF SlotsOf, Frame, Slotted, Added
<1>2. /\ SlotsOf(l, G) = SlotsOf(l, F) \cup {SlotAt(l, b)} /\ SlotAt(l, b) \notin SlotsOf(l, F)
      /\ Apart(l, F)
  BY DEF SlotsOf, Apart, Frame, Added
<1>3. F \subseteq 0 .. Len(l) - 1 /\ G \subseteq 0 .. Len(l) - 1 /\ G = F \cup {b} /\ b \notin F
  BY DEF Frame, Added
<1> QED
  BY <1>1, <1>2, <1>3

(* A call that returns a value, whose slot then is flagged. *)
LEMMA CallRun ==
  ASSUME NEW l, NEW z, NEW N, NEW P, Frame(l, z, N, P), NEW F, NEW b, NEW G, Added(F, b, G, P),
         NEW s, F \subseteq Pending(s), Below(l, F, SlotAt(l, b))
  PROVE  Runs(<<Call(s, SlotAt(l, b), {}, TRUE), Ranged("LocalInit", b, b)>>, l, N,
              Settled(l, F), Settled(l, G))
<1> DEFINE f == SlotAt(l, b)
           O == SlotsOf(l, F) \cup {f}
           s1 == [flags |-> F, owned |-> O]
           i == Call(s, f, {}, TRUE)
           j == Ranged("LocalInit", b, b)
<1>1. /\ SlotsOf(l, G) = O /\ f \notin SlotsOf(l, F)
      /\ SlotsOf(l, F) \subseteq 0 .. N - 1 /\ f \in 0 .. N - 1 /\ Apart(l, F)
      /\ F \subseteq 0 .. Len(l) - 1 /\ G \subseteq 0 .. Len(l) - 1 /\ G = F \cup {b} /\ b \notin F
  BY AddedSlots
<1>2. b .. b = {b}
  <2>1. b \in Int
    BY DEF Added, Frame
  <2> QED
    BY <2>1
<1>3. Settled(l, F) \in State(l, N) /\ Settled(l, G) \in State(l, N) /\ s1 \in State(l, N)
  BY <1>1 DEF State, Settled
<1> HIDE DEF s1
<1>4. Move(i, l, N, Settled(l, F), s1)
  <2>1. Safe(i, l, Settled(l, F))
    BY <1>1 DEF Safe, Clean, Settled, Call, Below
  <2>2. After(i, l, Settled(l, F)) = s1
    BY DEF After, Settled, Call, s1
  <2> QED
    BY <1>3, <2>1, <2>2 DEF Move, Straight, Call
<1>5. Move(j, l, N, s1, Settled(l, G))
  <2>1. Range(j) = {b} /\ j.op = "LocalInit"
    BY <1>2 DEF Ranged, Range
  <2> HIDE DEF j
  <2>2. Safe(j, l, s1)
    BY <1>1, <2>1 DEF Safe, s1
  <2>3. After(j, l, s1) = Settled(l, G)
    BY <1>1, <2>1 DEF After, Settled, s1
  <2> QED
    BY <1>3, <2>1, <2>2, <2>3 DEF Move, Straight
<1> QED
  BY <1>4, <1>5, RunsTwo

(* A field of a pair is copied from the slot e of its call. *)
LEMMA FieldRun ==
  ASSUME NEW l, NEW z, NEW N, NEW P, Frame(l, z, N, P), NEW F, NEW b, NEW G, Added(F, b, G, P),
         NEW s, F \subseteq Pending(s), NEW e \in 0 .. N - 1, SlotAt(l, b) # e, Below(l, F, e)
  PROVE  Runs(<<Call(s, e, {}, TRUE), Copy(SlotAt(l, b), e, 1), Ranged("LocalInit", b, b)>>, l, N,
              Settled(l, F), Settled(l, G))
<1> DEFINE f == SlotAt(l, b)
           O == SlotsOf(l, F) \cup {f}
           s1 == [flags |-> F, owned |-> SlotsOf(l, F) \cup {e}]
           s2 == [flags |-> F, owned |-> O]
           i == Call(s, e, {}, TRUE)
           j == Copy(f, e, 1)
           k == Ranged("LocalInit", b, b)
<1>1. /\ SlotsOf(l, G) = O /\ f \notin SlotsOf(l, F)
      /\ SlotsOf(l, F) \subseteq 0 .. N - 1 /\ f \in 0 .. N - 1 /\ Apart(l, F)
      /\ F \subseteq 0 .. Len(l) - 1 /\ G \subseteq 0 .. Len(l) - 1 /\ G = F \cup {b} /\ b \notin F
  BY AddedSlots
<1>2. b .. b = {b} /\ f .. f + 1 - 1 = {f} /\ e .. e + 1 - 1 = {e}
  <2>1. b \in Int
    BY DEF Added, Frame
  <2>2. f \in Int
    BY <1>1
  <2> HIDE DEF f
  <2> QED
    BY <2>1, <2>2
<1>6. e \notin SlotsOf(l, F)
  BY DEF Below
<1>3. /\ Settled(l, F) \in State(l, N) /\ Settled(l, G) \in State(l, N) /\ s1 \in State(l, N)
      /\ s2 \in State(l, N)
  BY <1>1 DEF State, Settled
<1> HIDE DEF s1, s2
<1>4. Move(i, l, N, Settled(l, F), s1)
  <2>1. Safe(i, l, Settled(l, F))
    BY <1>1 DEF Safe, Clean, Settled, Call, Below
  <2>2. After(i, l, Settled(l, F)) = s1
    BY DEF After, Settled, Call, s1
  <2> QED
    BY <1>3, <2>1, <2>2 DEF Move, Straight, Call
<1>5. Move(j, l, N, s1, s2)
  <2>1. Sources(j) = {e} /\ Targets(j) = {f} /\ j.op = "Copy"
    BY <1>2 DEF Sources, Targets, Copy
  <2>4. j.src \in Nat /\ j.dst \in Nat /\ j.n \in Nat
    <3>1. f \in Nat
      BY <1>1
    <3> HIDE DEF f
    <3> QED
      BY <3>1 DEF Copy
  <2> HIDE DEF j
  <2>2. Safe(j, l, s1)
    BY <1>1, <2>1, <2>4 DEF Safe, s1
  <2>3. After(j, l, s1) = s2
    BY <1>6, <2>1 DEF After, s1, s2
  <2> QED
    BY <1>3, <2>1, <2>2, <2>3 DEF Move, Straight
<1>7. Move(k, l, N, s2, Settled(l, G))
  <2>1. Range(k) = {b} /\ k.op = "LocalInit"
    BY <1>2 DEF Ranged, Range
  <2> HIDE DEF k
  <2>2. Safe(k, l, s2)
    BY <1>1, <2>1 DEF Safe, s2
  <2>3. After(k, l, s2) = Settled(l, G)
    BY <1>1, <2>1 DEF After, Settled, s2
  <2> QED
    BY <1>3, <2>1, <2>2, <2>3 DEF Move, Straight
<1> QED
  BY <1>4, <1>5, <1>7, RunsThree

(* The slots when the bits D are cleared. *)
LEMMA WithoutSlots ==
  ASSUME NEW l, NEW z, NEW N, NEW P, Frame(l, z, N, P), NEW F, NEW D, NEW G, Without(F, D, G, P)
  PROVE  /\ SlotsOf(l, G) = SlotsOf(l, F) \ SlotsOf(l, D) /\ SlotsOf(l, D) \subseteq SlotsOf(l, F)
         /\ SlotsOf(l, F) \subseteq 0 .. N - 1 /\ Apart(l, F) /\ Apart(l, G)
         /\ F \subseteq 0 .. Len(l) - 1 /\ G \subseteq 0 .. Len(l) - 1 /\ G = F \ D /\ D \subseteq F
<1>1. SlotsOf(l, F) \subseteq 0 .. N - 1
  BY DEF SlotsOf, Frame, Slotted, Without
<1>2. /\ SlotsOf(l, G) = SlotsOf(l, F) \ SlotsOf(l, D) /\ SlotsOf(l, D) \subseteq SlotsOf(l, F)
      /\ Apart(l, F) /\ Apart(l, G)
  BY DEF SlotsOf, Apart, Frame, Without
<1>3. F \subseteq 0 .. Len(l) - 1 /\ G \subseteq 0 .. Len(l) - 1 /\ G = F \ D /\ D \subseteq F
  BY DEF Frame, Without
<1> QED
  BY <1>1, <1>2, <1>3

(* A place is moved to slots that own nothing. *)
LEMMA GiveMoves ==
  ASSUME NEW l, NEW z, NEW N, NEW P, Frame(l, z, N, P), NEW p, NEW D, PlaceAt(l, p, D),
         NEW F, NEW G, Without(F, D, G, P), NEW a, NEW A, a \in Nat, A = a .. a + WidthOf(p) - 1,
         A \subseteq 0 .. N - 1, A \cap SlotsOf(l, F) = {}
  PROVE  \E t : /\ Move(Copy(a, p.slot, WidthOf(p)), l, N, Settled(l, F), t)
                /\ Move(Ranged("LocalMove", p.lo, p.hi), l, N, t, Holding(l, G, A))
<1> DEFINE s1 == [flags |-> F, owned |-> (SlotsOf(l, F) \ SlotsOf(l, D)) \cup A]
           i == Copy(a, p.slot, WidthOf(p))
           k == Ranged("LocalMove", p.lo, p.hi)
<1>1. /\ SlotsOf(l, G) = SlotsOf(l, F) \ SlotsOf(l, D) /\ SlotsOf(l, D) \subseteq SlotsOf(l, F)
      /\ SlotsOf(l, F) \subseteq 0 .. N - 1
      /\ F \subseteq 0 .. Len(l) - 1 /\ G \subseteq 0 .. Len(l) - 1 /\ G = F \ D /\ D \subseteq F
  BY WithoutSlots
<1>2. D = p.lo .. p.hi /\ SlotsOf(l, D) = p.slot .. p.slot + WidthOf(p) - 1
  BY PlaceFacts
<1>3. Settled(l, F) \in State(l, N) /\ s1 \in State(l, N) /\ Holding(l, G, A) \in State(l, N)
  BY <1>1 DEF State, Settled, Holding
<1> HIDE DEF s1
<1>4. Move(i, l, N, Settled(l, F), s1)
  <2>1. Sources(i) = SlotsOf(l, D) /\ Targets(i) = A /\ i.op = "Copy"
    BY <1>2 DEF Sources, Targets, Copy
  <2>4. i.src \in Nat /\ i.dst \in Nat /\ i.n \in Nat
    <3>1. p.slot \in Nat /\ WidthOf(p) \in Nat
      BY PlaceFacts
    <3> QED
      BY <3>1 DEF Copy
  <2> HIDE DEF i
  <2>2. Safe(i, l, Settled(l, F))
    BY <1>1, <2>1, <2>4 DEF Safe, Settled
  <2>3. After(i, l, Settled(l, F)) = s1
    BY <2>1 DEF After, Settled, s1
  <2> QED
    BY <1>3, <2>1, <2>2, <2>3 DEF Move, Straight
<1>5. Move(k, l, N, s1, Holding(l, G, A))
  <2>1. Range(k) = D /\ k.op = "LocalMove"
    BY <1>2 DEF Range, Ranged
  <2> HIDE DEF k
  <2>2. Safe(k, l, s1)
    BY <1>1, <2>1 DEF Safe, s1
  <2>3. After(k, l, s1) = Holding(l, G, A)
    BY <1>1, <2>1 DEF After, Holding, s1
  <2> QED
    BY <1>3, <2>1, <2>2, <2>3 DEF Move, Straight
<1> QED
  BY <1>4, <1>5

(* A call that is given a place's value: the flags are cleared first. *)
LEMMA PassRun ==
  ASSUME NEW l, NEW z, NEW N, NEW P, Frame(l, z, N, P), NEW p, NEW D, PlaceAt(l, p, D),
         NEW F, NEW G, Without(F, D, G, P), NEW f \in Nat, NEW a \in Nat, f <= a, a + WidthOf(p) <= N,
         Below(l, F, f), NEW s, F \subseteq Pending(s)
  PROVE  Runs(<<Copy(a, p.slot, WidthOf(p)), Ranged("LocalMove", p.lo, p.hi),
                Call(s, f, a .. a + WidthOf(p) - 1, FALSE)>>, l, N, Settled(l, F), Settled(l, G))
<1> DEFINE A == a .. a + WidthOf(p) - 1
           k == Call(s, f, A, FALSE)
<1>1. N \in Nat /\ WidthOf(p) \in Nat
  BY PlaceFacts DEF Frame, Slotted
<1>2. A \subseteq 0 .. N - 1 /\ \A x \in A : x >= f
  BY <1>1
<1>3. /\ SlotsOf(l, G) = SlotsOf(l, F) \ SlotsOf(l, D) /\ SlotsOf(l, F) \subseteq 0 .. N - 1 /\ Apart(l, G)
      /\ F \subseteq 0 .. Len(l) - 1 /\ G \subseteq 0 .. Len(l) - 1 /\ G = F \ D /\ D \subseteq F
  BY WithoutSlots
<1>4. A \cap SlotsOf(l, F) = {}
  <2> SUFFICES ASSUME NEW x \in A, x \in SlotsOf(l, F) PROVE FALSE
    OBVIOUS
  <2>1. x \in Nat /\ x >= f /\ x < f
    BY <1>2 DEF Below
  <2> QED
    BY <2>1
<1> HIDE DEF A
<1>5. PICK t : /\ Move(Copy(a, p.slot, WidthOf(p)), l, N, Settled(l, F), t)
               /\ Move(Ranged("LocalMove", p.lo, p.hi), l, N, t, Holding(l, G, A))
  BY <1>2, <1>4, GiveMoves DEF A
<1>6. Move(k, l, N, Holding(l, G, A), Settled(l, G))
  <2>1. SlotsOf(l, G) \subseteq SlotsOf(l, F) /\ A \cap SlotsOf(l, G) = {}
    BY <1>3, <1>4
  <2>2. Safe(k, l, Holding(l, G, A))
    <3>1. Clean(l, Holding(l, G, A))
      BY <1>3 DEF Clean, Holding
    <3>2. G \subseteq Pending(s) /\ \A x \in SlotsOf(l, G) : x < f
      BY <1>3, <2>1 DEF Below
    <3> QED
      BY <3>1, <3>2 DEF Safe, Holding, Call
  <2>3. After(k, l, Holding(l, G, A)) = Settled(l, G)
    BY <2>1 DEF After, Holding, Settled, Call
  <2>4. Settled(l, G) \in State(l, N)
    BY <1>3, <2>1 DEF State, Settled
  <2> QED
    BY <1>5, <2>2, <2>3, <2>4 DEF Move, Straight, Call
<1> QED
  BY <1>5, <1>6, RunsThree DEF A

(* The function's result is moved to slot 0. *)
LEMMA ResultRun ==
  ASSUME NEW l, NEW z, NEW N, NEW P, Frame(l, z, N, P), z > 0, N > 0, NEW p, NEW D, PlaceAt(l, p, D), WidthOf(p) = 1,
         NEW F, NEW G, Without(F, D, G, P)
  PROVE  Runs(<<Copy(0, p.slot, 1), Ranged("LocalMove", p.lo, p.hi)>>, l, N, Settled(l, F), Holding(l, G, {0}))
<1>1. N \in Nat /\ z \in Nat /\ {0} = 0 .. 0 + WidthOf(p) - 1
  BY DEF Frame, Slotted
<1>2. {0} \cap SlotsOf(l, F) = {} /\ {0} \subseteq 0 .. N - 1
  <2>1. \A b \in F : SlotAt(l, b) \in z .. N - 1
    BY DEF Frame, Slotted, Without
  <2> QED
    BY <1>1, <2>1 DEF SlotsOf
<1> DEFINE A == {0}
<1>3. A = 0 .. 0 + WidthOf(p) - 1 /\ A \cap SlotsOf(l, F) = {} /\ A \subseteq 0 .. N - 1
  BY <1>1, <1>2
<1> HIDE DEF A
<1>4. PICK t : /\ Move(Copy(0, p.slot, WidthOf(p)), l, N, Settled(l, F), t)
               /\ Move(Ranged("LocalMove", p.lo, p.hi), l, N, t, Holding(l, G, A))
  BY <1>3, GiveMoves
<1> QED
  BY <1>4, RunsTwo DEF A

(* A plain value is written to a slot that holds nothing. *)
LEMMA ConstRun ==
  ASSUME NEW l, NEW N, NEW F, Settled(l, F) \in State(l, N), NEW d, d \notin SlotsOf(l, F)
  PROVE  Runs(<<Const(d)>>, l, N, Settled(l, F), Settled(l, F))
<1>1. Move(Const(d), l, N, Settled(l, F), Settled(l, F))
  BY DEF Move, Straight, Const, Safe, After, Settled
<1> QED
  BY <1>1, RunsOne

(* The LocalDrop at the end of scope s. *)
LEMMA ScopeDropRun ==
  ASSUME NEW s, NEW l, l = s.leafs, NEW z, NEW N, Slotted(l, z, N), s.first \in Nat,
         NEW F, F \subseteq 0 .. Len(l) - 1, Apart(l, F), NEW G, G = F \ ScopeBits(s),
         NEW O, O \subseteq 0 .. N - 1, O \cap SlotsOf(l, F) = {}
  PROVE  IsSeq(ScopeDrop(s)) /\ Runs(ScopeDrop(s), l, N, Holding(l, F, O), Holding(l, G, O))
         /\ \A k \in 1 .. Len(ScopeDrop(s)) : ScopeDrop(s)[k].op # "Skipped"
<1> DEFINE i == Ranged("LocalDrop", s.first, Len(s.leafs) - 1)
           D == F \cap ScopeBits(s)
<1>1. SlotsOf(l, F) \subseteq 0 .. N - 1
  BY DEF SlotsOf, Slotted
<1>2. SlotsOf(l, G) = SlotsOf(l, F) \ SlotsOf(l, D)
  BY DEF SlotsOf, Apart
<1>3. Holding(l, F, O) \in State(l, N) /\ Holding(l, G, O) \in State(l, N)
  BY <1>1, <1>2 DEF Holding, State
<1>4. CASE ScopeBits(s) = {}
  <2>1. ScopeDrop(s) = <<>> /\ G = F
    BY <1>4 DEF ScopeDrop
  <2> QED
    <3>1. Runs(<<>>, l, N, Holding(l, F, O), Holding(l, F, O))
      BY <1>3, RunsEmpty
    <3>2. 1 .. Len(<<>>) = {}
      OBVIOUS
    <3> QED
      BY <2>1, <3>1, <3>2, Literals
<1>5. CASE ScopeBits(s) # {}
  <2>1. ScopeDrop(s) = <<i>>
    BY <1>5 DEF ScopeDrop
  <2>2. Range(i) = ScopeBits(s) /\ i.op = "LocalDrop"
    BY DEF Range, Ranged, ScopeBits
  <2> HIDE DEF i
  <2>3. Safe(i, l, Holding(l, F, O))
    BY <2>2 DEF Safe, Clean, Holding
  <2>4. SlotsOf(l, D) \subseteq SlotsOf(l, F)
    BY DEF SlotsOf
  <2>5. After(i, l, Holding(l, F, O)) = Holding(l, G, O)
    <3>1. After(i, l, Holding(l, F, O)) = [flags |-> F \ ScopeBits(s),
                                           owned |-> (SlotsOf(l, F) \cup O) \ SlotsOf(l, D)]
      BY <2>2 DEF After, Holding
    <3>2. (SlotsOf(l, F) \cup O) \ SlotsOf(l, D) = SlotsOf(l, G) \cup O
      <4> HIDE DEF D
      <4> QED
        BY <1>2, <2>4
    <3> HIDE DEF D
    <3> QED
      BY <3>1, <3>2 DEF Holding
  <2>6. Runs(<<i>>, l, N, Holding(l, F, O), Holding(l, G, O))
    BY <1>3, <2>2, <2>3, <2>5, RunsOne DEF Move, Straight
  <2> QED
    BY <2>1, <2>2, <2>6, Literals
<1> QED
  BY <1>4, <1>5

(* Well-formed data of the compiler. *)
IsFlow(f) ==
  /\ f \in [reach : BOOLEAN, must : SUBSET Nat, may : SUBSET Nat]
  /\ f.must \subseteq f.may /\ (~f.reach => f.may = {})

IsStack(s, z, N) ==
  /\ s = [top |-> s.top, entries |-> s.entries, leafs |-> s.leafs, first |-> s.first, dropped |-> s.dropped]
  /\ IsSeq(s.leafs) /\ Slotted(s.leafs, z, N)
  /\ s.top \in z .. N /\ s.first \in 0 .. Len(s.leafs) /\ s.dropped \subseteq Bits(s)
  /\ Apart(s.leafs, Pending(s)) /\ \A b \in Pending(s) : SlotAt(s.leafs, b) < s.top

LocalOk(x, s) ==
  /\ x.slot \in Nat /\ x.lo \in Nat /\ x.n \in 1 .. 2 /\ x.lo + x.n <= Len(s.leafs)
  /\ \A b \in x.lo .. x.lo + x.n - 1 : b \in Pending(s)
  /\ \A i \in 1 .. x.n : SlotAt(s.leafs, x.lo + x.n - i) = x.slot + i - 1

LocalsOk(ls, s, W) ==
  /\ IsSeq(ls)
  /\ \A j \in 1 .. Len(ls) : LocalOk(ls[j], s) /\ ls[j].n < W
  /\ \A i, j \in 1 .. Len(ls) : i < j => ls[i].lo + ls[i].n <= ls[j].lo

IsBlock(b) ==
  /\ b = [kind |-> b.kind, stmt |-> b.stmt, scope |-> b.scope, nlocals |-> b.nlocals, nbits |-> b.nbits,
          start |-> b.start, arg |-> b.arg, patch |-> b.patch, breaks |-> b.breaks,
          entry |-> b.entry, exit |-> b.exit]
  /\ b.nlocals \in Nat /\ b.nbits \in Nat /\ b.stmt.first \in Nat /\ b.stmt.top \in Nat
  /\ b.scope.first \in Nat /\ b.scope.top \in Nat
  /\ IsFlow(b.entry) /\ IsFlow(b.exit)

(* Registered before block b: what may be initialised in it. *)
Knows(b, ls, y) == y \in b.entry.may \/ \E i \in 1 .. b.nlocals : ls[i].lo <= y /\ y < ls[i].lo + ls[i].n
Fits(f, b, ls) == \A y \in f.may : y < b.nbits => Knows(b, ls, y)

(* Block b, whose body's first drop bit is f and first free slot is below t. *)
Nested(b, f, t, s, ls, z) ==
  /\ IsBlock(b)
  /\ f \in Nat /\ t \in Nat /\ b.stmt.first <= b.nbits /\ b.nbits <= f /\ f <= Len(s.leafs)
  /\ z <= b.stmt.top /\ b.stmt.top <= b.scope.top /\ b.scope.top <= t
  /\ \A x \in Pending(s) : /\ x < f => /\ SlotAt(s.leafs, x) < b.scope.top
                                       /\ b.kind \notin {"match", "guarded"} => x < b.nbits
                           /\ x < b.nbits => SlotAt(s.leafs, x) < b.stmt.top
  /\ b.scope.first <= b.nbits
  /\ b.kind = "letloop" => b.scope.first = b.stmt.first /\ b.scope.top = b.stmt.top + 1
  /\ b.kind \notin {"letloop", "void", "returns"} => b.scope.first = b.nbits
  /\ b.nlocals <= Len(ls)
  /\ \A j \in 1 .. Len(ls) : IF j <= b.nlocals THEN ls[j].lo + ls[j].n <= b.nbits ELSE b.nbits <= ls[j].lo
  /\ b.kind = "guarded" => /\ b.nlocals < Len(ls)
                           /\ ls[b.nlocals + 1].lo + ls[b.nlocals + 1].n <= f
                           /\ b.stmt.top < ls[b.nlocals + 1].slot
  /\ b.entry.reach
  /\ \A y \in b.entry.may \cup b.exit.may : y < b.nbits /\ y \in Pending(s)

InnerFirst(bs, s, k) == IF k = Len(bs) THEN s.first ELSE bs[k + 1].stmt.first
InnerTop(bs, s, k) == IF k = Len(bs) THEN s.top ELSE bs[k + 1].stmt.top

Within(a, f, b, ls) ==
  /\ f <= b.nbits /\ a.nlocals <= b.nlocals /\ (a.kind = "guarded" => a.nlocals < b.nlocals)
  /\ Fits(b.entry, a, ls) /\ Fits(b.exit, a, ls)

Bottom == {"void", "returns"}

BlocksOk(bs, s, ls, z) ==
  /\ IsSeq(bs) /\ Len(bs) >= 1
  /\ \A k \in 1 .. Len(bs) : /\ Nested(bs[k], InnerFirst(bs, s, k), InnerTop(bs, s, k), s, ls, z)
                             /\ bs[k].kind \in Bottom <=> k = 1
  /\ \A j, k \in 1 .. Len(bs) : j < k => Within(bs[j], InnerFirst(bs, s, j), bs[k], ls)

FlowOk(f, bs, s, ls) ==
  IsFlow(f) /\ f.may \subseteq Pending(s) /\ \A k \in 1 .. Len(bs) : Fits(f, bs[k], ls)

Scoped(s, ls, bs, f, z, N, W) ==
  IsStack(s, z, N) /\ LocalsOk(ls, s, W) /\ BlocksOk(bs, s, ls, z) /\ FlowOk(f, bs, s, ls)

(* How stacks and locals change. *)
Grows(s, u) ==
  /\ Extends(s.leafs, u.leafs) /\ u.top >= s.top
  /\ \A b \in Bits(s) : b \in Pending(u) <=> b \in Pending(s)

LocalsGrow(ls, ms, m) ==
  /\ Len(ls) <= Len(ms) /\ \A j \in 1 .. Len(ls) : ms[j] = ls[j]
  /\ \A j \in 1 .. Len(ms) : j > Len(ls) => ms[j].lo \in Nat /\ ms[j].lo >= m

--------------------------------------------------------------------------------

(* What a well-formed stack gives. *)
LEMMA StackFacts ==
  ASSUME NEW s, NEW z, NEW N, IsStack(s, z, N)
  PROVE  /\ z \in Nat /\ N \in Nat /\ Len(s.leafs) \in Nat /\ s.top \in Nat /\ s.top >= z /\ s.top <= N
         /\ s.first \in Nat /\ s.first <= Len(s.leafs) /\ IsSeq(s.leafs)
         /\ Bits(s) = 0 .. Len(s.leafs) - 1 /\ Pending(s) \subseteq Bits(s)
         /\ \A b \in Bits(s) : SlotAt(s.leafs, b) \in z .. N - 1
         /\ \A b \in Pending(s) : b \in Nat /\ b < Len(s.leafs) /\ SlotAt(s.leafs, b) < s.top
  BY DEF IsStack, Slotted, Bits, Pending

(* What a block knows depends on its locals only. *)
LEMMA KnowsKept ==
  ASSUME NEW f, NEW b, NEW ls, NEW ms, Fits(f, b, ls), b.nlocals <= Len(ls), b.nlocals \in Nat, Len(ls) \in Nat,
         \A j \in 1 .. b.nlocals : ms[j] = ls[j]
  PROVE  Fits(f, b, ms)
  BY DEF Fits, Knows

(* A block keeps its place while the stack above it grows. *)
LEMMA NestedGrow ==
  ASSUME NEW b, NEW f, NEW t, NEW s, NEW ls, NEW z, NEW N, Nested(b, f, t, s, ls, z), IsStack(s, z, N),
         NEW u, IsStack(u, z, N), Grows(s, u), NEW t2 \in Nat, t2 >= t,
         NEW ms, IsSeq(ls), IsSeq(ms), LocalsGrow(ls, ms, Len(s.leafs))
  PROVE  Nested(b, f, t2, u, ms, z)
<1>1. /\ Len(s.leafs) \in Nat /\ Len(u.leafs) \in Nat /\ Len(s.leafs) <= Len(u.leafs)
      /\ Bits(s) = 0 .. Len(s.leafs) - 1 /\ Len(ls) \in Nat /\ Len(ms) \in Nat
      /\ Pending(u) \subseteq Bits(u) /\ Bits(u) = 0 .. Len(u.leafs) - 1 /\ Pending(s) \subseteq Bits(s)
  BY StackFacts, IsSeqFacts DEF Grows, Extends
<1>2. /\ b.nbits \in Nat /\ b.nlocals \in Nat /\ f \in Nat /\ t \in Nat /\ b.nbits <= f /\ f <= Len(s.leafs)
      /\ b.stmt.first \in Nat /\ b.stmt.top \in Nat /\ b.scope.top \in Nat
  BY DEF Nested, IsBlock
<1>3. ASSUME NEW x \in Pending(u), x < Len(s.leafs)
      PROVE  x \in Pending(s) /\ SlotAt(u.leafs, x) = SlotAt(s.leafs, x)
  BY <1>1, <1>3 DEF Grows, Extends
<1>4. \A x \in Pending(s) : x \in Pending(u)
  BY <1>1 DEF Grows
<1>5. ASSUME NEW x \in Pending(u)
      PROVE  /\ x < f => /\ SlotAt(u.leafs, x) < b.scope.top
                         /\ b.kind \notin {"match", "guarded"} => x < b.nbits
             /\ x < b.nbits => SlotAt(u.leafs, x) < b.stmt.top
  <2>1. x < f => x < Len(s.leafs)
    BY <1>1, <1>2
  <2>2. x < b.nbits => x < Len(s.leafs)
    BY <1>1, <1>2
  <2> QED
    BY <1>3, <2>1, <2>2 DEF Nested
<1>6. /\ b.nlocals <= Len(ms)
      /\ \A j \in 1 .. Len(ms) : IF j <= b.nlocals THEN ms[j].lo + ms[j].n <= b.nbits ELSE b.nbits <= ms[j].lo
  <2>1. b.nlocals <= Len(ls)
    BY DEF Nested
  <2>2. b.nlocals <= Len(ms)
    BY <1>1, <1>2, <2>1 DEF LocalsGrow
  <2> SUFFICES ASSUME NEW j \in 1 .. Len(ms)
               PROVE  IF j <= b.nlocals THEN ms[j].lo + ms[j].n <= b.nbits ELSE b.nbits <= ms[j].lo
    BY <2>2
  <2>3. CASE j <= Len(ls)
    <3>1. j \in 1 .. Len(ls) /\ ms[j] = ls[j]
      BY <1>1, <2>3 DEF LocalsGrow
    <3> QED
      BY <3>1 DEF Nested
  <2>4. CASE j > Len(ls)
    <3>1. ms[j].lo \in Nat /\ ms[j].lo >= Len(s.leafs) /\ ~(j <= b.nlocals)
      BY <1>1, <1>2, <2>1, <2>4 DEF LocalsGrow
    <3>2. b.nbits <= Len(s.leafs)
      BY <1>1, <1>2
    <3> DEFINE a == ms[j].lo
               m == Len(s.leafs)
    <3>4. a \in Nat /\ a >= m /\ b.nbits <= m /\ m \in Nat /\ b.nbits \in Nat
      BY <1>1, <1>2, <3>1, <3>2
    <3> HIDE DEF a, m
    <3>3. a >= b.nbits
      BY <3>4
    <3> USE DEF a
    <3> QED
      BY <3>1, <3>3
  <2> QED
    BY <1>1, <2>3, <2>4
<1>7. b.kind = "guarded" => /\ b.nlocals < Len(ms)
                            /\ ms[b.nlocals + 1].lo + ms[b.nlocals + 1].n <= f
                            /\ b.stmt.top < ms[b.nlocals + 1].slot
  <2> SUFFICES ASSUME b.kind = "guarded"
               PROVE  /\ b.nlocals < Len(ms)
                      /\ ms[b.nlocals + 1].lo + ms[b.nlocals + 1].n <= f
                      /\ b.stmt.top < ms[b.nlocals + 1].slot
    OBVIOUS
  <2>1. b.nlocals < Len(ls) /\ ls[b.nlocals + 1].lo + ls[b.nlocals + 1].n <= f
        /\ b.stmt.top < ls[b.nlocals + 1].slot
    BY DEF Nested
  <2>2. b.nlocals \in Nat /\ Len(ls) \in Nat /\ Len(ms) \in Nat
    BY <1>1, <1>2
  <2>3. Len(ls) <= Len(ms)
    BY DEF LocalsGrow
  <2>4. b.nlocals + 1 \in 1 .. Len(ls) /\ b.nlocals < Len(ms)
    BY <2>1, <2>2, <2>3
  <2>5. ms[b.nlocals + 1] = ls[b.nlocals + 1]
    BY <2>4 DEF LocalsGrow
  <2> QED
    BY <2>1, <2>4, <2>5
<1>8. \A y \in b.entry.may \cup b.exit.may : y < b.nbits /\ y \in Pending(u)
  BY <1>4 DEF Nested
<1>9. f <= Len(u.leafs) /\ b.scope.top <= t2 /\ t2 \in Nat
  <2>1. b.scope.top <= t
    BY DEF Nested
  <2>2. f \in Nat /\ t \in Nat /\ b.scope.top \in Nat /\ f <= Len(s.leafs)
        /\ Len(s.leafs) \in Nat /\ Len(u.leafs) \in Nat /\ Len(s.leafs) <= Len(u.leafs)
    BY <1>1, <1>2
  <2> QED
    BY <2>1, <2>2
<1> QED
  BY <1>5, <1>6, <1>7, <1>8, <1>9 DEF Nested

(* And while it shrinks, as long as the bits of the block stay pending. *)
LEMMA NestedShrink ==
  ASSUME NEW b, NEW f, NEW t, NEW s, NEW ls, NEW z, Nested(b, f, t, s, ls, z),
         NEW u, u.leafs = s.leafs, Pending(u) \subseteq Pending(s),
         \A y \in Pending(s) : y < b.nbits => y \in Pending(u),
         NEW t2 \in Nat, t2 >= b.scope.top,
         NEW ms, Len(ms) \in Nat, Len(ls) \in Nat, Len(ms) <= Len(ls), \A j \in 1 .. Len(ms) : ms[j] = ls[j],
         b.nlocals <= Len(ms), b.kind = "guarded" => b.nlocals < Len(ms)
  PROVE  Nested(b, f, t2, u, ms, z)
<1>1. b.nbits \in Nat /\ b.nlocals \in Nat
  BY DEF Nested, IsBlock
<1>2. \A x \in Pending(u) : /\ x < f => /\ SlotAt(u.leafs, x) < b.scope.top
                                        /\ b.kind \notin {"match", "guarded"} => x < b.nbits
                            /\ x < b.nbits => SlotAt(u.leafs, x) < b.stmt.top
  BY DEF Nested
<1>3. \A j \in 1 .. Len(ms) : IF j <= b.nlocals THEN ms[j].lo + ms[j].n <= b.nbits ELSE b.nbits <= ms[j].lo
  BY DEF Nested
<1>4. b.kind = "guarded" => /\ b.nlocals < Len(ms)
                            /\ ms[b.nlocals + 1].lo + ms[b.nlocals + 1].n <= f
                            /\ b.stmt.top < ms[b.nlocals + 1].slot
  <2> SUFFICES ASSUME b.kind = "guarded"
               PROVE  /\ ms[b.nlocals + 1].lo + ms[b.nlocals + 1].n <= f
                      /\ b.stmt.top < ms[b.nlocals + 1].slot
    OBVIOUS
  <2>1. ms[b.nlocals + 1] = ls[b.nlocals + 1]
    BY <1>1
  <2> QED
    BY <2>1 DEF Nested
<1>5. \A y \in b.entry.may \cup b.exit.may : y < b.nbits /\ y \in Pending(u)
  BY DEF Nested
<1> QED
  BY <1>2, <1>3, <1>4, <1>5 DEF Nested

(* A simple statement. *)
LEMMA ScopedGrow ==
  ASSUME NEW s, NEW ls, NEW bs, NEW f, NEW z, NEW N, NEW W, Scoped(s, ls, bs, f, z, N, W),
         NEW u, IsStack(u, z, N), Grows(s, u), u.first = s.first,
         NEW ms, LocalsOk(ms, u, W), LocalsGrow(ls, ms, Len(s.leafs)),
         NEW g, IsFlow(g), g.may \subseteq Pending(u), \A k \in 1 .. Len(bs) : Fits(g, bs[k], ls)
  PROVE  Scoped(u, ms, bs, g, z, N, W)
<1>1. /\ IsStack(s, z, N) /\ IsSeq(ls) /\ IsSeq(ms) /\ IsSeq(bs) /\ Len(bs) >= 1
      /\ Len(ls) \in Nat /\ Len(ms) \in Nat /\ Len(bs) \in Nat
      /\ s.top \in Nat /\ u.top \in Nat /\ u.top >= s.top
  BY IsSeqFacts, StackFacts DEF Scoped, LocalsOk, BlocksOk, Grows
<1>2. ASSUME NEW k \in 1 .. Len(bs)
      PROVE  /\ Nested(bs[k], InnerFirst(bs, s, k), InnerTop(bs, s, k), s, ls, z)
             /\ bs[k].kind \in Bottom <=> k = 1
             /\ bs[k].nlocals \in Nat /\ bs[k].nlocals <= Len(ls)
             /\ InnerFirst(bs, u, k) = InnerFirst(bs, s, k)
             /\ InnerTop(bs, u, k) \in Nat /\ InnerTop(bs, u, k) >= InnerTop(bs, s, k)
  <2>1. Nested(bs[k], InnerFirst(bs, s, k), InnerTop(bs, s, k), s, ls, z) /\ (bs[k].kind \in Bottom <=> k = 1)
    BY DEF Scoped, BlocksOk
  <2>2. bs[k].nlocals \in Nat /\ bs[k].nlocals <= Len(ls) /\ InnerTop(bs, s, k) \in Nat
    BY <2>1 DEF Nested, IsBlock
  <2>3. InnerFirst(bs, u, k) = InnerFirst(bs, s, k)
    BY DEF InnerFirst
  <2>4. InnerTop(bs, u, k) \in Nat /\ InnerTop(bs, u, k) >= InnerTop(bs, s, k)
    BY <1>1, <2>2 DEF InnerTop
  <2> QED
    BY <2>1, <2>2, <2>3, <2>4
<1>3. ASSUME NEW h, NEW k \in 1 .. Len(bs), Fits(h, bs[k], ls) PROVE Fits(h, bs[k], ms)
  <2>1. \A j \in 1 .. bs[k].nlocals : ms[j] = ls[j]
    BY <1>1, <1>2 DEF LocalsGrow
  <2> QED
    BY <1>1, <1>2, <1>3, <2>1, KnowsKept
<1>4. ASSUME NEW k \in 1 .. Len(bs)
      PROVE  Nested(bs[k], InnerFirst(bs, u, k), InnerTop(bs, u, k), u, ms, z)
  BY <1>1, <1>2, NestedGrow
<1>5. ASSUME NEW j \in 1 .. Len(bs), NEW k \in 1 .. Len(bs), j < k
      PROVE  Within(bs[j], InnerFirst(bs, u, j), bs[k], ms)
  <2>1. Within(bs[j], InnerFirst(bs, s, j), bs[k], ls)
    BY <1>5 DEF Scoped, BlocksOk
  <2> QED
    BY <1>2, <1>3, <2>1 DEF Within
<1>6. BlocksOk(bs, u, ms, z)
  BY <1>1, <1>2, <1>4, <1>5 DEF BlocksOk
<1>7. FlowOk(g, bs, u, ms)
  BY <1>3 DEF FlowOk
<1> QED
  BY <1>6, <1>7 DEF Scoped

(* What well-formed scopes give of each open block. *)
LEMMA BlockFacts ==
  ASSUME NEW s, NEW ls, NEW bs, NEW f, NEW z, NEW N, NEW W, Scoped(s, ls, bs, f, z, N, W)
  PROVE  /\ IsStack(s, z, N) /\ LocalsOk(ls, s, W) /\ IsSeq(ls) /\ IsSeq(bs) /\ Len(bs) >= 1
         /\ Len(ls) \in Nat /\ Len(bs) \in Nat /\ IsFlow(f) /\ f.may \subseteq Pending(s)
         /\ \A k \in 1 .. Len(bs) :
              /\ Nested(bs[k], InnerFirst(bs, s, k), InnerTop(bs, s, k), s, ls, z)
              /\ bs[k].kind \in Bottom <=> k = 1
              /\ IsBlock(bs[k]) /\ bs[k].nlocals \in Nat /\ bs[k].nlocals <= Len(ls) /\ bs[k].nbits \in Nat
              /\ bs[k].stmt.first \in Nat /\ bs[k].stmt.top \in Nat /\ bs[k].scope.top \in Nat
              /\ bs[k].scope.top >= bs[k].stmt.top /\ bs[k].scope.top <= InnerTop(bs, s, k)
              /\ InnerFirst(bs, s, k) \in Nat /\ bs[k].nbits <= InnerFirst(bs, s, k)
              /\ InnerFirst(bs, s, k) <= Len(s.leafs) /\ bs[k].stmt.first <= bs[k].nbits
              /\ bs[k].scope.first \in Nat /\ bs[k].scope.first <= bs[k].nbits
              /\ z <= bs[k].stmt.top
              /\ IsFlow(bs[k].entry) /\ IsFlow(bs[k].exit) /\ bs[k].entry.reach
              /\ \A y \in bs[k].entry.may \cup bs[k].exit.may : y < bs[k].nbits /\ y \in Pending(s)
              /\ Fits(f, bs[k], ls)
<1>1. /\ IsStack(s, z, N) /\ LocalsOk(ls, s, W) /\ IsSeq(ls) /\ IsSeq(bs) /\ Len(bs) >= 1
      /\ Len(ls) \in Nat /\ Len(bs) \in Nat /\ IsFlow(f) /\ f.may \subseteq Pending(s)
  BY IsSeqFacts DEF Scoped, LocalsOk, BlocksOk, FlowOk
<1>2. ASSUME NEW k \in 1 .. Len(bs)
      PROVE  /\ Nested(bs[k], InnerFirst(bs, s, k), InnerTop(bs, s, k), s, ls, z)
             /\ bs[k].kind \in Bottom <=> k = 1
             /\ Fits(f, bs[k], ls)
  BY DEF Scoped, BlocksOk, FlowOk
<1>3. ASSUME NEW b, NEW u, NEW t, Nested(b, u, t, s, ls, z)
      PROVE  /\ IsBlock(b) /\ b.nlocals \in Nat /\ b.nlocals <= Len(ls) /\ b.nbits \in Nat
             /\ b.stmt.first \in Nat /\ b.stmt.top \in Nat /\ b.scope.top \in Nat
             /\ b.scope.top >= b.stmt.top /\ b.scope.top <= t
             /\ u \in Nat /\ b.nbits <= u
             /\ u <= Len(s.leafs) /\ b.stmt.first <= b.nbits
             /\ b.scope.first \in Nat /\ b.scope.first <= b.nbits
             /\ z <= b.stmt.top
             /\ IsFlow(b.entry) /\ IsFlow(b.exit) /\ b.entry.reach
             /\ \A y \in b.entry.may \cup b.exit.may : y < b.nbits /\ y \in Pending(s)
  <2>1. IsBlock(b) /\ b.nlocals \in Nat /\ b.nbits \in Nat
        /\ b.stmt.first \in Nat /\ b.stmt.top \in Nat /\ b.scope.top \in Nat /\ b.scope.first \in Nat
        /\ IsFlow(b.entry) /\ IsFlow(b.exit)
    BY <1>3 DEF Nested, IsBlock
  <2>2. b.nlocals <= Len(ls)
             /\ b.scope.top >= b.stmt.top /\ b.scope.top <= t
             /\ u \in Nat /\ b.nbits <= u
             /\ u <= Len(s.leafs) /\ b.stmt.first <= b.nbits
             /\ b.scope.first <= b.nbits
             /\ z <= b.stmt.top
             /\ b.entry.reach
             /\ \A y \in b.entry.may \cup b.exit.may : y < b.nbits /\ y \in Pending(s)
    BY <1>3, <2>1 DEF Nested
  <2> QED
    BY <2>1, <2>2
<1> QED
  BY <1>1, <1>2, <1>3

(* What they give of two open blocks. *)
LEMMA WithinFacts ==
  ASSUME NEW s, NEW ls, NEW bs, NEW f, NEW z, NEW N, NEW W, Scoped(s, ls, bs, f, z, N, W),
         NEW k \in 1 .. Len(bs), NEW j \in 1 .. Len(bs), j < k
  PROVE  /\ Within(bs[j], InnerFirst(bs, s, j), bs[k], ls) /\ InnerFirst(bs, s, j) <= bs[k].nbits
         /\ bs[j].nlocals <= bs[k].nlocals /\ (bs[j].kind = "guarded" => bs[j].nlocals < bs[k].nlocals)
         /\ bs[j].nbits <= bs[k].nbits
<1>1. Within(bs[j], InnerFirst(bs, s, j), bs[k], ls)
  BY DEF Scoped, BlocksOk
<1>2. InnerFirst(bs, s, j) \in Nat /\ bs[j].nbits <= InnerFirst(bs, s, j) /\ bs[j].nbits \in Nat /\ bs[k].nbits \in Nat
  BY BlockFacts
<1> QED
  BY <1>1, <1>2 DEF Within

(* A block is opened. *)
LEMMA ScopedOpen ==
  ASSUME NEW s, NEW ls, NEW bs, NEW f, NEW z, NEW N, NEW W, Scoped(s, ls, bs, f, z, N, W),
         NEW u, IsStack(u, z, N), Grows(s, u),
         NEW ms, LocalsOk(ms, u, W), LocalsGrow(ls, ms, Len(s.leafs)),
         NEW b, Nested(b, u.first, u.top, u, ms, z), b.kind \notin Bottom, b.nbits = Len(s.leafs),
         b.stmt.first = s.first, b.stmt.top = s.top, b.nlocals = Len(ls), b.entry = f, b.exit = Unreachable,
         NEW g, IsFlow(g), g.may \subseteq Pending(u), \A k \in 1 .. Len(bs) : Fits(g, bs[k], ls), Fits(g, b, ms)
  PROVE  Scoped(u, ms, Append(bs, b), g, z, N, W)
<1> DEFINE cs == Append(bs, b)
           n == Len(bs)
<1>1. /\ IsStack(s, z, N) /\ IsSeq(ls) /\ IsSeq(ms) /\ IsSeq(bs) /\ n >= 1
      /\ Len(ls) \in Nat /\ Len(ms) \in Nat /\ n \in Nat
  BY BlockFacts, IsSeqFacts DEF LocalsOk
<1>2. IsSeq(cs) /\ Len(cs) = n + 1 /\ cs[n + 1] = b /\ \A k \in 1 .. n : cs[k] = bs[k]
  BY <1>1, IsSeqFacts
<1> HIDE DEF cs
<1>3. ASSUME NEW k \in 1 .. n
      PROVE  InnerFirst(cs, u, k) = InnerFirst(bs, s, k) /\ InnerTop(cs, u, k) = InnerTop(bs, s, k)
  <2>1. k # Len(cs) /\ (k = n => cs[k + 1] = b) /\ (k # n => cs[k + 1] = bs[k + 1])
    BY <1>1, <1>2
  <2> QED
    BY <2>1 DEF InnerFirst, InnerTop
<1>4. InnerFirst(cs, u, n + 1) = u.first /\ InnerTop(cs, u, n + 1) = u.top
  BY <1>2 DEF InnerFirst, InnerTop
<1>5. ASSUME NEW h, NEW k \in 1 .. n, Fits(h, bs[k], ls) PROVE Fits(h, bs[k], ms)
  <2>1. bs[k].nlocals <= Len(ls) /\ bs[k].nlocals \in Nat
    BY BlockFacts
  <2>2. \A j \in 1 .. bs[k].nlocals : ms[j] = ls[j]
    BY <1>1, <2>1 DEF LocalsGrow
  <2> QED
    BY <1>1, <1>5, <2>1, <2>2, KnowsKept
<1>6. ASSUME NEW k \in 1 .. n
      PROVE  /\ Nested(bs[k], InnerFirst(bs, s, k), InnerTop(bs, s, k), u, ms, z)
             /\ bs[k].kind \in Bottom <=> k = 1
  <2>1. /\ Nested(bs[k], InnerFirst(bs, s, k), InnerTop(bs, s, k), s, ls, z)
        /\ bs[k].kind \in Bottom <=> k = 1
    BY BlockFacts
  <2>2. InnerTop(bs, s, k) \in Nat /\ InnerTop(bs, s, k) >= InnerTop(bs, s, k)
    BY <2>1 DEF Nested
  <2> QED
    BY <1>1, <2>1, <2>2, NestedGrow
<1>7. ASSUME NEW k \in 1 .. n + 1
      PROVE  /\ Nested(cs[k], InnerFirst(cs, u, k), InnerTop(cs, u, k), u, ms, z)
             /\ cs[k].kind \in Bottom <=> k = 1
  <2>1. CASE k = n + 1
    BY <1>1, <1>2, <1>4, <2>1
  <2>2. CASE k # n + 1
    <3>1. k \in 1 .. n
      BY <1>1, <2>2
    <3> QED
      BY <1>2, <1>3, <1>6, <3>1
  <2> QED
    BY <2>1, <2>2
<1>8. ASSUME NEW k \in 1 .. n PROVE Within(bs[k], InnerFirst(bs, s, k), b, ms)
  <2>1. Nested(bs[k], InnerFirst(bs, s, k), InnerTop(bs, s, k), s, ls, z) /\ Fits(f, bs[k], ls)
    BY BlockFacts
  <2>2. /\ InnerFirst(bs, s, k) <= Len(s.leafs) /\ bs[k].nlocals <= Len(ls)
        /\ bs[k].kind = "guarded" => bs[k].nlocals < Len(ls)
    BY <2>1 DEF Nested
  <2>3. Fits(f, bs[k], ms)
    BY <1>5, <2>1
  <2>4. Fits(Unreachable, bs[k], ms)
    BY DEF Fits, Unreachable
  <2> QED
    BY <2>2, <2>3, <2>4 DEF Within
<1>9. ASSUME NEW j \in 1 .. n + 1, NEW k \in 1 .. n + 1, j < k
      PROVE  Within(cs[j], InnerFirst(cs, u, j), cs[k], ms)
  <2>1. j \in 1 .. n /\ cs[j] = bs[j]
    BY <1>1, <1>2, <1>9
  <2>2. CASE k = n + 1
    BY <1>2, <1>3, <1>8, <2>1, <2>2
  <2>3. CASE k # n + 1
    <3>1. k \in 1 .. n
      BY <1>1, <2>3
    <3>2. Within(bs[j], InnerFirst(bs, s, j), bs[k], ls)
      BY <1>9, <2>1, <3>1, WithinFacts
    <3>3. Within(bs[j], InnerFirst(bs, s, j), bs[k], ms)
      BY <1>5, <2>1, <3>2 DEF Within
    <3> QED
      BY <1>2, <1>3, <2>1, <3>1, <3>3
  <2> QED
    BY <2>2, <2>3
<1>10. BlocksOk(cs, u, ms, z)
  BY <1>1, <1>2, <1>7, <1>9 DEF BlocksOk
<1>11. \A k \in 1 .. n + 1 : Fits(g, cs[k], ms)
  <2> SUFFICES ASSUME NEW k \in 1 .. n + 1 PROVE Fits(g, cs[k], ms)
    OBVIOUS
  <2>1. k = n + 1 \/ k \in 1 .. n
    BY <1>1
  <2> QED
    BY <1>2, <1>5, <2>1
<1>12. FlowOk(g, cs, u, ms)
  BY <1>2, <1>11 DEF FlowOk
<1>13. Scoped(u, ms, cs, g, z, N, W)
  BY <1>10, <1>12 DEF Scoped
<1> QED
  BY <1>13 DEF cs

(* The locals that are left when a scope ends. *)
LEMMA LocalsCut ==
  ASSUME NEW s, NEW ls, NEW W, LocalsOk(ls, s, W), NEW m \in Nat, NEW n,
         \A j \in 1 .. Len(ls) : j <= m => ls[j].lo + ls[j].n <= n,
         NEW u, u.leafs = s.leafs, \A y \in Pending(s) : y < n => y \in Pending(u), n \in Nat,
         NEW ms, IsSeq(ms), Len(ms) = m, m <= Len(ls), \A j \in 1 .. m : ms[j] = ls[j]
  PROVE  LocalsOk(ms, u, W)
<1>1. Len(ls) \in Nat
  BY IsSeqFacts DEF LocalsOk
<1>2. ASSUME NEW j \in 1 .. m PROVE LocalOk(ms[j], u) /\ ms[j].n < W
  <2>1. LocalOk(ls[j], s) /\ ls[j].n < W /\ ls[j].lo + ls[j].n <= n /\ ms[j] = ls[j]
    BY <1>1 DEF LocalsOk
  <2>2. \A b \in ls[j].lo .. ls[j].lo + ls[j].n - 1 : b \in Pending(u)
    <3> SUFFICES ASSUME NEW b \in ls[j].lo .. ls[j].lo + ls[j].n - 1 PROVE b \in Pending(u)
      OBVIOUS
    <3>1. b \in Pending(s) /\ ls[j].lo \in Nat /\ ls[j].n \in 1 .. 2
      BY <2>1 DEF LocalOk
    <3>2. b < n
      BY <2>1, <3>1
    <3> QED
      BY <3>1, <3>2
  <2> QED
    BY <2>1, <2>2 DEF LocalOk
<1> QED
  BY <1>1, <1>2 DEF LocalsOk

(* The last block is closed. *)
LEMMA ScopedClose ==
  ASSUME NEW s, NEW ls, NEW bs, NEW f, NEW z, NEW N, NEW W, Scoped(s, ls, bs, f, z, N, W), Len(bs) > 1,
         NEW b, b = bs[Len(bs)],
         NEW u, IsStack(u, z, N), u.leafs = s.leafs, u.first = b.stmt.first, u.top >= b.stmt.top,
         \A y : y \in Pending(u) <=> y \in Pending(s) /\ y < b.nbits,
         NEW ms, IsSeq(ms), Len(ms) = b.nlocals, \A j \in 1 .. Len(ms) : ms[j] = ls[j],
         NEW g, IsFlow(g), g.may \subseteq Pending(u), \A k \in 1 .. Len(bs) - 1 : Fits(g, bs[k], ls),
         NEW cs, IsSeq(cs), Len(cs) = Len(bs) - 1, \A k \in 1 .. Len(cs) : cs[k] = bs[k]
  PROVE  Scoped(u, ms, cs, g, z, N, W)
<1> DEFINE n == Len(cs)
<1>1. /\ IsStack(s, z, N) /\ IsSeq(ls) /\ IsSeq(bs) /\ LocalsOk(ls, s, W)
      /\ Len(ls) \in Nat /\ Len(ms) \in Nat /\ n \in Nat /\ n >= 1 /\ Len(bs) = n + 1 /\ n + 1 \in 1 .. Len(bs)
      /\ b.nlocals \in Nat /\ b.nlocals <= Len(ls) /\ b.nbits \in Nat /\ b = bs[n + 1] /\ u.top \in Nat
      /\ b.stmt.top \in Nat
  <2>1. Len(bs) \in Nat /\ Len(bs) = n + 1 /\ n + 1 \in 1 .. Len(bs) /\ n \in Nat /\ n >= 1
    BY BlockFacts
  <2> QED
    BY <2>1, BlockFacts, StackFacts
<1>2. ASSUME NEW k \in 1 .. n
      PROVE  /\ k \in 1 .. Len(bs) /\ cs[k] = bs[k]
             /\ Nested(bs[k], InnerFirst(bs, s, k), InnerTop(bs, s, k), s, ls, z)
             /\ bs[k].kind \in Bottom <=> k = 1
             /\ bs[k].nbits \in Nat /\ bs[k].nbits <= b.nbits
             /\ bs[k].nlocals \in Nat /\ bs[k].nlocals <= b.nlocals /\ bs[k].nlocals <= Len(ls)
             /\ bs[k].kind = "guarded" => bs[k].nlocals < b.nlocals
             /\ bs[k].scope.top \in Nat /\ bs[k].scope.top <= InnerTop(bs, s, k)
  <2>1. k \in 1 .. Len(bs) /\ k < n + 1
    BY <1>1
  <2>3. /\ bs[k].nbits <= bs[n + 1].nbits /\ bs[k].nlocals <= bs[n + 1].nlocals
        /\ bs[k].kind = "guarded" => bs[k].nlocals < bs[n + 1].nlocals
    BY <1>1, <2>1, WithinFacts
  <2>2. /\ bs[k].nbits <= b.nbits /\ bs[k].nlocals <= b.nlocals
        /\ bs[k].kind = "guarded" => bs[k].nlocals < b.nlocals
    BY <1>1, <2>3
  <2> QED
    BY <2>1, <2>2, BlockFacts
<1>3. ASSUME NEW k \in 1 .. n
      PROVE  InnerFirst(cs, u, k) = InnerFirst(bs, s, k)
             /\ InnerTop(cs, u, k) \in Nat /\ InnerTop(cs, u, k) >= InnerTop(bs, s, k)
  <2>1. CASE k = n
    BY <1>1, <2>1 DEF InnerFirst, InnerTop
  <2>2. CASE k # n
    <3>1. k # Len(bs) /\ k + 1 \in 1 .. n
      BY <1>1, <2>2
    <3>2. InnerFirst(cs, u, k) = InnerFirst(bs, s, k) /\ InnerTop(cs, u, k) = InnerTop(bs, s, k)
      BY <1>2, <2>2, <3>1 DEF InnerFirst, InnerTop
    <3>3. InnerTop(bs, s, k) \in Nat
      BY <1>2 DEF Nested
    <3> QED
      BY <3>2, <3>3
  <2> QED
    BY <2>1, <2>2
<1>4. ASSUME NEW h, NEW k \in 1 .. n, Fits(h, bs[k], ls) PROVE Fits(h, bs[k], ms)
  <2>1. \A j \in 1 .. bs[k].nlocals : ms[j] = ls[j]
    BY <1>1, <1>2
  <2> QED
    BY <1>1, <1>2, <1>4, <2>1, KnowsKept
<1>5. ASSUME NEW k \in 1 .. n
      PROVE  Nested(bs[k], InnerFirst(cs, u, k), InnerTop(cs, u, k), u, ms, z)
  <2>1. Pending(u) \subseteq Pending(s)
    OBVIOUS
  <2>2. \A y \in Pending(s) : y < bs[k].nbits => y \in Pending(u)
    <3>1. \A y \in Pending(s) : y \in Nat
      BY <1>1, StackFacts
    <3> QED
      BY <1>1, <1>2, <3>1
  <2>3. InnerTop(cs, u, k) \in Nat /\ InnerTop(cs, u, k) >= bs[k].scope.top
    <3>1. InnerTop(bs, s, k) \in Nat
      BY <1>2 DEF Nested
    <3> QED
      BY <1>2, <1>3, <3>1
  <2>4. Len(ms) <= Len(ls) /\ bs[k].nlocals <= Len(ms) /\ (bs[k].kind = "guarded" => bs[k].nlocals < Len(ms))
    BY <1>1, <1>2
  <2>5. Nested(bs[k], InnerFirst(bs, s, k), InnerTop(cs, u, k), u, ms, z)
    <3> DEFINE t == InnerTop(cs, u, k)
               f1 == InnerFirst(bs, s, k)
               t1 == InnerTop(bs, s, k)
               a == bs[k]
    <3>1. Nested(a, f1, t1, s, ls, z) /\ t \in Nat /\ t >= a.scope.top
          /\ Len(ms) \in Nat /\ Len(ls) \in Nat
      BY <1>1, <1>2, <2>3
    <3> HIDE DEF t, f1, t1, a
    <3>2. /\ \A y \in Pending(s) : y < a.nbits => y \in Pending(u)
          /\ Len(ms) <= Len(ls) /\ a.nlocals <= Len(ms) /\ (a.kind = "guarded" => a.nlocals < Len(ms))
      BY <2>2, <2>4 DEF a
    <3>3. Nested(a, f1, t, u, ms, z)
      BY <2>1, <3>1, <3>2, NestedShrink
    <3> QED
      BY <3>3 DEF t, f1, a
  <2> QED
    BY <1>3, <2>5
<1>6. ASSUME NEW j \in 1 .. n, NEW k \in 1 .. n, j < k
      PROVE  Within(cs[j], InnerFirst(cs, u, j), cs[k], ms)
  <2>1. Within(bs[j], InnerFirst(bs, s, j), bs[k], ls)
    BY <1>2, <1>6, WithinFacts
  <2>2. Within(bs[j], InnerFirst(bs, s, j), bs[k], ms)
    BY <1>4, <2>1 DEF Within
  <2> QED
    BY <1>2, <1>3, <2>2
<1>7. BlocksOk(cs, u, ms, z)
  BY <1>1, <1>2, <1>5, <1>6 DEF BlocksOk
<1>8. LocalsOk(ms, u, W)
  <2>1. \A j \in 1 .. Len(ls) : j <= b.nlocals => ls[j].lo + ls[j].n <= b.nbits
    <3>1. Nested(b, InnerFirst(bs, s, n + 1), InnerTop(bs, s, n + 1), s, ls, z)
      BY <1>1, BlockFacts
    <3> QED
      BY <3>1 DEF Nested
  <2> QED
    BY <1>1, <2>1, LocalsCut
<1>9. FlowOk(g, cs, u, ms)
  <2>1. \A k \in 1 .. n : Fits(g, cs[k], ms)
    BY <1>1, <1>2, <1>4
  <2> QED
    BY <2>1 DEF FlowOk
<1> QED
  BY <1>7, <1>8, <1>9 DEF Scoped

IsLast(b, bs) == IsSeq(bs) /\ Len(bs) > 1 /\ b = bs[Len(bs)]

(* Block d takes the place of block b in its statement. *)
Follows(d, b) ==
  /\ IsBlock(d) /\ d.stmt = b.stmt /\ d.nlocals = b.nlocals /\ d.nbits = b.nbits /\ d.entry = b.entry
  /\ d.scope.top = b.scope.top /\ d.scope.first = b.scope.first /\ d.start = b.start
  /\ d.kind \in {"else", "match"} /\ b.kind \in {"then", "guarded"} /\ (d.kind = "else" => b.kind = "then")

(* A flow with which block b, the last one, may be left. *)
Carried(g, b, bs, s, ls) ==
  /\ IsFlow(g) /\ \A y \in g.may : y < b.nbits /\ y \in Pending(s)
  /\ \A k \in 1 .. Len(bs) - 1 : Fits(g, bs[k], ls)

(* Stack u is s with the scope of the last block b closed and the next opened. *)
Reopened(s, u, b) ==
  /\ u.leafs = s.leafs /\ u.first = Len(u.leafs) /\ u.top = b.scope.top
  /\ \A y : y \in Pending(u) <=> y \in Pending(s) /\ y < s.first
CutTo(ms, ls, n) == IsSeq(ms) /\ Len(ms) = n /\ \A j \in 1 .. Len(ms) : ms[j] = ls[j]
LastReplaced(cs, bs, d) ==
  IsSeq(cs) /\ Len(cs) = Len(bs) /\ (\A k \in 1 .. Len(cs) - 1 : cs[k] = bs[k]) /\ cs[Len(cs)] = d

(* The last block is replaced by the next one of its statement. *)
LEMMA ScopedNext ==
  ASSUME NEW s, NEW ls, NEW bs, NEW f, NEW z, NEW N, NEW W, Scoped(s, ls, bs, f, z, N, W),
         NEW b, IsLast(b, bs), NEW u, IsStack(u, z, N), Reopened(s, u, b),
         NEW ms, CutTo(ms, ls, b.nlocals), NEW d, Follows(d, b), Carried(d.exit, b, bs, s, ls),
         NEW g, IsFlow(g), g.may \subseteq Pending(u), \A k \in 1 .. Len(bs) - 1 : Fits(g, bs[k], ls),
         Fits(g, d, ms), NEW cs, LastReplaced(cs, bs, d)
  PROVE  Scoped(u, ms, cs, g, z, N, W)
<1> USE DEF IsLast, Reopened, CutTo, Follows, Carried, LastReplaced
<1> DEFINE n == Len(cs) - 1
<1>1. /\ IsStack(s, z, N) /\ IsSeq(ls) /\ IsSeq(bs) /\ LocalsOk(ls, s, W)
      /\ Len(ls) \in Nat /\ Len(ms) \in Nat /\ n \in Nat /\ n >= 1 /\ Len(bs) = n + 1 /\ Len(cs) = n + 1
      /\ n + 1 \in 1 .. Len(bs)
      /\ b.nlocals \in Nat /\ b.nlocals <= Len(ls) /\ b.nbits \in Nat /\ b = bs[n + 1] /\ u.top \in Nat
      /\ b.nbits <= s.first /\ s.first \in Nat /\ s.first <= Len(s.leafs) /\ Len(s.leafs) \in Nat
      /\ InnerFirst(bs, s, n + 1) = s.first
  <2>1. Len(bs) \in Nat /\ Len(bs) = n + 1 /\ n + 1 \in 1 .. Len(bs) /\ n \in Nat /\ n >= 1
    BY BlockFacts
  <2>2. IsStack(s, z, N) /\ InnerFirst(bs, s, n + 1) = s.first
    BY <2>1, BlockFacts DEF InnerFirst
  <2>3. b = bs[n + 1]
    BY <2>1
  <2>4. /\ bs[n + 1].nlocals \in Nat /\ bs[n + 1].nlocals <= Len(ls) /\ bs[n + 1].nbits \in Nat
        /\ bs[n + 1].nbits <= s.first
    BY <2>1, <2>2, BlockFacts
  <2>5. IsSeq(ls) /\ IsSeq(bs) /\ LocalsOk(ls, s, W) /\ Len(ls) \in Nat
    BY BlockFacts
  <2>6. b.nlocals \in Nat /\ b.nlocals <= Len(ls) /\ b.nbits \in Nat /\ b.nbits <= s.first
    BY <2>3, <2>4
  <2>7. u.top \in Nat /\ s.first \in Nat /\ s.first <= Len(s.leafs) /\ Len(s.leafs) \in Nat
    BY <2>2, StackFacts
  <2> QED
    BY <2>1, <2>2, <2>3, <2>5, <2>6, <2>7
<1>2. ASSUME NEW k \in 1 .. n
      PROVE  /\ k \in 1 .. Len(bs) /\ cs[k] = bs[k]
             /\ Nested(bs[k], InnerFirst(bs, s, k), InnerTop(bs, s, k), s, ls, z)
             /\ bs[k].kind \in Bottom <=> k = 1
             /\ bs[k].nbits \in Nat /\ bs[k].nbits <= b.nbits
             /\ InnerFirst(bs, s, k) <= b.nbits
             /\ bs[k].nlocals \in Nat /\ bs[k].nlocals <= b.nlocals /\ bs[k].nlocals <= Len(ls)
             /\ bs[k].kind = "guarded" => bs[k].nlocals < b.nlocals
             /\ bs[k].scope.top \in Nat /\ bs[k].scope.top <= InnerTop(bs, s, k)
  <2>1. k \in 1 .. Len(bs) /\ k < n + 1
    BY <1>1
  <2>2. /\ bs[k].nbits <= bs[n + 1].nbits /\ bs[k].nlocals <= bs[n + 1].nlocals
        /\ InnerFirst(bs, s, k) <= bs[n + 1].nbits
        /\ bs[k].kind = "guarded" => bs[k].nlocals < bs[n + 1].nlocals
    BY <1>1, <2>1, WithinFacts
  <2>3. /\ bs[k].nbits <= b.nbits /\ bs[k].nlocals <= b.nlocals
        /\ InnerFirst(bs, s, k) <= b.nbits
        /\ bs[k].kind = "guarded" => bs[k].nlocals < b.nlocals
    BY <1>1, <2>2
  <2> QED
    BY <2>1, <2>3, BlockFacts
<1>3. ASSUME NEW k \in 1 .. n
      PROVE  /\ InnerFirst(cs, u, k) = InnerFirst(bs, s, k)
             /\ InnerTop(cs, u, k) = InnerTop(bs, s, k)
  <2>1. k # Len(bs) /\ k # Len(cs)
    BY <1>1
  <2>2. CASE k = n
    BY <1>1, <2>1, <2>2 DEF InnerFirst, InnerTop
  <2>3. CASE k # n
    <3>1. k + 1 \in 1 .. n
      BY <1>1, <2>3
    <3> QED
      BY <1>2, <2>1, <3>1 DEF InnerFirst, InnerTop
  <2> QED
    BY <2>2, <2>3
<1>4. ASSUME NEW h, NEW k \in 1 .. n, Fits(h, bs[k], ls) PROVE Fits(h, bs[k], ms)
  <2>1. ASSUME NEW j \in 1 .. bs[k].nlocals PROVE ms[j] = ls[j]
    <3>1. bs[k].nlocals \in Nat /\ bs[k].nlocals <= Len(ms) /\ Len(ms) \in Nat
      BY <1>1, <1>2
    <3>2. j \in 1 .. Len(ms)
      BY <3>1
    <3> QED
      BY <3>2
  <2> QED
    BY <1>1, <1>2, <1>4, <2>1, KnowsKept
<1>5. ASSUME NEW k \in 1 .. n
      PROVE  Nested(bs[k], InnerFirst(bs, s, k), InnerTop(bs, s, k), u, ms, z)
  <2>1. Pending(u) \subseteq Pending(s)
    OBVIOUS
  <2>2. \A y \in Pending(s) : y < bs[k].nbits => y \in Pending(u)
    <3>1. \A y \in Pending(s) : y \in Nat
      BY <1>1, StackFacts
    <3> QED
      BY <1>1, <1>2, <3>1
  <2>3. InnerTop(bs, s, k) \in Nat /\ InnerTop(bs, s, k) >= bs[k].scope.top
    BY <1>2 DEF Nested
  <2>4. Len(ms) <= Len(ls) /\ bs[k].nlocals <= Len(ms) /\ (bs[k].kind = "guarded" => bs[k].nlocals < Len(ms))
    BY <1>1, <1>2
  <2> DEFINE f1 == InnerFirst(bs, s, k)
             t == InnerTop(bs, s, k)
             a == bs[k]
  <2>5. Nested(a, f1, t, s, ls, z) /\ t \in Nat /\ t >= a.scope.top
        /\ Len(ms) \in Nat /\ Len(ls) \in Nat
    BY <1>1, <1>2, <2>3
  <2> HIDE DEF t, f1, a
  <2>6. /\ \A y \in Pending(s) : y < a.nbits => y \in Pending(u)
        /\ Len(ms) <= Len(ls) /\ a.nlocals <= Len(ms) /\ (a.kind = "guarded" => a.nlocals < Len(ms))
    BY <2>2, <2>4 DEF a
  <2>7. Nested(a, f1, t, u, ms, z)
    BY <2>1, <2>5, <2>6, NestedShrink
  <2> QED
    BY <2>7 DEF t, f1, a
<1>6. Nested(d, u.first, u.top, u, ms, z) /\ d.kind \notin Bottom
  <2>1. Nested(b, s.first, InnerTop(bs, s, n + 1), s, ls, z)
    <3>1. Nested(bs[n + 1], InnerFirst(bs, s, n + 1), InnerTop(bs, s, n + 1), s, ls, z)
      BY <1>1, BlockFacts
    <3> QED
      BY <1>1, <3>1
  <2>2. /\ d.stmt.first <= d.nbits /\ d.nbits <= u.first /\ u.first \in Nat /\ u.top \in Nat
        /\ u.first <= Len(u.leafs) /\ d.scope.top <= u.top /\ d.scope.top \in Nat
    BY <1>1, <2>1 DEF Nested, IsBlock
  <2>3. ASSUME NEW x \in Pending(u)
        PROVE  /\ SlotAt(u.leafs, x) < d.scope.top
               /\ d.kind \notin {"match", "guarded"} => x < d.nbits
               /\ x < d.nbits => SlotAt(u.leafs, x) < d.stmt.top
    <3>1. x \in Pending(s) /\ x < s.first
      OBVIOUS
    <3>2. d.kind \notin {"match", "guarded"} => b.kind \notin {"match", "guarded"}
      OBVIOUS
    <3> QED
      BY <2>1, <3>1, <3>2 DEF Nested
  <2>4. /\ d.scope.first <= d.nbits /\ d.scope.first = d.nbits /\ d.kind # "letloop" /\ d.kind # "guarded"
    BY <2>1 DEF Nested, Bottom
  <2>5. d.nlocals <= Len(ms)
        /\ \A j \in 1 .. Len(ms) : IF j <= d.nlocals THEN ms[j].lo + ms[j].n <= d.nbits ELSE d.nbits <= ms[j].lo
    BY <1>1, <2>1 DEF Nested
  <2>6. \A y \in d.entry.may \cup d.exit.may : y < d.nbits /\ y \in Pending(u)
    <3> SUFFICES ASSUME NEW y \in d.entry.may \cup d.exit.may PROVE y < d.nbits /\ y \in Pending(u)
      OBVIOUS
    <3>1. y < b.nbits /\ y \in Pending(s)
      BY <2>1 DEF Nested
    <3>2. y \in Nat
      BY <1>1, <3>1, StackFacts
    <3> QED
      BY <1>1, <3>1, <3>2
  <2>7. d.entry.reach /\ z <= d.stmt.top /\ d.stmt.top <= d.scope.top
    BY <2>1 DEF Nested
  <2> QED
    BY <2>2, <2>3, <2>4, <2>5, <2>6, <2>7 DEF Nested, Bottom
<1>7. ASSUME NEW k \in 1 .. n + 1
      PROVE  /\ Nested(cs[k], InnerFirst(cs, u, k), InnerTop(cs, u, k), u, ms, z)
             /\ cs[k].kind \in Bottom <=> k = 1
  <2>1. CASE k = n + 1
    <3>1. cs[k] = d /\ InnerFirst(cs, u, k) = u.first /\ InnerTop(cs, u, k) = u.top /\ k # 1
      BY <1>1, <2>1 DEF InnerFirst, InnerTop
    <3> QED
      BY <1>6, <3>1
  <2>2. CASE k # n + 1
    <3>1. k \in 1 .. n
      BY <1>1, <2>2
    <3> QED
      BY <1>2, <1>3, <1>5, <3>1
  <2> QED
    BY <2>1, <2>2
<1>8. ASSUME NEW k \in 1 .. n PROVE Within(bs[k], InnerFirst(bs, s, k), d, ms)
  <2>1. Within(bs[k], InnerFirst(bs, s, k), bs[n + 1], ls)
    BY <1>1, <1>2, WithinFacts
  <2>2. Fits(bs[n + 1].entry, bs[k], ls) /\ Fits(d.exit, bs[k], ls)
    BY <1>1, <2>1 DEF Within
  <2>3. Fits(d.entry, bs[k], ms) /\ Fits(d.exit, bs[k], ms)
    BY <1>1, <1>4, <2>2
  <2> QED
    BY <1>2, <2>3 DEF Within
<1>9. ASSUME NEW j \in 1 .. n + 1, NEW k \in 1 .. n + 1, j < k
      PROVE  Within(cs[j], InnerFirst(cs, u, j), cs[k], ms)
  <2>1. j \in 1 .. n /\ cs[j] = bs[j]
    BY <1>1, <1>2, <1>9
  <2>2. CASE k = n + 1
    <3>1. cs[k] = d
      BY <1>1, <2>2
    <3> QED
      BY <1>3, <1>8, <2>1, <3>1
  <2>3. CASE k # n + 1
    <3>1. k \in 1 .. n
      BY <1>1, <2>3
    <3>2. Within(bs[j], InnerFirst(bs, s, j), bs[k], ls)
      BY <1>2, <1>9, <2>1, <3>1, WithinFacts
    <3>3. Within(bs[j], InnerFirst(bs, s, j), bs[k], ms)
      BY <1>4, <2>1, <3>2 DEF Within
    <3> QED
      BY <1>2, <1>3, <2>1, <3>1, <3>3
  <2> QED
    BY <2>2, <2>3
<1>10. BlocksOk(cs, u, ms, z)
  BY <1>1, <1>7, <1>9 DEF BlocksOk
<1>11. LocalsOk(ms, u, W)
  <2>1. \A j \in 1 .. Len(ls) : j <= b.nlocals => ls[j].lo + ls[j].n <= b.nbits
    <3>1. Nested(bs[n + 1], InnerFirst(bs, s, n + 1), InnerTop(bs, s, n + 1), s, ls, z)
      BY <1>1, BlockFacts
    <3>2. \A j \in 1 .. Len(ls) : j <= bs[n + 1].nlocals => ls[j].lo + ls[j].n <= bs[n + 1].nbits
      BY <3>1 DEF Nested
    <3> QED
      BY <1>1, <3>2
  <2>2. \A y \in Pending(s) : y < b.nbits => y \in Pending(u)
    <3>1. \A y \in Pending(s) : y \in Nat
      BY <1>1, StackFacts
    <3> QED
      BY <1>1, <3>1
  <2> QED
    BY <1>1, <2>1, <2>2, LocalsCut
<1>12. FlowOk(g, cs, u, ms)
  <2>1. ASSUME NEW k \in 1 .. n + 1 PROVE Fits(g, cs[k], ms)
    <3>1. CASE k = n + 1
      BY <1>1, <3>1
    <3>2. CASE k # n + 1
      <4>1. k \in 1 .. n /\ k \in 1 .. Len(bs) - 1
        BY <1>1, <3>2
      <4> QED
        BY <1>2, <1>4, <4>1
    <3> QED
      BY <3>1, <3>2
  <2> QED
    BY <1>1, <2>1 DEF FlowOk
<1> QED
  BY <1>10, <1>11, <1>12 DEF Scoped

(* Block d is block b left by a jump with flow d.exit. *)
Left(d, b, s) ==
  /\ IsBlock(d) /\ d.kind = b.kind /\ d.stmt = b.stmt /\ d.scope = b.scope /\ d.nbits = b.nbits
  /\ d.nlocals = b.nlocals /\ d.entry = b.entry /\ d.start = b.start /\ d.patch = b.patch /\ d.arg = b.arg
  /\ \A y \in d.exit.may : y < b.nbits /\ y \in Pending(s)
Replaced1(cs, bs, i, d) == IsSeq(cs) /\ Len(cs) = Len(bs) /\ cs[i] = d /\ \A k \in 1 .. Len(bs) : k # i => cs[k] = bs[k]

(* A jump out of block k reaches its end. *)
LEMMA ScopedExit ==
  ASSUME NEW s, NEW ls, NEW bs, NEW f, NEW z, NEW N, NEW W, Scoped(s, ls, bs, f, z, N, W),
         NEW i \in 1 .. Len(bs), NEW d, Left(d, bs[i], s), \A k \in 1 .. i - 1 : Fits(d.exit, bs[k], ls),
         NEW cs, Replaced1(cs, bs, i, d)
  PROVE  Scoped(s, ls, cs, Unreachable, z, N, W)
<1> DEFINE b == bs[i]
           g == Unreachable
<1>0. IsFlow(g) /\ g.may = {}
  BY DEF Unreachable, IsFlow
<1> HIDE DEF g
<1> USE <1>0 DEF Left, Replaced1
<1>1. /\ IsStack(s, z, N) /\ IsSeq(ls) /\ IsSeq(bs) /\ LocalsOk(ls, s, W) /\ Len(bs) \in Nat /\ Len(bs) >= 1
  BY BlockFacts
<1>2. ASSUME NEW k \in 1 .. Len(bs)
      PROVE  /\ Nested(bs[k], InnerFirst(bs, s, k), InnerTop(bs, s, k), s, ls, z)
             /\ bs[k].kind \in Bottom <=> k = 1
             /\ cs[k].stmt = bs[k].stmt /\ cs[k].kind = bs[k].kind
  <2>1. /\ Nested(bs[k], InnerFirst(bs, s, k), InnerTop(bs, s, k), s, ls, z)
        /\ bs[k].kind \in Bottom <=> k = 1
    BY BlockFacts
  <2>2. cs[k].stmt = bs[k].stmt /\ cs[k].kind = bs[k].kind
    OBVIOUS
  <2> QED
    BY <2>1, <2>2
<1>3. ASSUME NEW k \in 1 .. Len(bs)
      PROVE  InnerFirst(cs, s, k) = InnerFirst(bs, s, k) /\ InnerTop(cs, s, k) = InnerTop(bs, s, k)
  <2>1. k # Len(bs) => k + 1 \in 1 .. Len(bs)
    BY <1>1
  <2> QED
    BY <1>2, <2>1 DEF InnerFirst, InnerTop
<1>4. ASSUME NEW t, NEW u, Nested(b, t, u, s, ls, z) PROVE Nested(d, t, u, s, ls, z)
  <2>1. \A y \in d.entry.may \cup d.exit.may : y < d.nbits /\ y \in Pending(s)
    BY <1>4 DEF Nested
  <2> QED
    BY <1>4, <2>1 DEF Nested
<1>5. ASSUME NEW k \in 1 .. Len(bs)
      PROVE  /\ Nested(cs[k], InnerFirst(cs, s, k), InnerTop(cs, s, k), s, ls, z)
             /\ cs[k].kind \in Bottom <=> k = 1
  <2>1. CASE k = i
    <3>1. Nested(b, InnerFirst(bs, s, k), InnerTop(bs, s, k), s, ls, z)
      BY <1>2, <2>1
    <3>2. Nested(d, InnerFirst(bs, s, k), InnerTop(bs, s, k), s, ls, z)
      BY <1>4, <3>1
    <3> QED
      BY <1>2, <1>3, <2>1, <3>2
  <2>2. CASE k # i
    <3>1. cs[k] = bs[k]
      BY <2>2
    <3> QED
      BY <1>2, <1>3, <3>1
  <2> QED
    BY <2>1, <2>2
<1>6. ASSUME NEW a, NEW h, Fits(h, b, ls) PROVE Fits(h, d, ls)
  BY <1>6 DEF Fits, Knows
<1>7. ASSUME NEW j \in 1 .. Len(bs), NEW k \in 1 .. Len(bs), j < k
      PROVE  Within(cs[j], InnerFirst(cs, s, j), cs[k], ls)
  <2>1. Within(bs[j], InnerFirst(bs, s, j), bs[k], ls)
    BY <1>7, WithinFacts
  <2>2. CASE k = i
    <3>1. cs[j] = bs[j] /\ cs[k] = d /\ Fits(d.exit, bs[j], ls)
      BY <1>1, <1>7, <2>2
    <3>2. Within(bs[j], InnerFirst(bs, s, j), b, ls)
      BY <2>1, <2>2
    <3>3. Within(bs[j], InnerFirst(bs, s, j), d, ls)
      BY <3>1, <3>2 DEF Within
    <3> QED
      BY <1>3, <3>1, <3>3
  <2>3. CASE j = i
    <3>1. cs[j] = d /\ cs[k] = bs[k]
      BY <1>1, <1>7, <2>3
    <3>2. Within(b, InnerFirst(bs, s, j), bs[k], ls)
      BY <2>1, <2>3
    <3>3. Within(d, InnerFirst(bs, s, j), bs[k], ls)
      BY <1>6, <3>2 DEF Within
    <3> QED
      BY <1>3, <3>1, <3>3
  <2>4. CASE j # i /\ k # i
    <3>1. cs[j] = bs[j] /\ cs[k] = bs[k]
      BY <2>4
    <3> QED
      BY <1>3, <2>1, <3>1
  <2> QED
    BY <2>2, <2>3, <2>4
<1>8. BlocksOk(cs, s, ls, z)
  BY <1>1, <1>5, <1>7 DEF BlocksOk
<1>9. FlowOk(g, cs, s, ls)
  BY DEF FlowOk, Fits
<1> QED
  BY <1>1, <1>8, <1>9 DEF Scoped, g

(* A function on 1 .. n is a sequence. *)
LEMMA FunctionIsSeq ==
  ASSUME NEW n \in Nat, NEW T, NEW q, q \in [1 .. n -> T]
  PROVE  IsSeq(q) /\ Len(q) = n
<1>1. q \in Seq(T)
  OBVIOUS
<1>2. DOMAIN q = 1 .. Len(q) /\ Len(q) \in Nat /\ DOMAIN q = 1 .. n
  BY <1>1
<1>3. Len(q) = n
  BY <1>2
<1> QED
  BY <1>1, <1>3 DEF IsSeq

(* Alloc changes three fields. *)
LEMMA StackExcept ==
  ASSUME NEW a, NEW b, NEW c, NEW d, NEW g, NEW s,
         s = [top |-> a, entries |-> b, leafs |-> c, first |-> d, dropped |-> g], NEW e, NEW t, NEW q
  PROVE  [[s EXCEPT !.entries = e, !.top = t] EXCEPT !.leafs = q]
         = [top |-> t, entries |-> e, leafs |-> q, first |-> d, dropped |-> g]
<1> DEFINE s1 == [s EXCEPT !.entries = e]
           s2 == [s1 EXCEPT !.top = t]
<1>1. [s EXCEPT !.entries = e, !.top = t] = s2
  OBVIOUS
<1>3. s1 = [top |-> a, entries |-> e, leafs |-> c, first |-> d, dropped |-> g]
  OBVIOUS
<1> HIDE DEF s1
<1>4. s2 = [top |-> t, entries |-> e, leafs |-> c, first |-> d, dropped |-> g]
  BY <1>3
<1> HIDE DEF s2
<1>6. [s2 EXCEPT !.leafs = q] = [top |-> t, entries |-> e, leafs |-> q, first |-> d, dropped |-> g]
  BY <1>4
<1> QED
  BY <1>1, <1>6

(* The operations of the stack. *)
Allocated(s, n, u) ==
  /\ u = [top |-> u.top, entries |-> u.entries, leafs |-> u.leafs, first |-> u.first, dropped |-> u.dropped]
  /\ u.top = s.top + n /\ u.first = s.first /\ u.dropped = s.dropped
  /\ IsSeq(u.leafs) /\ Len(u.leafs) = Len(s.leafs) + n
  /\ \A b \in Bits(s) : SlotAt(u.leafs, b) = SlotAt(s.leafs, b)
  /\ \A i \in 1 .. n : SlotAt(u.leafs, Len(s.leafs) + n - i) = s.top + i - 1

(* What AllocVal does: a slot and a drop bit per field. *)
LEMMA AllocFacts ==
  ASSUME NEW s, NEW z, NEW N, IsStack(s, z, N), NEW n \in {1, 2}, s.top + n <= N
  PROVE  Allocated(s, n, AllocVal(s, n))
<1>1. s.top \in Nat /\ IsSeq(s.leafs) /\ Len(s.leafs) \in Nat
  BY StackFacts
<1>0. s = [top |-> s.top, entries |-> s.entries, leafs |-> s.leafs, first |-> s.first, dropped |-> s.dropped]
  BY DEF IsStack
<1>2. Align(s.top, 1) = s.top
  BY <1>1 DEF Align
<1> DEFINE e == Append(s.entries, [base |-> s.top, size |-> n, bits |-> Len(s.leafs) .. Len(s.leafs) + Len(Fields(n)) - 1])
           q == FieldSlots(s, 1, Fields(n))
<1>3. AllocVal(s, n) = [top |-> s.top + n, entries |-> e, leafs |-> s.leafs \o q,
                        first |-> s.first, dropped |-> s.dropped]
  <2> DEFINE d == Len(s.leafs) .. Len(s.leafs) + Len(Fields(n)) - 1
             o == [base |-> s.top, size |-> n, bits |-> d]
  <2>1. AllocVal(s, n) = [[s EXCEPT !.entries = Append(s.entries, o), !.top = s.top + n] EXCEPT !.leafs = s.leafs \o q]
    <3> HIDE DEF q
    <3>1. Place(s, n, 1, d) = [s EXCEPT !.entries = Append(s.entries, o), !.top = s.top + n]
      BY <1>2 DEF Place
    <3>2. Place(s, n, 1, d).leafs = s.leafs
      BY <1>0, <3>1
    <3>3. AllocVal(s, n) = [Place(s, n, 1, d) EXCEPT !.leafs = @ \o q]
      BY DEF AllocVal, Alloc, q
    <3> QED
      BY <3>1, <3>2, <3>3
  <2> HIDE DEF q, o
  <2>2. e = Append(s.entries, o)
    BY DEF o
  <2> HIDE DEF e
  <2> QED
    BY <1>0, <2>1, <2>2, StackExcept
<1>4. Len(Fields(n)) = n /\ n \in Nat /\ \A i \in 1 .. n : Fields(n)[i].off = i - 1 /\ Fields(n)[i].size = 1
  BY DEF Fields
<1>5. IsSeq(q) /\ Len(q) = n /\ \A i \in 1 .. n : q[i].slot = s.top + (n - i)
  <2>1. \A i \in 1 .. n : n + 1 - i \in 1 .. n /\ n - i \in Int /\ Fields(n)[n + 1 - i].off = n - i
    BY <1>4
  <2>2. q = [i \in 1 .. n |-> [slot |-> s.top + Fields(n)[n + 1 - i].off, size |-> Fields(n)[n + 1 - i].size]]
    BY <1>2, <1>4 DEF FieldSlots
  <2> DEFINE T == {q[i] : i \in 1 .. n}
  <2>3. q \in [1 .. n -> T]
    BY <2>2
  <2>4. \A i \in 1 .. n : q[i].slot = s.top + (n - i)
    BY <2>1, <2>2
  <2> HIDE DEF q, T
  <2> QED
    BY <1>4, <2>3, <2>4, FunctionIsSeq
<1>6. IsSeq(q)
  BY <1>5
<1>7. /\ IsSeq(s.leafs \o q) /\ Len(s.leafs \o q) = Len(s.leafs) + n
      /\ \A b \in 0 .. Len(s.leafs) - 1 : SlotAt(s.leafs \o q, b) = SlotAt(s.leafs, b)
  <2> HIDE DEF q
  <2>1. \A b \in 0 .. Len(s.leafs) - 1 : b + 1 \in 1 .. Len(s.leafs)
    BY <1>1
  <2>2. /\ IsSeq(s.leafs \o q) /\ Len(s.leafs \o q) = Len(s.leafs) + Len(q)
        /\ \A j \in 1 .. Len(s.leafs) : (s.leafs \o q)[j] = s.leafs[j]
    BY <1>1, <1>6, IsSeqConcat
  <2> QED
    BY <1>5, <2>1, <2>2 DEF SlotAt
<1>8. ASSUME NEW i \in 1 .. n PROVE SlotAt(s.leafs \o q, Len(s.leafs) + n - i) = s.top + i - 1
  <2> HIDE DEF q
  <2> DEFINE k == n + 1 - i
  <2>0. n \in Nat /\ Len(s.leafs) \in Nat /\ i \in Nat /\ i >= 1 /\ i <= n /\ Len(q) = n
    BY <1>1, <1>4, <1>5
  <2>1. k \in 1 .. n /\ Len(s.leafs) + n - i + 1 = Len(s.leafs) + k /\ n - k = i - 1
    <3>1. k \in 1 .. n
      BY <2>0
    <3>2. n - k = i - 1
      BY <2>0
    <3>3. \A x \in Nat : x + n - i + 1 = x + k
      BY <2>0
    <3> QED
      BY <2>0, <3>1, <3>2, <3>3
  <2> HIDE DEF k
  <2>2. (s.leafs \o q)[Len(s.leafs) + k] = q[k]
    BY <1>1, <2>0, <1>6, <2>1, IsSeqConcat
  <2>3. q[k].slot = s.top + (n - k)
    BY <1>5, <2>1
  <2> QED
    BY <1>1, <1>4, <2>1, <2>2, <2>3 DEF SlotAt
<1> HIDE DEF q, e
<1> QED
  BY <1>3, <1>7, <1>8 DEF Bits, Allocated

(* The stack after AllocVal, and the local that it made. *)
LEMMA AllocatedOk ==
  ASSUME NEW s, NEW z, NEW N, IsStack(s, z, N), NEW n \in {1, 2}, s.top + n <= N, NEW u, Allocated(s, n, u)
  PROVE  /\ IsStack(u, z, N) /\ Grows(s, u) /\ u.first = s.first /\ u.top = s.top + n
         /\ Len(u.leafs) = Len(s.leafs) + n
         /\ \A y : y \in Pending(u) <=> y \in Pending(s) \/ y \in Len(s.leafs) .. Len(s.leafs) + n - 1
         /\ Newest(u, n) = [slot |-> s.top, lo |-> Len(s.leafs), n |-> n]
         /\ LocalOk(Newest(u, n), u)
<1> DEFINE e == Len(s.leafs)
<1>1. /\ z \in Nat /\ N \in Nat /\ e \in Nat /\ s.top \in Nat /\ s.top >= z /\ s.top <= N /\ n \in Nat /\ n >= 1 /\ n <= 2
      /\ s.first \in Nat /\ s.first <= e /\ Bits(s) = 0 .. e - 1 /\ Pending(s) \subseteq Bits(s)
      /\ \A b \in Bits(s) : SlotAt(s.leafs, b) \in z .. N - 1
      /\ \A b \in Pending(s) : b \in Nat /\ b < e /\ SlotAt(s.leafs, b) < s.top
  BY StackFacts
<1>2. Len(u.leafs) = e + n /\ Bits(u) = 0 .. e + n - 1
  BY DEF Allocated, Bits
<1>3. \A i \in 1 .. n : SlotAt(u.leafs, e + n - i) = s.top + i - 1
  BY DEF Allocated
<1>4. \A b \in Bits(s) : SlotAt(u.leafs, b) = SlotAt(s.leafs, b)
  BY DEF Allocated
<1>5. u.top = s.top + n /\ u.first = s.first /\ u.dropped = s.dropped /\ IsSeq(u.leafs)
  BY DEF Allocated
<1> HIDE DEF e
<1>6. ASSUME NEW b \in e .. e + n - 1
      PROVE  SlotAt(u.leafs, b) = s.top + (e + n - b) - 1 /\ b \notin Bits(s) /\ b \in Bits(u)
  <2> DEFINE i == e + n - b
  <2>1. i \in 1 .. n /\ b = e + n - i
    BY <1>1
  <2> HIDE DEF i
  <2>2. SlotAt(u.leafs, b) = s.top + i - 1
    BY <1>3, <2>1
  <2>3. b \in Int /\ b >= e /\ b <= e + n - 1
    BY <1>1
  <2>4. b \notin 0 .. e - 1 /\ b \in 0 .. e + n - 1
    BY <1>1, <2>3
  <2>5. b \notin Bits(s) /\ b \in Bits(u)
    BY <1>1, <1>2, <2>4
  <2> QED
    BY <2>2, <2>5 DEF i
<1>7. s.dropped \subseteq Bits(s)
  BY DEF IsStack
<1>8. \A y : y \in Pending(u) <=> y \in Pending(s) \/ y \in e .. e + n - 1
  <2>1. \A y : y \in Bits(u) <=> y \in Bits(s) \/ y \in e .. e + n - 1
    BY <1>1, <1>2
  <2> QED
    BY <1>5, <1>6, <1>7, <2>1 DEF Pending
<1>9. Slotted(u.leafs, z, N)
  <2>1. ASSUME NEW b \in 0 .. e + n - 1 PROVE SlotAt(u.leafs, b) \in z .. N - 1
    <3>1. CASE b \in e .. e + n - 1
      BY <1>1, <1>6, <3>1
    <3>2. CASE b \in Bits(s)
      BY <1>1, <1>4, <3>2
    <3> QED
      BY <1>1, <3>1, <3>2
  <2> QED
    BY <1>1, <1>2, <2>1 DEF Slotted
<1>10. ASSUME NEW b \in Pending(u) PROVE SlotAt(u.leafs, b) < u.top
  <2>1. CASE b \in e .. e + n - 1
    BY <1>1, <1>5, <1>6, <2>1
  <2>2. CASE b \in Pending(s)
    <3>1. SlotAt(u.leafs, b) = SlotAt(s.leafs, b) /\ SlotAt(s.leafs, b) < s.top /\ SlotAt(s.leafs, b) \in Int
      BY <1>1, <1>4, <2>2
    <3> QED
      BY <1>1, <1>5, <3>1
  <2> QED
    BY <1>8, <2>1, <2>2
<1>11. Apart(u.leafs, Pending(u))
  <2> SUFFICES ASSUME NEW b \in Pending(u), NEW c \in Pending(u), SlotAt(u.leafs, b) = SlotAt(u.leafs, c)
               PROVE  b = c
    BY DEF Apart
  <2>1. ASSUME NEW x \in Pending(s) PROVE x \in Nat /\ SlotAt(u.leafs, x) < s.top /\ SlotAt(u.leafs, x) = SlotAt(s.leafs, x)
    BY <1>1, <1>4, <2>1
  <2>2. ASSUME NEW x \in e .. e + n - 1 PROVE SlotAt(u.leafs, x) >= s.top
    BY <1>1, <1>6, <2>2
  <2>3. CASE b \in Pending(s) /\ c \in Pending(s)
    BY <2>1, <2>3 DEF IsStack, Apart
  <2>4. CASE b \in e .. e + n - 1 /\ c \in e .. e + n - 1
    BY <1>1, <1>6, <2>4
  <2>5. CASE b \in Pending(s) /\ c \in e .. e + n - 1
    <3>1. SlotAt(u.leafs, b) < s.top /\ SlotAt(u.leafs, c) >= s.top /\ SlotAt(u.leafs, b) \in Int
      BY <1>1, <1>4, <2>1, <2>2, <2>5
    <3> QED
      BY <1>1, <3>1
  <2>6. CASE c \in Pending(s) /\ b \in e .. e + n - 1
    <3>1. SlotAt(u.leafs, c) < s.top /\ SlotAt(u.leafs, b) >= s.top /\ SlotAt(u.leafs, c) \in Int
      BY <1>1, <1>4, <2>1, <2>2, <2>6
    <3> QED
      BY <1>1, <3>1
  <2> QED
    BY <1>8, <2>3, <2>4, <2>5, <2>6
<1>12. IsStack(u, z, N)
  <2>1. u = [top |-> u.top, entries |-> u.entries, leafs |-> u.leafs, first |-> u.first, dropped |-> u.dropped]
    BY DEF Allocated
  <2>2. u.top \in z .. N /\ u.first \in 0 .. Len(u.leafs) /\ u.dropped \subseteq Bits(u)
    BY <1>1, <1>2, <1>5, <1>7
  <2> QED
    BY <1>5, <1>9, <1>10, <1>11, <2>1, <2>2 DEF IsStack
<1>13. Grows(s, u)
  <2>1. Extends(s.leafs, u.leafs)
    BY <1>1, <1>2, <1>4 DEF Extends, e
  <2>2. \A b \in Bits(s) : b \in Pending(u) <=> b \in Pending(s)
    BY <1>1, <1>8
  <2> QED
    BY <1>1, <1>5, <2>1, <2>2 DEF Grows
<1>14. Newest(u, n) = [slot |-> s.top, lo |-> e, n |-> n]
  BY <1>1, <1>2, <1>5 DEF Newest
<1>15. LocalOk(Newest(u, n), u)
  <2>1. \A b \in e .. e + n - 1 : b \in Pending(u)
    BY <1>8
  <2> QED
    BY <1>1, <1>2, <1>3, <1>14, <2>1 DEF LocalOk
<1> QED
  BY <1>2, <1>5, <1>8, <1>12, <1>13, <1>14, <1>15 DEF e

(* The stack with its top and first drop bit moved and the bits X dropped. *)
Trimmed(s, u, t, f, X) ==
  /\ u = [top |-> u.top, entries |-> u.entries, leafs |-> u.leafs, first |-> u.first, dropped |-> u.dropped]
  /\ u.leafs = s.leafs /\ u.top = t /\ u.first = f /\ u.dropped = s.dropped \cup X

(* AllocPlain, PushScope and PopScope register no bit. *)
LEMMA TrimFacts ==
  ASSUME NEW s, NEW z, NEW N, IsStack(s, z, N)
  PROVE  /\ \A n \in {1, 2} : Trimmed(s, AllocPlain(s, n), s.top + n, s.first, {})
         /\ Trimmed(s, PushScope(s), s.top, Len(s.leafs), {})
         /\ \A v : Trimmed(s, PopScope(s, v), v.top, v.first, ScopeBits(s))
<1>1. s = [top |-> s.top, entries |-> s.entries, leafs |-> s.leafs, first |-> s.first, dropped |-> s.dropped]
  BY DEF IsStack
<1>2. ASSUME NEW n \in {1, 2} PROVE Trimmed(s, AllocPlain(s, n), s.top + n, s.first, {})
  <2> DEFINE e == Append(s.entries, [base |-> s.top, size |-> n, bits |-> {}])
  <2>1. s.top \in Nat /\ Align(s.top, 1) = s.top
    BY StackFacts DEF Align
  <2>2. AllocPlain(s, n) = [[s EXCEPT !.entries = e] EXCEPT !.top = s.top + n]
    BY <2>1 DEF AllocPlain, AllocNoDrop, Place
  <2> HIDE DEF e
  <2> DEFINE r == [s EXCEPT !.entries = e]
  <2>3. r = [top |-> s.top, entries |-> e, leafs |-> s.leafs, first |-> s.first, dropped |-> s.dropped]
    BY <1>1
  <2>4. AllocPlain(s, n) = [r EXCEPT !.top = s.top + n]
    BY <2>2
  <2> HIDE DEF r
  <2>5. AllocPlain(s, n) = [top |-> s.top + n, entries |-> e, leafs |-> s.leafs, first |-> s.first, dropped |-> s.dropped]
    BY <2>3, <2>4
  <2> QED
    BY <2>5 DEF Trimmed
<1>3. Trimmed(s, PushScope(s), s.top, Len(s.leafs), {})
  <2>1. PushScope(s) = [top |-> s.top, entries |-> s.entries, leafs |-> s.leafs, first |-> Len(s.leafs), dropped |-> s.dropped]
    BY <1>1 DEF PushScope
  <2> QED
    BY <2>1 DEF Trimmed
<1>4. ASSUME NEW v PROVE Trimmed(s, PopScope(s, v), v.top, v.first, ScopeBits(s))
  <2> DEFINE e == SubSeq(s.entries, 1, v.entries)
             d == s.dropped \cup ScopeBits(s)
  <2>1. PopScope(s, v) = [s EXCEPT !.entries = e, !.top = v.top, !.first = v.first, !.dropped = d]
    BY DEF PopScope
  <2> HIDE DEF e, d
  <2>2. [s EXCEPT !.entries = e, !.top = v.top, !.first = v.first, !.dropped = d]
        = [top |-> v.top, entries |-> e, leafs |-> s.leafs, first |-> v.first, dropped |-> d]
    <3> DEFINE s1 == [s EXCEPT !.entries = e]
               s2 == [s1 EXCEPT !.top = v.top]
               s3 == [s2 EXCEPT !.first = v.first]
    <3>1. [s EXCEPT !.entries = e, !.top = v.top, !.first = v.first, !.dropped = d] = [s3 EXCEPT !.dropped = d]
      OBVIOUS
    <3>2. s1 = [top |-> s.top, entries |-> e, leafs |-> s.leafs, first |-> s.first, dropped |-> s.dropped]
      BY <1>1
    <3> HIDE DEF s1
    <3>3. s2 = [top |-> v.top, entries |-> e, leafs |-> s.leafs, first |-> s.first, dropped |-> s.dropped]
      BY <3>2
    <3> HIDE DEF s2
    <3>4. s3 = [top |-> v.top, entries |-> e, leafs |-> s.leafs, first |-> v.first, dropped |-> s.dropped]
      BY <3>3
    <3> HIDE DEF s3
    <3> QED
      BY <3>1, <3>4
  <2> QED
    BY <2>1, <2>2 DEF Trimmed, d
<1> QED
  BY <1>2, <1>3, <1>4

(* The stack stays well formed if each slot given up holds no pending bit. *)
LEMMA TrimmedOk ==
  ASSUME NEW s, NEW z, NEW N, IsStack(s, z, N), NEW t, NEW f, NEW X, NEW u, Trimmed(s, u, t, f, X),
         t \in z .. N, f \in 0 .. Len(s.leafs), X \subseteq Bits(s),
         \A b \in Pending(s) : b \in X \/ SlotAt(s.leafs, b) < t
  PROVE  /\ IsStack(u, z, N) /\ u.leafs = s.leafs /\ u.top = t /\ u.first = f
         /\ \A y : y \in Pending(u) <=> y \in Pending(s) /\ y \notin X
<1>1. /\ u.leafs = s.leafs /\ u.top = t /\ u.first = f /\ u.dropped = s.dropped \cup X
      /\ u = [top |-> u.top, entries |-> u.entries, leafs |-> u.leafs, first |-> u.first, dropped |-> u.dropped]
  BY DEF Trimmed
<1>2. Bits(u) = Bits(s)
  BY <1>1 DEF Bits
<1>3. \A y : y \in Pending(u) <=> y \in Pending(s) /\ y \notin X
  BY <1>1, <1>2 DEF Pending
<1>4. Apart(u.leafs, Pending(u))
  BY <1>1, <1>3 DEF Apart, IsStack
<1>5. IsSeq(s.leafs) /\ Slotted(s.leafs, z, N) /\ s.dropped \subseteq Bits(s)
  BY DEF IsStack
<1> QED
  BY <1>1, <1>2, <1>3, <1>4, <1>5 DEF IsStack

(* Places of locals. *)
LEMMA LocalSlots ==
  ASSUME NEW x, NEW s, LocalOk(x, s)
  PROVE  /\ x.slot \in Nat /\ x.lo \in Nat /\ x.n \in 1 .. 2 /\ x.lo + x.n <= Len(s.leafs)
         /\ \A b \in x.lo .. x.lo + x.n - 1 : b \in Pending(s)
         /\ x.n = 1 => SlotAt(s.leafs, x.lo) = x.slot
         /\ x.n = 2 => SlotAt(s.leafs, x.lo) = x.slot + 1 /\ SlotAt(s.leafs, x.lo + 1) = x.slot
<1>1. /\ x.slot \in Nat /\ x.lo \in Nat /\ x.n \in 1 .. 2 /\ x.lo + x.n <= Len(s.leafs)
      /\ \A b \in x.lo .. x.lo + x.n - 1 : b \in Pending(s)
      /\ \A i \in 1 .. x.n : SlotAt(s.leafs, x.lo + x.n - i) = x.slot + i - 1
  BY DEF LocalOk
<1>2. ASSUME x.n = 1 PROVE SlotAt(s.leafs, x.lo) = x.slot
  <2>1. 1 \in 1 .. x.n /\ x.lo + x.n - 1 = x.lo /\ x.slot + 1 - 1 = x.slot
    BY <1>1, <1>2
  <2>2. SlotAt(s.leafs, x.lo + x.n - 1) = x.slot + 1 - 1
    BY <1>1, <2>1
  <2> QED
    BY <2>1, <2>2
<1>3. ASSUME x.n = 2 PROVE SlotAt(s.leafs, x.lo) = x.slot + 1 /\ SlotAt(s.leafs, x.lo + 1) = x.slot
  <2>1. 1 \in 1 .. x.n /\ 2 \in 1 .. x.n /\ x.lo + x.n - 1 = x.lo + 1 /\ x.lo + x.n - 2 = x.lo
        /\ x.slot + 1 - 1 = x.slot /\ x.slot + 2 - 1 = x.slot + 1
    BY <1>1, <1>3
  <2>2. SlotAt(s.leafs, x.lo + x.n - 1) = x.slot + 1 - 1 /\ SlotAt(s.leafs, x.lo + x.n - 2) = x.slot + 2 - 1
    BY <1>1, <2>1
  <2> QED
    BY <2>1, <2>2
<1> QED
  BY <1>1, <1>2, <1>3

(* The places of a local: all of it, or a field of a pair. *)
LEMMA PlaceShapes ==
  ASSUME NEW x, x.lo \in Nat, x.slot \in Nat, x.n \in 1 .. 2, NEW p \in PlacesOf(x)
  PROVE  \/ p.slot = x.slot /\ p.lo = x.lo /\ p.hi = x.lo + x.n - 1 /\ p = [slot |-> x.slot, lo |-> x.lo, hi |-> x.lo + x.n - 1]
         \/ x.n = 2 /\ p.slot = x.slot /\ p.lo = x.lo + 1 /\ p.hi = x.lo + 1 /\ p = [slot |-> x.slot, lo |-> x.lo + 1, hi |-> x.lo + 1]
         \/ x.n = 2 /\ p.slot = x.slot + 1 /\ p.lo = x.lo /\ p.hi = x.lo /\ p = [slot |-> x.slot + 1, lo |-> x.lo, hi |-> x.lo]
<1>1. p = PlaceOf(x) \/ \E i \in 1 .. x.n : p = Field(x, i)
  BY DEF PlacesOf
<1>2. CASE p = PlaceOf(x)
  BY <1>2 DEF PlaceOf
<1>3. CASE \E i \in 1 .. x.n : p = Field(x, i)
  <2>1. PICK i \in 1 .. x.n : p = Field(x, i)
    BY <1>3
  <2>2. p = [slot |-> x.slot + i - 1, lo |-> x.lo + x.n - i, hi |-> x.lo + x.n - i]
    BY <2>1 DEF Field
  <2>3. (x.n = 1 /\ i = 1) \/ (x.n = 2 /\ i = 1) \/ (x.n = 2 /\ i = 2)
    OBVIOUS
  <2>4. CASE x.n = 1 /\ i = 1
    <3>1. x.slot + i - 1 = x.slot /\ x.lo + x.n - i = x.lo /\ x.lo + x.n - 1 = x.lo
      BY <2>4
    <3> QED
      BY <2>2, <3>1
  <2>5. CASE x.n = 2 /\ i = 1
    <3>1. x.slot + i - 1 = x.slot /\ x.lo + x.n - i = x.lo + 1
      BY <2>5
    <3> QED
      BY <2>2, <2>5, <3>1
  <2>6. CASE x.n = 2 /\ i = 2
    <3>1. x.slot + i - 1 = x.slot + 1 /\ x.lo + x.n - i = x.lo
      BY <2>6
    <3> QED
      BY <2>2, <2>6, <3>1
  <2> QED
    BY <2>3, <2>4, <2>5, <2>6
<1> QED
  BY <1>1, <1>2, <1>3

(* Where the places of a local are. *)
LEMMA PlacesOk ==
  ASSUME NEW x, NEW s, LocalOk(x, s), Len(s.leafs) \in Nat, NEW p \in PlacesOf(x)
  PROVE  /\ PlaceAt(s.leafs, p, BitsOf(p)) /\ BitsOf(p) \subseteq Pending(s)
         /\ WidthOf(p) \in 1 .. 2 /\ WidthOf(p) <= x.n
         /\ \A y \in BitsOf(p) : y \in Nat /\ x.lo <= y /\ y < x.lo + x.n
<1>1. /\ x.slot \in Nat /\ x.lo \in Nat /\ x.n \in 1 .. 2 /\ x.lo + x.n <= Len(s.leafs)
      /\ \A b \in x.lo .. x.lo + x.n - 1 : b \in Pending(s)
      /\ x.n = 1 => SlotAt(s.leafs, x.lo) = x.slot
      /\ x.n = 2 => SlotAt(s.leafs, x.lo) = x.slot + 1 /\ SlotAt(s.leafs, x.lo + 1) = x.slot
  BY LocalSlots
<1>2. \/ p.slot = x.slot /\ p.lo = x.lo /\ p.hi = x.lo + x.n - 1
      \/ x.n = 2 /\ p.slot = x.slot /\ p.lo = x.lo + 1 /\ p.hi = x.lo + 1
      \/ x.n = 2 /\ p.slot = x.slot + 1 /\ p.lo = x.lo /\ p.hi = x.lo
  BY <1>1, PlaceShapes
<1>3. p.slot \in Nat /\ p.lo \in Nat /\ p.hi \in Nat /\ p.lo <= p.hi /\ p.hi < x.lo + x.n /\ x.lo <= p.lo
  BY <1>1, <1>2
<1>4. \A y \in BitsOf(p) : y \in Nat /\ x.lo <= y /\ y < x.lo + x.n
  BY <1>1, <1>3 DEF BitsOf
<1>5. BitsOf(p) \subseteq Pending(s)
  BY <1>1, <1>4
<1>6. WidthOf(p) \in 1 .. 2 /\ WidthOf(p) <= x.n
  BY <1>1, <1>2 DEF WidthOf
<1>7. SlotsOf(s.leafs, BitsOf(p)) = p.slot .. p.slot + WidthOf(p) - 1
  <2>1. CASE p.lo = p.hi
    <3>1. BitsOf(p) = {p.lo} /\ p.slot .. p.slot + WidthOf(p) - 1 = {p.slot}
      BY <1>3, <2>1 DEF BitsOf, WidthOf
    <3>2. SlotAt(s.leafs, p.lo) = p.slot
      BY <1>1, <1>2, <2>1
    <3> QED
      BY <3>1, <3>2 DEF SlotsOf
  <2>2. CASE p.lo # p.hi
    <3>1. x.n = 2 /\ p.lo = x.lo /\ p.hi = x.lo + 1 /\ p.slot = x.slot
      BY <1>1, <1>2, <2>2
    <3>2. BitsOf(p) = {x.lo, x.lo + 1}
      BY <1>1, <3>1 DEF BitsOf
    <3>3. WidthOf(p) = 2
      BY <1>1, <3>1 DEF WidthOf
    <3>4. p.slot .. p.slot + WidthOf(p) - 1 = {x.slot, x.slot + 1}
      BY <1>1, <3>1, <3>3
    <3> QED
      BY <1>1, <3>1, <3>2, <3>4 DEF SlotsOf
  <2> QED
    BY <2>1, <2>2
<1> QED
  BY <1>1, <1>3, <1>4, <1>5, <1>6, <1>7 DEF PlaceAt, PlaceOk

(* Different places of equal width share no bit. *)
LEMMA DifferentPlaces ==
  ASSUME NEW ls, NEW s, NEW W, LocalsOk(ls, s, W), Len(s.leafs) \in Nat, NEW i \in 1 .. Len(ls), NEW j \in 1 .. Len(ls),
         NEW p \in PlacesOf(ls[i]), NEW q \in PlacesOf(ls[j]), WidthOf(p) = WidthOf(q), p # q
  PROVE  BitsOf(p) \cap BitsOf(q) = {}
<1>1. LocalOk(ls[i], s) /\ LocalOk(ls[j], s)
  BY DEF LocalsOk
<1> DEFINE x == ls[i]
           y == ls[j]
<1>2. i # j => x.lo + x.n <= y.lo \/ y.lo + y.n <= x.lo
  <2>1. Len(ls) \in Nat
    BY IsSeqFacts DEF LocalsOk
  <2> QED
    BY <2>1 DEF LocalsOk
<1>3. i = j => x = y
  OBVIOUS
<1> HIDE DEF x, y
<1>4. LocalOk(x, s) /\ LocalOk(y, s) /\ p \in PlacesOf(x) /\ q \in PlacesOf(y)
  BY <1>1 DEF x, y
<1>5. /\ \A b \in BitsOf(p) : b \in Nat /\ x.lo <= b /\ b < x.lo + x.n
      /\ \A b \in BitsOf(q) : b \in Nat /\ y.lo <= b /\ b < y.lo + y.n
  BY <1>4, PlacesOk
<1>6. /\ x.lo \in Nat /\ x.n \in 1 .. 2 /\ y.lo \in Nat /\ y.n \in 1 .. 2 /\ x.slot \in Nat /\ y.slot \in Nat
  BY <1>4, LocalSlots
<1>7. CASE i # j
  BY <1>2, <1>5, <1>6, <1>7
<1>8. CASE x = y
  <2>1. q \in PlacesOf(x)
    BY <1>4, <1>8
  <2>2. \/ p.slot = x.slot /\ p.lo = x.lo /\ p.hi = x.lo + x.n - 1 /\ p = [slot |-> x.slot, lo |-> x.lo, hi |-> x.lo + x.n - 1]
        \/ x.n = 2 /\ p.slot = x.slot /\ p.lo = x.lo + 1 /\ p.hi = x.lo + 1 /\ p = [slot |-> x.slot, lo |-> x.lo + 1, hi |-> x.lo + 1]
        \/ x.n = 2 /\ p.slot = x.slot + 1 /\ p.lo = x.lo /\ p.hi = x.lo /\ p = [slot |-> x.slot + 1, lo |-> x.lo, hi |-> x.lo]
    BY <1>4, <1>6, PlaceShapes
  <2>3. \/ q.slot = x.slot /\ q.lo = x.lo /\ q.hi = x.lo + x.n - 1 /\ q = [slot |-> x.slot, lo |-> x.lo, hi |-> x.lo + x.n - 1]
        \/ x.n = 2 /\ q.slot = x.slot /\ q.lo = x.lo + 1 /\ q.hi = x.lo + 1 /\ q = [slot |-> x.slot, lo |-> x.lo + 1, hi |-> x.lo + 1]
        \/ x.n = 2 /\ q.slot = x.slot + 1 /\ q.lo = x.lo /\ q.hi = x.lo /\ q = [slot |-> x.slot + 1, lo |-> x.lo, hi |-> x.lo]
    BY <1>6, <2>1, PlaceShapes
  <2>4. p.hi - p.lo + 1 = q.hi - q.lo + 1
    BY DEF WidthOf
  <2>5. \/ p.lo = x.lo + 1 /\ p.hi = x.lo + 1 /\ q.lo = x.lo /\ q.hi = x.lo
        \/ q.lo = x.lo + 1 /\ q.hi = x.lo + 1 /\ p.lo = x.lo /\ p.hi = x.lo
    BY <1>6, <2>2, <2>3, <2>4
  <2> QED
    BY <1>6, <2>5 DEF BitsOf
<1> QED
  BY <1>3, <1>7, <1>8

--------------------------------------------------------------------------------
(* Initialisedness. *)
LEMMA FlowFits ==
  ASSUME NEW s, NEW ls, NEW bs, NEW f, NEW z, NEW N, NEW W, Scoped(s, ls, bs, f, z, N, W),
         NEW D, \A y \in D : y \in Nat /\ (y >= Len(s.leafs) \/ \E i \in 1 .. Len(ls) : ls[i].lo <= y /\ y < ls[i].lo + ls[i].n),
         NEW g, g.may \subseteq f.may \cup D
  PROVE  \A k \in 1 .. Len(bs) : Fits(g, bs[k], ls)
<1> SUFFICES ASSUME NEW k \in 1 .. Len(bs), NEW y \in g.may, y < bs[k].nbits PROVE Knows(bs[k], ls, y)
  BY DEF Fits
<1> DEFINE b == bs[k]
<1>1. /\ Nested(b, InnerFirst(bs, s, k), InnerTop(bs, s, k), s, ls, z) /\ Fits(f, b, ls) /\ b.nbits \in Nat
      /\ b.nbits <= InnerFirst(bs, s, k) /\ InnerFirst(bs, s, k) <= Len(s.leafs) /\ InnerFirst(bs, s, k) \in Nat
      /\ b.nlocals \in Nat
  BY BlockFacts
<1>2. Len(s.leafs) \in Nat /\ Len(ls) \in Nat /\ LocalsOk(ls, s, W)
  BY BlockFacts, StackFacts
<1>3. \A j \in 1 .. Len(ls) : IF j <= b.nlocals THEN ls[j].lo + ls[j].n <= b.nbits ELSE b.nbits <= ls[j].lo
  BY <1>1 DEF Nested
<1> HIDE DEF b
<1>4. CASE y \in f.may
  BY <1>1, <1>4 DEF Fits, b
<1>5. CASE y \in D
  <2>1. y < Len(s.leafs) /\ y \in Nat /\ y < b.nbits
    BY <1>1, <1>2, <1>5 DEF b
  <2>2. PICK i \in 1 .. Len(ls) : ls[i].lo <= y /\ y < ls[i].lo + ls[i].n
    BY <1>2, <1>5, <2>1
  <2>3. ls[i].lo \in Nat
    BY <1>2 DEF LocalsOk, LocalOk
  <2>4. i <= b.nlocals
    BY <1>1, <1>2, <1>3, <2>1, <2>2, <2>3
  <2>5. i \in 1 .. b.nlocals
    BY <1>1, <1>2, <2>4
  <2> QED
    BY <2>2, <2>5 DEF Knows, b
<1> QED
  BY <1>4, <1>5

(* The state settles with flags that flow f allows; bits from n on are left     *)
(* aside by Ends.                                                               *)
Arrives(l, f, t) ==
  f.reach /\ \E F : /\ t = Settled(l, F) /\ F \subseteq 0 .. Len(l) - 1 /\ Apart(l, F)
                    /\ f.must \subseteq F /\ F \subseteq f.may
Ends(l, n, f, t) ==
  f.reach /\ \E F : /\ t = Settled(l, F) /\ F \subseteq 0 .. Len(l) - 1 /\ Apart(l, F)
                    /\ f.must \subseteq F /\ \A y \in F : y < n => y \in f.may

(* Instructions of block b that are filled in later: those that fall through    *)
(* and those that only leave it.                                                *)
Falls(b) == CASE b.kind \in {"then", "match"} -> {b.patch}
              [] b.kind = "guarded" -> {b.patch, b.patch + 2}
              [] OTHER -> {}
Exits(b) == CASE b.kind = "else" -> {b.patch}
              [] b.kind \in {"loop", "letloop", "match"} -> b.breaks
              [] OTHER -> {}
Holes(b) == Falls(b) \cup Exits(b)

Passed(b, ls) == [b.entry EXCEPT !.must = @ \ BitsOf(b.arg),
                                 !.may = @ \cup BitsOf(PlaceOf(ls[b.nlocals + 1]))]

Heads(b, ls, F) == F \subseteq 0 .. b.nbits - 1 /\ b.entry.must \subseteq F /\ \A y \in F : Knows(b, ls, y)

HoleOk(R, l, b, ls) ==
  /\ \A h \in Falls(b) : R[h] \subseteq R[h + 1] /\ \A t \in R[h] : Clean(l, t)
  /\ b.kind = "then" => \A t \in R[b.patch] : Arrives(l, b.entry, t)
  /\ b.kind = "guarded" => \A t \in R[b.patch + 2] : Arrives(l, Passed(b, ls), t)
  /\ \A h \in Exits(b) : \A t \in R[h] : Ends(l, b.nbits, b.exit, t) /\ (b.kind = "letloop" => Arrives(l, b.exit, t))
  /\ b.kind \in {"loop", "letloop"} => \A F : Heads(b, ls, F) => Settled(l, F) \in R[b.start]

Placed(b, n) == Holes(b) \subseteq 0 .. n - 1 /\ b.start \in 0 .. n

(* Every placeholder is one of E or a hole of a block. *)
Filled(c, bs, E) ==
  \A h \in 0 .. Len(c) - 1 : c[h + 1].op = "Skipped" => h \in E \/ \E k \in 1 .. Len(bs) : h \in Holes(bs[k])

(* The code so far: E are instructions still to be filled in that belong to no  *)
(* block.                                                                       *)
Traced(R, c, l, z, N, bs, ls, E) ==
  /\ IsSeq(c) /\ Len(c) >= 1 /\ Len(l) \in Nat
  /\ Outline(R, c, l, N) /\ [flags |-> {}, owned |-> {z}] \in R[0]
  /\ \A k \in 1 .. Len(bs) : HoleOk(R, l, bs[k], ls) /\ Placed(bs[k], Len(c)) /\ bs[k].nbits <= Len(l) /\ bs[k].nbits \in Nat
  /\ Filled(c, bs, E)

Agree(b, ls, ms) ==
  /\ \A j \in 1 .. b.nlocals : ms[j] = ls[j]
  /\ b.kind = "guarded" => ms[b.nlocals + 1] = ls[b.nlocals + 1]

--------------------------------------------------------------------------------
(* More drop bits change nothing about the states that arrive. *)
LEMMA ArrivesExtended ==
  ASSUME NEW l, NEW m, Extends(l, m), Len(l) \in Nat, Len(m) \in Nat, NEW f, NEW t
  PROVE  (Arrives(l, f, t) => Arrives(m, f, t)) /\ \A n : Ends(l, n, f, t) => Ends(m, n, f, t)
<1>1. ASSUME NEW F, F \subseteq 0 .. Len(l) - 1
      PROVE  F \subseteq 0 .. Len(m) - 1 /\ Settled(m, F) = Settled(l, F) /\ (Apart(m, F) <=> Apart(l, F))
  <2>1. SlotsOf(m, F) = SlotsOf(l, F) /\ (Apart(m, F) <=> Apart(l, F))
    BY <1>1, SlotsExtended
  <2>2. 0 .. Len(l) - 1 \subseteq 0 .. Len(m) - 1
    BY DEF Extends
  <2> QED
    BY <1>1, <2>1, <2>2 DEF Settled
<1>2. ASSUME Arrives(l, f, t) PROVE Arrives(m, f, t)
  BY <1>1, <1>2 DEF Arrives
<1>3. ASSUME NEW n, Ends(l, n, f, t) PROVE Ends(m, n, f, t)
  BY <1>1, <1>3 DEF Ends
<1> QED
  BY <1>2, <1>3

(* States that arrive are clean. *)
LEMMA ArrivesEnds ==
  ASSUME NEW l, NEW f, NEW t
  PROVE  /\ Arrives(l, f, t) => Clean(l, t) /\ \A n : Ends(l, n, f, t)
         /\ \A n : Ends(l, n, f, t) => Clean(l, t)
<1>1. ASSUME NEW F, Apart(l, F) PROVE Clean(l, Settled(l, F))
  BY <1>1 DEF Clean, Settled
<1> QED
  BY <1>1 DEF Arrives, Ends

(* A hole stays right while code is appended. *)
LEMMA HoleKept ==
  ASSUME NEW R, NEW Q, NEW n \in Nat, Keeps(R, Q, n), NEW l, NEW m, Extends(l, m), Len(l) \in Nat, Len(m) \in Nat,
         NEW N, R \in [Nat -> SUBSET State(l, N)],
         NEW ls, NEW ms, NEW b, Agree(b, ls, ms), HoleOk(R, l, b, ls), Placed(b, n), b.nbits <= Len(l), b.nbits \in Nat
  PROVE  HoleOk(Q, m, b, ms)
<1>1. ASSUME NEW h \in Holes(b) PROVE h \in Nat /\ Q[h] = R[h] /\ R[h + 1] \subseteq Q[h + 1]
  <2>1. h \in 0 .. n - 1
    BY DEF Placed
  <2>2. Q[h] = R[h]
    BY <2>1 DEF Keeps
  <2>3. h + 1 \in 0 .. n - 1 \/ h + 1 = n
    BY <2>1
  <2> QED
    BY <2>1, <2>2, <2>3 DEF Keeps
<1>2. ASSUME NEW h \in Nat, NEW t \in R[h], Clean(l, t) PROVE Clean(m, t)
  <2>1. t.flags \subseteq 0 .. Len(l) - 1
    BY DEF State
  <2>2. SlotsOf(m, t.flags) = SlotsOf(l, t.flags) /\ (Apart(m, t.flags) <=> Apart(l, t.flags))
    BY <2>1, SlotsExtended
  <2> QED
    BY <1>2, <2>2 DEF Clean
<1>3. \A h \in Falls(b) : Q[h] \subseteq Q[h + 1] /\ \A t \in Q[h] : Clean(m, t)
  <2> SUFFICES ASSUME NEW h \in Falls(b) PROVE Q[h] \subseteq Q[h + 1] /\ \A t \in Q[h] : Clean(m, t)
    OBVIOUS
  <2>1. h \in Nat /\ Q[h] = R[h] /\ R[h + 1] \subseteq Q[h + 1]
    BY <1>1 DEF Holes
  <2>2. R[h] \subseteq R[h + 1] /\ \A t \in R[h] : Clean(l, t)
    BY DEF HoleOk
  <2> QED
    BY <1>2, <2>1, <2>2
<1>4. b.kind = "then" => \A t \in Q[b.patch] : Arrives(m, b.entry, t)
  <2> SUFFICES ASSUME b.kind = "then", NEW t \in Q[b.patch] PROVE Arrives(m, b.entry, t)
    OBVIOUS
  <2>1. b.patch \in Holes(b)
    BY DEF Holes, Falls
  <2> QED
    BY <1>1, <2>1, ArrivesExtended DEF HoleOk
<1>5. b.kind = "guarded" => \A t \in Q[b.patch + 2] : Arrives(m, Passed(b, ms), t)
  <2> SUFFICES ASSUME b.kind = "guarded", NEW t \in Q[b.patch + 2] PROVE Arrives(m, Passed(b, ms), t)
    OBVIOUS
  <2>1. b.patch + 2 \in Holes(b)
    BY DEF Holes, Falls
  <2>2. Passed(b, ms) = Passed(b, ls)
    BY DEF Passed, Agree
  <2>3. t \in R[b.patch + 2]
    BY <1>1, <2>1
  <2>4. Arrives(l, Passed(b, ls), t)
    BY <2>3 DEF HoleOk
  <2> QED
    BY <2>2, <2>4, ArrivesExtended
<1>6. \A h \in Exits(b) : \A t \in Q[h] : Ends(m, b.nbits, b.exit, t) /\ (b.kind = "letloop" => Arrives(m, b.exit, t))
  <2> SUFFICES ASSUME NEW h \in Exits(b), NEW t \in Q[h]
               PROVE  Ends(m, b.nbits, b.exit, t) /\ (b.kind = "letloop" => Arrives(m, b.exit, t))
    OBVIOUS
  <2>1. Q[h] = R[h]
    BY <1>1 DEF Holes
  <2>2. Ends(l, b.nbits, b.exit, t) /\ (b.kind = "letloop" => Arrives(l, b.exit, t))
    BY <2>1 DEF HoleOk
  <2> QED
    BY <2>2, ArrivesExtended
<1>7. b.kind \in {"loop", "letloop"} => \A F : Heads(b, ms, F) => Settled(m, F) \in Q[b.start]
  <2> SUFFICES ASSUME b.kind \in {"loop", "letloop"}, NEW F, Heads(b, ms, F) PROVE Settled(m, F) \in Q[b.start]
    OBVIOUS
  <2>1. Heads(b, ls, F)
    <3>1. \A y : Knows(b, ms, y) => Knows(b, ls, y)
      BY DEF Knows, Agree
    <3> QED
      BY <3>1 DEF Heads
  <2>2. F \subseteq 0 .. Len(l) - 1
    <3>1. 0 .. b.nbits - 1 \subseteq 0 .. Len(l) - 1
      OBVIOUS
    <3> QED
      BY <2>1, <3>1 DEF Heads
  <2>3. Settled(m, F) = Settled(l, F)
    BY <2>2, SlotsExtended DEF Settled
  <2>4. b.start \in 0 .. n - 1 \/ b.start = n
    BY DEF Placed
  <2>5. R[b.start] \subseteq Q[b.start]
    BY <2>4 DEF Keeps
  <2> QED
    BY <2>1, <2>3, <2>5 DEF HoleOk
<1> QED
  BY <1>3, <1>4, <1>5, <1>6, <1>7 DEF HoleOk

(* What an outline gives. *)
LEMMA TracedFacts ==
  ASSUME NEW R, NEW c, NEW l, NEW z, NEW N, NEW bs, NEW ls, NEW E, Traced(R, c, l, z, N, bs, ls, E)
  PROVE  /\ IsSeq(c) /\ Len(c) \in Nat /\ Len(c) >= 1 /\ Len(l) \in Nat
         /\ Outline(R, c, l, N) /\ [flags |-> {}, owned |-> {z}] \in R[0]
         /\ R \in [Nat -> SUBSET State(l, N)] /\ \A k \in Nat : k > Len(c) => R[k] = {}
         /\ \A k \in 1 .. Len(bs) : /\ HoleOk(R, l, bs[k], ls) /\ Placed(bs[k], Len(c))
                                    /\ bs[k].nbits <= Len(l) /\ bs[k].nbits \in Nat
         /\ Filled(c, bs, E)
  BY IsSeqFacts, OutlineType DEF Traced

(* Extends is reflexive. *)
LEMMA ExtendsItself ==
  ASSUME NEW l, Len(l) \in Nat
  PROVE  Extends(l, l)
  BY DEF Extends

(* The outline changes, not the blocks. *)
LEMMA TracedKept ==
  ASSUME NEW R, NEW c, NEW l, NEW z, NEW N, NEW bs, NEW ls, NEW E, Traced(R, c, l, z, N, bs, ls, E),
         NEW Q, NEW d, NEW m, NEW ms, IsSeq(d), Len(d) >= Len(c), Outline(Q, d, m, N), Keeps(R, Q, Len(c)),
         Extends(l, m), Len(m) \in Nat, \A k \in 1 .. Len(bs) : Agree(bs[k], ls, ms), NEW D, Filled(d, bs, D)
  PROVE  Traced(Q, d, m, z, N, bs, ms, D)
<1>1. /\ IsSeq(c) /\ Len(c) \in Nat /\ Len(c) >= 1 /\ Len(l) \in Nat
      /\ [flags |-> {}, owned |-> {z}] \in R[0] /\ R \in [Nat -> SUBSET State(l, N)]
  BY TracedFacts
<1>2. Len(d) \in Nat /\ Len(d) >= 1
  BY <1>1, IsSeqFacts
<1>3. ASSUME NEW k \in 1 .. Len(bs)
      PROVE  HoleOk(Q, m, bs[k], ms) /\ Placed(bs[k], Len(d)) /\ bs[k].nbits <= Len(m) /\ bs[k].nbits \in Nat
  <2> DEFINE b == bs[k]
  <2>1. HoleOk(R, l, b, ls) /\ Placed(b, Len(c)) /\ b.nbits <= Len(l) /\ b.nbits \in Nat /\ Agree(b, ls, ms)
    BY TracedFacts
  <2> HIDE DEF b
  <2>2. HoleOk(Q, m, b, ms)
    BY <1>1, <2>1, HoleKept
  <2>3. Placed(b, Len(d))
    <3>1. 0 .. Len(c) - 1 \subseteq 0 .. Len(d) - 1 /\ 0 .. Len(c) \subseteq 0 .. Len(d)
      BY <1>1, <1>2
    <3> QED
      BY <2>1, <3>1 DEF Placed
  <2>4. b.nbits <= Len(m)
    BY <1>1, <2>1 DEF Extends
  <2> QED
    BY <2>1, <2>2, <2>3, <2>4 DEF b
<1>4. [flags |-> {}, owned |-> {z}] \in Q[0]
  <2>1. 0 \in 0 .. Len(c) - 1
    BY <1>1
  <2>2. Q[0] = R[0]
    BY <2>1 DEF Keeps
  <2> QED
    BY <1>1, <2>2
<1> QED
  BY <1>2, <1>3, <1>4 DEF Traced

(* Straight-line code is appended. *)
LEMMA TracedRuns ==
  ASSUME NEW R, NEW c, NEW l, NEW z, NEW N, NEW bs, NEW ls, NEW E, Traced(R, c, l, z, N, bs, ls, E),
         NEW ch, IsSeq(ch), \A k \in 1 .. Len(ch) : ch[k].op # "Skipped", NEW X,
         \A s \in R[Len(c)] : \E t \in X : Runs(ch, l, N, s, t)
  PROVE  \E Q : Traced(Q, c \o ch, l, z, N, bs, ls, E) /\ Keeps(R, Q, Len(c)) /\ Q[Len(c \o ch)] \subseteq X
<1>1. IsSeq(c) /\ Len(c) \in Nat /\ Outline(R, c, l, N) /\ Len(l) \in Nat
  BY TracedFacts
<1>2. /\ IsSeq(c \o ch) /\ Len(c \o ch) = Len(c) + Len(ch) /\ Len(ch) \in Nat
      /\ (\A k \in 1 .. Len(c) : (c \o ch)[k] = c[k]) /\ \A j \in 1 .. Len(ch) : (c \o ch)[Len(c) + j] = ch[j]
  BY <1>1, IsSeqConcat
<1>3. PICK Q : Outline(Q, c \o ch, l, N) /\ Keeps(R, Q, Len(c)) /\ Q[Len(c) + Len(ch)] \subseteq X
  BY <1>1, EmitRuns
<1>4. Filled(c \o ch, bs, E)
  <2> SUFFICES ASSUME NEW h \in 0 .. Len(c \o ch) - 1, (c \o ch)[h + 1].op = "Skipped"
               PROVE  h \in E \/ \E k \in 1 .. Len(bs) : h \in Holes(bs[k])
    BY DEF Filled
  <2>0. Filled(c, bs, E)
    BY TracedFacts
  <2>1. CASE h < Len(c)
    <3>1. h + 1 \in 1 .. Len(c) /\ h \in 0 .. Len(c) - 1
      BY <1>1, <1>2, <2>1
    <3>2. (c \o ch)[h + 1] = c[h + 1]
      BY <1>1, <3>1, IsSeqConcat
    <3> QED
      BY <2>0, <3>1, <3>2 DEF Filled
  <2>2. CASE h >= Len(c)
    <3> DEFINE j == h + 1 - Len(c)
    <3>1. j \in 1 .. Len(ch) /\ h + 1 = Len(c) + j
      BY <1>1, <1>2, <2>2
    <3> HIDE DEF j
    <3>2. (c \o ch)[h + 1] = ch[j]
      BY <1>1, <3>1, IsSeqConcat
    <3> QED
      BY <3>1, <3>2
  <2> QED
    BY <1>1, <1>2, <2>1, <2>2
<1>5. Len(c \o ch) >= Len(c) /\ \A k \in 1 .. Len(bs) : Agree(bs[k], ls, ls)
  BY <1>1, <1>2 DEF Agree
<1>6. Traced(Q, c \o ch, l, z, N, bs, ls, E)
  BY <1>1, <1>2, <1>3, <1>4, <1>5, ExtendsItself, TracedKept
<1> QED
  BY <1>2, <1>3, <1>6

(* The open holes D are E and, if instruction i is a hole, the end of c. *)
Opens(D, E, c, i) == E \subseteq D /\ (i.op = "Skipped" => Len(c) \in D)

(* One instruction is appended that does not fall through, or a hole. *)
LEMMA TracedOne ==
  ASSUME NEW R, NEW c, NEW l, NEW z, NEW N, NEW bs, NEW ls, NEW E, Traced(R, c, l, z, N, bs, ls, E),
         NEW i, NEW X \in SUBSET State(l, N), LeadsBack(R, i, Len(c), l), NEW D, Opens(D, E, c, i)
  PROVE  /\ Len(Append(c, i)) = Len(c) + 1 /\ IsSeq(Append(c, i))
         /\ \E Q : Traced(Q, Append(c, i), l, z, N, bs, ls, D) /\ Starts(R, Q, Len(c), X)
<1>1. IsSeq(c) /\ Len(c) \in Nat /\ Outline(R, c, l, N) /\ Len(l) \in Nat
  BY TracedFacts
<1>2. /\ IsSeq(Append(c, i)) /\ Len(Append(c, i)) = Len(c) + 1
      /\ \A k \in 1 .. Len(c) : Append(c, i)[k] = c[k] /\ Append(c, i)[Len(c) + 1] = i
  BY <1>1, IsSeqFacts
<1>3. PICK Q : Outline(Q, Append(c, i), l, N) /\ Starts(R, Q, Len(c), X)
  BY <1>1, EmitOne
<1>4. Keeps(R, Q, Len(c))
  BY <1>1, <1>3 DEF Keeps, Starts
<1>5. Filled(Append(c, i), bs, D)
  <2> SUFFICES ASSUME NEW h \in 0 .. Len(Append(c, i)) - 1, Append(c, i)[h + 1].op = "Skipped"
               PROVE  h \in D \/ \E k \in 1 .. Len(bs) : h \in Holes(bs[k])
    BY DEF Filled
  <2>0. Filled(c, bs, E)
    BY TracedFacts
  <2>1. CASE h < Len(c)
    <3>1. h + 1 \in 1 .. Len(c) /\ h \in 0 .. Len(c) - 1
      BY <1>1, <1>2, <2>1
    <3>2. c[h + 1].op = "Skipped"
      BY <1>2, <3>1
    <3> QED
      BY <2>0, <3>1, <3>2 DEF Filled, Opens
  <2>2. CASE h >= Len(c)
    <3>1. h = Len(c)
      BY <1>1, <1>2, <2>2
    <3>2. i.op = "Skipped"
      BY <1>1, <1>2, <3>1
    <3> QED
      BY <3>1, <3>2 DEF Opens
  <2> QED
    BY <1>1, <1>2, <2>1, <2>2
<1>6. \A k \in 1 .. Len(bs) : Agree(bs[k], ls, ls)
  BY DEF Agree
<1>7. Len(Append(c, i)) >= Len(c)
  BY <1>1, <1>2
<1>8. Traced(Q, Append(c, i), l, z, N, bs, ls, D)
  BY <1>1, <1>2, <1>3, <1>4, <1>5, <1>6, <1>7, ExtendsItself, TracedKept
<1> QED
  BY <1>2, <1>3, <1>8

(* More states reach the end. *)
LEMMA TracedWiden ==
  ASSUME NEW R, NEW c, NEW l, NEW z, NEW N, NEW bs, NEW ls, NEW E, Traced(R, c, l, z, N, bs, ls, E),
         NEW X, X \subseteq State(l, N)
  PROVE  \E Q : Traced(Q, c, l, z, N, bs, ls, E) /\ Widened(R, Q, Len(c), X)
<1>1. IsSeq(c) /\ Len(c) \in Nat /\ Outline(R, c, l, N) /\ Len(l) \in Nat
  BY TracedFacts
<1>2. PICK Q : Outline(Q, c, l, N) /\ Widened(R, Q, Len(c), X)
  BY <1>1, Widen
<1>7. Keeps(R, Q, Len(c))
  BY <1>2 DEF Keeps, Widened
<1>3. \A k \in 1 .. Len(bs) : Agree(bs[k], ls, ls)
  BY DEF Agree
<1>4. Filled(c, bs, E)
  BY TracedFacts
<1>5. Len(c) >= Len(c)
  BY <1>1
<1>6. Traced(Q, c, l, z, N, bs, ls, E)
  BY <1>1, <1>2, <1>3, <1>4, <1>5, <1>7, ExtendsItself, TracedKept
<1> QED
  BY <1>2, <1>6

(* A placeholder is filled in. *)
LEMMA TracedFill ==
  ASSUME NEW R, NEW c, NEW l, NEW z, NEW N, NEW bs, NEW ls, NEW E, Traced(R, c, l, z, N, bs, ls, E),
         NEW h \in 0 .. Len(c) - 1, NEW i, StepOk(R, i, h, l), i.op # "Skipped", NEW D, E \subseteq D \cup {h}
  PROVE  Traced(R, [c EXCEPT ![h + 1] = i], l, z, N, bs, ls, D) /\ Len([c EXCEPT ![h + 1] = i]) = Len(c)
<1> DEFINE d == [c EXCEPT ![h + 1] = i]
<1>1. IsSeq(c) /\ Len(c) \in Nat /\ Outline(R, c, l, N) /\ Len(l) \in Nat /\ Filled(c, bs, E)
  BY TracedFacts
<1>2. h + 1 \in 1 .. Len(c) /\ h \in Nat
  BY <1>1
<1>3. /\ IsSeq(d) /\ Len(d) = Len(c) /\ d[h + 1] = i
      /\ \A j \in 1 .. Len(c) : j # h + 1 => d[j] = c[j]
  BY <1>1, <1>2, IsSeqExcept
<1>4. Outline(R, d, l, N)
  BY <1>1, FillHole
<1> HIDE DEF d
<1>5. Filled(d, bs, D)
  <2> SUFFICES ASSUME NEW j \in 0 .. Len(d) - 1, d[j + 1].op = "Skipped"
               PROVE  j \in D \/ \E k \in 1 .. Len(bs) : j \in Holes(bs[k])
    BY DEF Filled
  <2>1. j # h
    BY <1>3
  <2>2. j + 1 \in 1 .. Len(c) /\ j + 1 # h + 1 /\ j \in 0 .. Len(c) - 1
    BY <1>1, <1>2, <1>3, <2>1
  <2>3. c[j + 1].op = "Skipped"
    BY <1>3, <2>2
  <2> QED
    BY <1>1, <2>1, <2>2, <2>3 DEF Filled
<1>6. Len(d) >= Len(c) /\ (\A k \in 1 .. Len(bs) : Agree(bs[k], ls, ls)) /\ Keeps(R, R, Len(c))
  BY <1>1, <1>3 DEF Agree, Keeps
<1>7. Traced(R, d, l, z, N, bs, ls, D)
  BY <1>1, <1>3, <1>4, <1>5, <1>6, ExtendsItself, TracedKept
<1> QED
  BY <1>3, <1>7 DEF d

(* Instructions still to be filled in become jumps. *)
LEMMA TracedFillAll ==
  ASSUME NEW R, NEW c, NEW l, NEW z, NEW N, NEW bs, NEW ls, NEW E, Traced(R, c, l, z, N, bs, ls, E),
         NEW is, NEW x \in Nat, \A h \in is : h \in 0 .. Len(c) - 1 => \A s \in R[h] : Clean(l, s) /\ s \in R[x],
         NEW D, E \subseteq D \cup is
  PROVE  Traced(R, PatchAll(c, is, x), l, z, N, bs, ls, D) /\ Len(PatchAll(c, is, x)) = Len(c)
<1> DEFINE d == PatchAll(c, is, x)
<1>1. IsSeq(c) /\ Len(c) \in Nat /\ Outline(R, c, l, N) /\ Len(l) \in Nat /\ Filled(c, bs, E)
  BY TracedFacts
<1>2. /\ IsSeq(d) /\ Len(d) = Len(c)
      /\ \A k \in 1 .. Len(c) : d[k] = IF k - 1 \in is THEN Jump(x - (k - 1)) ELSE c[k]
  BY <1>1, IsSeqPatchAll
<1>3. Outline(R, d, l, N)
  BY <1>1, FillAll
<1> HIDE DEF d
<1>4. Filled(d, bs, D)
  <2> SUFFICES ASSUME NEW j \in 0 .. Len(d) - 1, d[j + 1].op = "Skipped"
               PROVE  j \in D \/ \E k \in 1 .. Len(bs) : j \in Holes(bs[k])
    BY DEF Filled
  <2>1. j + 1 \in 1 .. Len(c) /\ j \in 0 .. Len(c) - 1 /\ (j + 1) - 1 = j
    BY <1>1, <1>2
  <2>2. j \notin is
    <3> SUFFICES ASSUME j \in is PROVE FALSE
      OBVIOUS
    <3>1. d[j + 1] = Jump(x - ((j + 1) - 1))
      BY <1>2, <2>1
    <3>2. d[j + 1].op = "Jump"
      BY <3>1 DEF Jump
    <3> QED
      BY <3>2
  <2>3. c[j + 1].op = "Skipped"
    BY <1>2, <2>1, <2>2
  <2> QED
    BY <1>1, <2>1, <2>2, <2>3 DEF Filled
<1>5. Len(d) >= Len(c) /\ (\A k \in 1 .. Len(bs) : Agree(bs[k], ls, ls)) /\ Keeps(R, R, Len(c))
  BY <1>1, <1>2 DEF Agree, Keeps
<1>6. Traced(R, d, l, z, N, bs, ls, D)
  BY <1>1, <1>2, <1>3, <1>4, <1>5, ExtendsItself, TracedKept
<1> QED
  BY <1>2, <1>6 DEF d

(* The stack and the locals change. *)
LEMMA TracedGrow ==
  ASSUME NEW R, NEW c, NEW l, NEW z, NEW N, NEW bs, NEW ls, NEW E, Traced(R, c, l, z, N, bs, ls, E),
         NEW m, Extends(l, m), Len(m) \in Nat, NEW ms, \A k \in 1 .. Len(bs) : Agree(bs[k], ls, ms)
  PROVE  Traced(R, c, m, z, N, bs, ms, E)
<1>1. IsSeq(c) /\ Len(c) \in Nat /\ Outline(R, c, l, N) /\ Len(l) \in Nat /\ Filled(c, bs, E)
  BY TracedFacts
<1>2. Outline(R, c, m, N)
  BY <1>1, OutlineExtended
<1>3. Len(c) >= Len(c) /\ Keeps(R, R, Len(c))
  BY <1>1 DEF Keeps
<1> QED
  BY <1>1, <1>2, <1>3, TracedKept

(* A block is opened or closed. *)
LEMMA TracedOpen ==
  ASSUME NEW R, NEW c, NEW l, NEW z, NEW N, NEW bs, NEW ls, NEW E, Traced(R, c, l, z, N, bs, ls, E),
         IsSeq(bs), NEW b, HoleOk(R, l, b, ls), Placed(b, Len(c)), b.nbits <= Len(l), b.nbits \in Nat,
         NEW D, E \subseteq D \cup Holes(b)
  PROVE  Traced(R, c, l, z, N, Append(bs, b), ls, D)
<1> DEFINE cs == Append(bs, b)
<1>1. /\ IsSeq(cs) /\ Len(cs) = Len(bs) + 1 /\ Len(bs) \in Nat
      /\ (\A k \in 1 .. Len(bs) : cs[k] = bs[k]) /\ cs[Len(bs) + 1] = b
  BY IsSeqFacts
<1> HIDE DEF cs
<1>2. /\ IsSeq(c) /\ Len(c) >= 1 /\ Len(l) \in Nat
      /\ Outline(R, c, l, N) /\ [flags |-> {}, owned |-> {z}] \in R[0] /\ Filled(c, bs, E)
  BY TracedFacts
<1>3. ASSUME NEW k \in 1 .. Len(cs)
      PROVE  HoleOk(R, l, cs[k], ls) /\ Placed(cs[k], Len(c)) /\ cs[k].nbits <= Len(l) /\ cs[k].nbits \in Nat
  <2>1. CASE k = Len(bs) + 1
    BY <1>1, <2>1
  <2>2. CASE k # Len(bs) + 1
    <3>1. k \in 1 .. Len(bs)
      BY <1>1, <2>2
    <3>2. HoleOk(R, l, bs[k], ls) /\ Placed(bs[k], Len(c)) /\ bs[k].nbits <= Len(l) /\ bs[k].nbits \in Nat
      BY <3>1, TracedFacts
    <3> QED
      BY <1>1, <3>1, <3>2
  <2> QED
    BY <2>1, <2>2
<1>4. Filled(c, cs, D)
  <2> SUFFICES ASSUME NEW j \in 0 .. Len(c) - 1, c[j + 1].op = "Skipped"
               PROVE  j \in D \/ \E k \in 1 .. Len(cs) : j \in Holes(cs[k])
    BY DEF Filled
  <2>1. j \in E \/ \E k \in 1 .. Len(bs) : j \in Holes(bs[k])
    BY <1>2 DEF Filled
  <2>2. CASE j \in Holes(b)
    <3>1. Len(bs) + 1 \in 1 .. Len(cs)
      BY <1>1
    <3> QED
      BY <1>1, <2>2, <3>1
  <2>3. CASE \E k \in 1 .. Len(bs) : j \in Holes(bs[k])
    <3>1. PICK k \in 1 .. Len(bs) : j \in Holes(bs[k])
      BY <2>3
    <3>2. k \in 1 .. Len(cs) /\ cs[k] = bs[k]
      BY <1>1
    <3> QED
      BY <3>1, <3>2
  <2> QED
    BY <2>1, <2>2, <2>3
<1>5. Traced(R, c, l, z, N, cs, ls, D)
  BY <1>2, <1>3, <1>4 DEF Traced
<1> QED
  BY <1>5 DEF cs

(* The innermost block is closed: its holes are left to E. *)
LEMMA TracedClose ==
  ASSUME NEW R, NEW c, NEW l, NEW z, NEW N, NEW bs, NEW ls, NEW E, Traced(R, c, l, z, N, bs, ls, E),
         NEW n \in Nat, Len(bs) = n + 1, NEW cs, IsSeq(cs), Len(cs) = n, \A k \in 1 .. n : cs[k] = bs[k],
         NEW D, E \cup Holes(bs[n + 1]) \subseteq D
  PROVE  Traced(R, c, l, z, N, cs, ls, D)
<1>1. /\ IsSeq(c) /\ Len(c) >= 1 /\ Len(l) \in Nat
      /\ Outline(R, c, l, N) /\ [flags |-> {}, owned |-> {z}] \in R[0] /\ Filled(c, bs, E)
  BY TracedFacts
<1>2. ASSUME NEW k \in 1 .. Len(cs)
      PROVE  HoleOk(R, l, cs[k], ls) /\ Placed(cs[k], Len(c)) /\ cs[k].nbits <= Len(l) /\ cs[k].nbits \in Nat
  <2>1. k \in 1 .. Len(bs) /\ cs[k] = bs[k]
    OBVIOUS
  <2>2. HoleOk(R, l, bs[k], ls) /\ Placed(bs[k], Len(c)) /\ bs[k].nbits <= Len(l) /\ bs[k].nbits \in Nat
    BY <2>1, TracedFacts
  <2> QED
    BY <2>1, <2>2
<1>3. Filled(c, cs, D)
  <2> SUFFICES ASSUME NEW j \in 0 .. Len(c) - 1, c[j + 1].op = "Skipped"
               PROVE  j \in D \/ \E k \in 1 .. Len(cs) : j \in Holes(cs[k])
    BY DEF Filled
  <2>1. j \in E \/ \E k \in 1 .. Len(bs) : j \in Holes(bs[k])
    BY <1>1 DEF Filled
  <2>2. CASE \E k \in 1 .. Len(bs) : j \in Holes(bs[k])
    <3>1. PICK k \in 1 .. Len(bs) : j \in Holes(bs[k])
      BY <2>2
    <3>2. k = n + 1 \/ k \in 1 .. n
      OBVIOUS
    <3> QED
      BY <3>1, <3>2
  <2> QED
    BY <2>1, <2>2
<1> QED
  BY <1>1, <1>2, <1>3 DEF Traced

(* While a body is compiled. *)
Compiling(R, c, s, ls, bs, f, z, N, W) ==
  /\ W \in Nat /\ Scoped(s, ls, bs, f, z, N, W)
  /\ Traced(R, c, s.leafs, z, N, bs, ls, {})
  /\ \A t \in R[Len(c)] : Arrives(s.leafs, f, t)

(* Code that leads from the states of flow f to those of g. *)
Steps(ch, l, N, f, g) ==
  \A F : F \subseteq 0 .. Len(l) - 1 /\ Apart(l, F) /\ f.must \subseteq F /\ F \subseteq f.may =>
    \E G : Runs(ch, l, N, Settled(l, F), Settled(l, G)) /\ g.must \subseteq G /\ G \subseteq g.may

NoHole(ch) == \A k \in 1 .. Len(ch) : ch[k].op # "Skipped"

(* New locals do not touch those of open blocks. *)
LEMMA GrowsAgree ==
  ASSUME NEW s, NEW ls, NEW bs, NEW f, NEW z, NEW N, NEW W, Scoped(s, ls, bs, f, z, N, W),
         NEW ms, NEW m, LocalsGrow(ls, ms, m)
  PROVE  \A k \in 1 .. Len(bs) : Agree(bs[k], ls, ms)
<1> SUFFICES ASSUME NEW k \in 1 .. Len(bs) PROVE Agree(bs[k], ls, ms)
  OBVIOUS
<1> DEFINE b == bs[k]
<1>1. Nested(b, InnerFirst(bs, s, k), InnerTop(bs, s, k), s, ls, z) /\ b.nlocals \in Nat /\ Len(ls) \in Nat
  BY BlockFacts
<1>2. b.nlocals <= Len(ls) /\ (b.kind = "guarded" => b.nlocals < Len(ls))
  BY <1>1 DEF Nested
<1>3. \A j \in 1 .. Len(ls) : ms[j] = ls[j]
  BY DEF LocalsGrow
<1> HIDE DEF b
<1>4. \A j \in 1 .. b.nlocals : j \in 1 .. Len(ls)
  BY <1>1, <1>2
<1>5. b.kind = "guarded" => b.nlocals + 1 \in 1 .. Len(ls)
  BY <1>1, <1>2
<1> QED
  BY <1>3, <1>4, <1>5 DEF Agree, b

(* The frame of a well-formed stack. *)
LEMMA StackFrame ==
  ASSUME NEW s, NEW z, NEW N, IsStack(s, z, N)
  PROVE  Frame(s.leafs, z, N, Pending(s)) /\ Len(s.leafs) \in Nat /\ IsSeq(s.leafs) /\ Slotted(s.leafs, z, N)
<1>1. Pending(s) \subseteq 0 .. Len(s.leafs) - 1 /\ Len(s.leafs) \in Nat
  BY StackFacts
<1> QED
  BY <1>1 DEF IsStack, Frame

(* A simple statement: its code leads from flow f to flow g. *)
LEMMA EmitStep ==
  ASSUME NEW R, NEW c, NEW s, NEW ls, NEW bs, NEW f, NEW z, NEW N, NEW W, Compiling(R, c, s, ls, bs, f, z, N, W),
         NEW u, IsStack(u, z, N), Grows(s, u), u.first = s.first,
         NEW ms, LocalsOk(ms, u, W), LocalsGrow(ls, ms, Len(s.leafs)),
         NEW g, IsFlow(g), g.reach, g.may \subseteq Pending(u), \A k \in 1 .. Len(bs) : Fits(g, bs[k], ls),
         NEW ch, IsSeq(ch), NoHole(ch), Steps(ch, u.leafs, N, f, g)
  PROVE  \E Q : Compiling(Q, c \o ch, u, ms, bs, g, z, N, W)
<1> DEFINE l == s.leafs
           m == u.leafs
<1>1. W \in Nat /\ Scoped(s, ls, bs, f, z, N, W) /\ Traced(R, c, l, z, N, bs, ls, {}) /\ \A t \in R[Len(c)] : Arrives(l, f, t)
  BY DEF Compiling
<1>2. Scoped(u, ms, bs, g, z, N, W)
  BY <1>1, ScopedGrow
<1>3. Extends(l, m) /\ Len(l) \in Nat /\ Len(m) \in Nat
  BY <1>1, BlockFacts, StackFacts DEF Grows
<1>4. Traced(R, c, m, z, N, bs, ms, {})
  <2>1. \A k \in 1 .. Len(bs) : Agree(bs[k], ls, ms)
    BY <1>1, GrowsAgree
  <2> HIDE DEF l, m
  <2> QED
    BY <1>1, <1>3, <2>1, TracedGrow
<1>5. Frame(m, z, N, Pending(u)) /\ Pending(u) \subseteq 0 .. Len(m) - 1 /\ Apart(m, Pending(u))
  BY StackFrame DEF Frame
<1> HIDE DEF l, m
<1> DEFINE X == {t \in State(m, N) : Arrives(m, g, t)}
<1>6. ASSUME NEW t \in R[Len(c)] PROVE \E v \in X : Runs(ch, m, N, t, v)
  <2>1. Arrives(m, f, t)
    BY <1>1, <1>3, ArrivesExtended
  <2>2. PICK F : /\ t = Settled(m, F) /\ F \subseteq 0 .. Len(m) - 1 /\ Apart(m, F)
                 /\ f.must \subseteq F /\ F \subseteq f.may
    BY <2>1 DEF Arrives
  <2>3. PICK G : Runs(ch, m, N, Settled(m, F), Settled(m, G)) /\ g.must \subseteq G /\ G \subseteq g.may
    BY <2>2 DEF Steps, m
  <2>4. G \subseteq 0 .. Len(m) - 1
    BY <1>5, <2>3
  <2>5. Apart(m, G)
    BY <1>5, <2>3 DEF Apart
  <2>6. Arrives(m, g, Settled(m, G))
    BY <2>3, <2>4, <2>5 DEF Arrives
  <2>7. Settled(m, G) \in State(m, N)
    BY <1>5, <2>4, HoldingState DEF Frame
  <2> QED
    BY <2>2, <2>3, <2>6, <2>7
<1> HIDE DEF X
<1>7. PICK Q : Traced(Q, c \o ch, m, z, N, bs, ms, {}) /\ Q[Len(c \o ch)] \subseteq X
  BY <1>4, <1>6, TracedRuns DEF NoHole
<1>8. \A t \in Q[Len(c \o ch)] : Arrives(m, g, t)
  BY <1>7 DEF X
<1> QED
  BY <1>1, <1>2, <1>7, <1>8 DEF Compiling, m

(* Concatenation is associative. *)
LEMMA ConcatAssoc ==
  ASSUME NEW a, NEW b, NEW d, IsSeq(a), IsSeq(b), IsSeq(d)
  PROVE  (a \o b) \o d = a \o (b \o d) /\ IsSeq(b \o d)
<1>1. PICK S : a \in Seq(S)
  BY DEF IsSeq
<1>2. PICK T : b \in Seq(T)
  BY DEF IsSeq
<1>3. PICK U : d \in Seq(U)
  BY DEF IsSeq
<1> DEFINE p == (a \o b) \o d
           q == a \o (b \o d)
<1>4. IsSeq(a \o b) /\ Len(a \o b) = Len(a) + Len(b) /\ Len(a) \in Nat /\ Len(b) \in Nat /\ Len(d) \in Nat
      /\ IsSeq(b \o d) /\ Len(b \o d) = Len(b) + Len(d)
  BY IsSeqConcat
<1>5. IsSeq(p) /\ Len(p) = Len(a) + Len(b) + Len(d) /\ IsSeq(q) /\ Len(q) = Len(a) + Len(b) + Len(d)
  BY <1>4, IsSeqConcat
<1>6. ASSUME NEW k \in 1 .. Len(p) PROVE p[k] = q[k]
  <2>1. CASE k <= Len(a)
    <3>1. k \in 1 .. Len(a) /\ k \in 1 .. Len(a \o b)
      BY <1>4, <2>1
    <3>2. p[k] = (a \o b)[k] /\ (a \o b)[k] = a[k]
      BY <1>4, <3>1, IsSeqConcat
    <3>3. q[k] = a[k]
      BY <1>4, <3>1, IsSeqConcat
    <3> QED
      BY <3>2, <3>3
  <2>2. CASE k > Len(a) /\ k <= Len(a) + Len(b)
    <3> DEFINE j == k - Len(a)
    <3>1. j \in 1 .. Len(b) /\ k = Len(a) + j /\ k \in 1 .. Len(a \o b) /\ j \in 1 .. Len(b \o d)
      BY <1>4, <2>2
    <3> HIDE DEF j
    <3>2. p[k] = (a \o b)[k] /\ (a \o b)[Len(a) + j] = b[j]
      BY <1>4, <3>1, IsSeqConcat
    <3>3. q[Len(a) + j] = (b \o d)[j] /\ (b \o d)[j] = b[j]
      BY <1>4, <3>1, IsSeqConcat
    <3> QED
      BY <3>1, <3>2, <3>3
  <2>3. CASE k > Len(a) + Len(b)
    <3> DEFINE j == k - Len(a) - Len(b)
               i == k - Len(a)
    <3>1. /\ j \in 1 .. Len(d) /\ k = Len(a \o b) + j
          /\ i \in 1 .. Len(b \o d) /\ i = Len(b) + j /\ k = Len(a) + i
      BY <1>4, <1>5, <2>3
    <3> HIDE DEF i, j
    <3>2. p[Len(a \o b) + j] = d[j]
      BY <1>4, <3>1, IsSeqConcat
    <3>3. q[Len(a) + i] = (b \o d)[i] /\ (b \o d)[Len(b) + j] = d[j]
      BY <1>4, <3>1, IsSeqConcat
    <3> QED
      BY <3>1, <3>2, <3>3
  <2> QED
    BY <1>4, <2>1, <2>2, <2>3
<1> HIDE DEF p, q
<1>7. p = q
  BY <1>5, <1>6, SameSeq
<1> QED
  BY <1>4, <1>7 DEF p, q

(* And has <<>> as its unit. *)
LEMMA ConcatEmpty ==
  ASSUME NEW a, IsSeq(a)
  PROVE  a \o <<>> = a
<1>1. PICK S : a \in Seq(S)
  BY DEF IsSeq
<1> QED
  BY <1>1

(* Code without holes. *)
LEMMA ConcatHoles ==
  ASSUME NEW a, NEW b, IsSeq(a), IsSeq(b), NoHole(a), NoHole(b)
  PROVE  NoHole(a \o b) /\ IsSeq(a \o b)
<1>1. Len(a) \in Nat /\ Len(b) \in Nat /\ IsSeq(a \o b) /\ Len(a \o b) = Len(a) + Len(b)
  BY IsSeqConcat
<1> SUFFICES ASSUME NEW k \in 1 .. Len(a \o b) PROVE (a \o b)[k].op # "Skipped"
  BY <1>1 DEF NoHole
<1>2. CASE k <= Len(a)
  <2>1. k \in 1 .. Len(a)
    BY <1>1, <1>2
  <2>2. (a \o b)[k] = a[k]
    BY <2>1, IsSeqConcat
  <2> QED
    BY <2>1, <2>2 DEF NoHole
<1>3. CASE k > Len(a)
  <2> DEFINE j == k - Len(a)
  <2>1. j \in 1 .. Len(b) /\ k = Len(a) + j
    BY <1>1, <1>3
  <2> HIDE DEF j
  <2>2. (a \o b)[Len(a) + j] = b[j]
    BY <2>1, IsSeqConcat
  <2> QED
    BY <2>1, <2>2 DEF NoHole
<1> QED
  BY <1>1, <1>2, <1>3

(* New locals. *)
LEMMA LocalsKept ==
  ASSUME NEW ls, NEW s, NEW W, LocalsOk(ls, s, W), NEW u, Grows(s, u), Len(s.leafs) \in Nat, Len(u.leafs) \in Nat,
         Bits(s) = 0 .. Len(s.leafs) - 1, Pending(s) \subseteq Bits(s)
  PROVE  LocalsOk(ls, u, W) /\ \A m : LocalsGrow(ls, ls, m)
<1>1. Extends(s.leafs, u.leafs) /\ \A b \in Bits(s) : b \in Pending(u) <=> b \in Pending(s)
  BY DEF Grows
<1>2. IsSeq(ls) /\ Len(ls) \in Nat
  BY IsSeqFacts DEF LocalsOk
<1>3. ASSUME NEW x, LocalOk(x, s) PROVE LocalOk(x, u)
  <2>1. /\ x.slot \in Nat /\ x.lo \in Nat /\ x.n \in 1 .. 2 /\ x.lo + x.n <= Len(s.leafs)
        /\ \A b \in x.lo .. x.lo + x.n - 1 : b \in Pending(s)
        /\ \A i \in 1 .. x.n : SlotAt(s.leafs, x.lo + x.n - i) = x.slot + i - 1
    BY <1>3 DEF LocalOk
  <2>2. \A i \in 1 .. x.n : SlotAt(u.leafs, x.lo + x.n - i) = x.slot + i - 1
    <3> SUFFICES ASSUME NEW i \in 1 .. x.n PROVE SlotAt(u.leafs, x.lo + x.n - i) = x.slot + i - 1
      OBVIOUS
    <3> DEFINE y == x.lo + x.n - i
    <3>1. y \in 0 .. Len(s.leafs) - 1
      BY <2>1
    <3>2. SlotAt(s.leafs, y) = x.slot + i - 1
      BY <2>1
    <3> HIDE DEF y
    <3>3. SlotAt(u.leafs, y) = SlotAt(s.leafs, y)
      BY <1>1, <3>1 DEF Extends
    <3> QED
      BY <3>2, <3>3 DEF y
  <2>3. x.lo + x.n <= Len(u.leafs)
    BY <1>1, <2>1 DEF Extends
  <2>4. \A b \in x.lo .. x.lo + x.n - 1 : b \in Pending(u)
    BY <1>1, <2>1
  <2> QED
    BY <2>1, <2>2, <2>3, <2>4 DEF LocalOk
<1>4. LocalsOk(ls, u, W)
  BY <1>3 DEF LocalsOk
<1>5. ASSUME NEW m PROVE LocalsGrow(ls, ls, m)
  BY <1>2 DEF LocalsGrow
<1> QED
  BY <1>4, <1>5

(* One more local. *)
LEMMA LocalAdded ==
  ASSUME NEW ls, NEW s, NEW W, NEW z, NEW N, LocalsOk(ls, s, W), IsStack(s, z, N), NEW u, Grows(s, u),
         Len(u.leafs) \in Nat, NEW x, LocalOk(x, u), x.lo = Len(s.leafs), x.n < W
  PROVE  LocalsOk(Append(ls, x), u, W) /\ LocalsGrow(ls, Append(ls, x), Len(s.leafs))
<1> DEFINE ms == Append(ls, x)
<1>1. IsSeq(ls) /\ Len(ls) \in Nat
  BY IsSeqFacts DEF LocalsOk
<1>2. IsSeq(ms) /\ Len(ms) = Len(ls) + 1 /\ (\A j \in 1 .. Len(ls) : ms[j] = ls[j]) /\ ms[Len(ls) + 1] = x
  BY <1>1, IsSeqFacts
<1>3. LocalsOk(ls, u, W) /\ Len(s.leafs) \in Nat
  BY StackFacts, LocalsKept
<1> HIDE DEF ms
<1>4. ASSUME NEW j \in 1 .. Len(ms) PROVE LocalOk(ms[j], u) /\ ms[j].n < W
  <2>1. j \in 1 .. Len(ls) \/ j = Len(ls) + 1
    BY <1>1, <1>2
  <2> QED
    BY <1>2, <1>3, <2>1 DEF LocalsOk
<1>5. ASSUME NEW i \in 1 .. Len(ms), NEW j \in 1 .. Len(ms), i < j PROVE ms[i].lo + ms[i].n <= ms[j].lo
  <2>1. i \in 1 .. Len(ls) /\ (j \in 1 .. Len(ls) \/ j = Len(ls) + 1)
    BY <1>1, <1>2, <1>5
  <2>2. CASE j \in 1 .. Len(ls)
    BY <1>2, <1>3, <1>5, <2>1, <2>2 DEF LocalsOk
  <2>3. CASE j = Len(ls) + 1
    <3>1. ls[i].lo + ls[i].n <= Len(s.leafs)
      BY <2>1 DEF LocalsOk, LocalOk
    <3> QED
      BY <1>2, <2>1, <2>3, <3>1
  <2> QED
    BY <2>1, <2>2, <2>3
<1>6. LocalsOk(ms, u, W)
  BY <1>2, <1>4, <1>5 DEF LocalsOk
<1>7. LocalsGrow(ls, ms, Len(s.leafs))
  <2>1. ASSUME NEW j \in 1 .. Len(ms), j > Len(ls) PROVE ms[j].lo \in Nat /\ ms[j].lo >= Len(s.leafs)
    <3>1. j = Len(ls) + 1
      BY <1>1, <1>2, <2>1
    <3> QED
      BY <1>2, <1>3, <3>1
  <2> QED
    BY <1>1, <1>2, <2>1 DEF LocalsGrow
<1> QED
  BY <1>6, <1>7 DEF ms

(* Two fields of a flow are changed. *)
LEMMA FlowExcept ==
  ASSUME NEW f, NEW a, NEW b, NEW d, f = [reach |-> a, must |-> b, may |-> d], NEW X, NEW Y
  PROVE  [f EXCEPT !.must = X, !.may = Y] = [reach |-> a, must |-> X, may |-> Y]
<1> DEFINE h == [f EXCEPT !.must = X]
<1>1. [f EXCEPT !.must = X, !.may = Y] = [h EXCEPT !.may = Y]
  OBVIOUS
<1>2. h = [reach |-> a, must |-> X, may |-> d]
  OBVIOUS
<1> HIDE DEF h
<1>3. [h EXCEPT !.may = Y] = [reach |-> a, must |-> X, may |-> Y]
  BY <1>2
<1> QED
  BY <1>1, <1>3

(* The bits D of f are cleared, then X are set. *)
FlowIs(g, f, X, D) == IsFlow(g) /\ g.reach /\ g.must = (f.must \ D) \cup X /\ g.may = (f.may \ D) \cup X

(* What Inited and Moved do. *)
LEMMA FlowOps ==
  ASSUME NEW f, IsFlow(f), f.reach, NEW D, D \subseteq Nat
  PROVE  FlowIs(Inited(f, D), f, D, {}) /\ FlowIs(Moved(f, D), f, {}, D)
<1>1. f.must \subseteq f.may /\ f.must \subseteq Nat /\ f.may \subseteq Nat
  BY DEF IsFlow
<1>2. \A X, Y : [f EXCEPT !.must = X, !.may = Y] = [reach |-> f.reach, must |-> X, may |-> Y]
  <2>1. f = [reach |-> f.reach, must |-> f.must, may |-> f.may]
    BY DEF IsFlow
  <2> QED
    BY <2>1, FlowExcept
<1>3. Inited(f, D) = [reach |-> f.reach, must |-> f.must \cup D, may |-> f.may \cup D]
  BY <1>2 DEF Inited
<1>4. Moved(f, D) = [reach |-> f.reach, must |-> f.must \ D, may |-> f.may \ D]
  BY <1>2 DEF Moved
<1>5. IsFlow(Inited(f, D))
  <2> DEFINE g == Inited(f, D)
  <2>1. g = [reach |-> f.reach, must |-> f.must \cup D, may |-> f.may \cup D]
    BY <1>3
  <2>2. f.reach \in BOOLEAN /\ f.must \cup D \subseteq f.may \cup D /\ f.must \cup D \in SUBSET Nat /\ f.may \cup D \in SUBSET Nat
    BY <1>1 DEF IsFlow
  <2> HIDE DEF g
  <2>3. g \in [reach : BOOLEAN, must : SUBSET Nat, may : SUBSET Nat] /\ g.must \subseteq g.may /\ (~g.reach => g.may = {})
    BY <2>1, <2>2
  <2> QED
    BY <2>3 DEF IsFlow, g
<1>6. IsFlow(Moved(f, D))
  BY <1>1, <1>4 DEF IsFlow
<1>7. FlowIs(Inited(f, D), f, D, {})
  BY <1>3, <1>5 DEF FlowIs
<1>8. FlowIs(Moved(f, D), f, {}, D)
  BY <1>4, <1>6 DEF FlowIs
<1> QED
  BY <1>7, <1>8

(* Together. *)
LEMMA FlowRebound ==
  ASSUME NEW f, IsFlow(f), f.reach, NEW D, D \subseteq Nat, NEW X, X \subseteq Nat
  PROVE  FlowIs(Inited(Moved(f, D), X), f, X, D) /\ FlowIs(Moved(f, D), f, {}, D) /\ FlowIs(Inited(f, X), f, X, {})
<1> DEFINE h == Moved(f, D)
           g == Inited(h, X)
           k == Inited(f, X)
<1>1. FlowIs(h, f, {}, D) /\ FlowIs(k, f, X, {})
  BY FlowOps
<1> HIDE DEF h, k
<1>2. IsFlow(h) /\ h.reach
  BY <1>1 DEF FlowIs
<1>3. FlowIs(g, h, X, {})
  BY <1>2, FlowOps
<1> HIDE DEF g
<1>4. FlowIs(g, f, X, D)
  BY <1>1, <1>3 DEF FlowIs
<1> QED
  BY <1>1, <1>4 DEF g, h, k

NewLocal(s, w, u, x) == Allocated(s, w, u) /\ x = Newest(u, w)
NewBits(s, w, X) == X = Len(s.leafs) .. Len(s.leafs) + w - 1

(* A new local and its place. *)
LEMMA NewLocalOk ==
  ASSUME NEW s, NEW z, NEW N, IsStack(s, z, N), NEW w \in {1, 2}, s.top + w <= N, NEW u, NEW x, NewLocal(s, w, u, x)
  PROVE  /\ IsStack(u, z, N) /\ Grows(s, u) /\ u.first = s.first /\ u.top = s.top + w
         /\ Len(u.leafs) = Len(s.leafs) + w
         /\ \A y : y \in Pending(u) <=> y \in Pending(s) \/ y \in Len(s.leafs) .. Len(s.leafs) + w - 1
         /\ LocalOk(x, u) /\ x.slot = s.top /\ x.lo = Len(s.leafs) /\ x.n = w
         /\ PlaceAt(u.leafs, PlaceOf(x), BitsOf(PlaceOf(x))) /\ WidthOf(PlaceOf(x)) = w
         /\ NewBits(s, w, BitsOf(PlaceOf(x)))
<1>1. /\ IsStack(u, z, N) /\ Grows(s, u) /\ u.first = s.first /\ u.top = s.top + w
      /\ Len(u.leafs) = Len(s.leafs) + w
      /\ \A y : y \in Pending(u) <=> y \in Pending(s) \/ y \in Len(s.leafs) .. Len(s.leafs) + w - 1
      /\ x = [slot |-> s.top, lo |-> Len(s.leafs), n |-> w] /\ LocalOk(x, u)
  BY AllocatedOk DEF NewLocal
<1>2. x.slot = s.top /\ x.lo = Len(s.leafs) /\ x.n = w
  BY <1>1
<1>3. Len(s.leafs) \in Nat /\ Len(u.leafs) \in Nat /\ w \in Nat /\ s.top \in Nat
  BY <1>1, StackFacts
<1>4. PlaceOf(x) = [slot |-> s.top, lo |-> Len(s.leafs), hi |-> Len(s.leafs) + w - 1]
  BY <1>2 DEF PlaceOf
<1>5. BitsOf(PlaceOf(x)) = Len(s.leafs) .. Len(s.leafs) + w - 1
  BY <1>4 DEF BitsOf
<1>6. WidthOf(PlaceOf(x)) = w
  <2>1. (Len(s.leafs) + w - 1) - Len(s.leafs) + 1 = w
    BY <1>3
  <2> QED
    BY <1>4, <2>1 DEF WidthOf
<1>7. PlaceOf(x) \in PlacesOf(x)
  BY DEF PlacesOf
<1>8. PlaceAt(u.leafs, PlaceOf(x), BitsOf(PlaceOf(x)))
  BY <1>1, <1>3, <1>7, PlacesOk
<1> QED
  BY <1>1, <1>2, <1>5, <1>6, <1>8 DEF NewBits

(* What a statement knows of the compiler. *)
LEMMA CompilingFacts ==
  ASSUME NEW R, NEW c, NEW s, NEW ls, NEW bs, NEW f, NEW z, NEW N, NEW W, Compiling(R, c, s, ls, bs, f, z, N, W)
  PROVE  /\ Scoped(s, ls, bs, f, z, N, W) /\ Traced(R, c, s.leafs, z, N, bs, ls, {})
         /\ \A t \in R[Len(c)] : Arrives(s.leafs, f, t)
         /\ IsStack(s, z, N) /\ LocalsOk(ls, s, W) /\ IsFlow(f) /\ f.may \subseteq Pending(s)
         /\ IsSeq(c) /\ Len(c) \in Nat /\ Len(s.leafs) \in Nat /\ IsSeq(ls) /\ Len(ls) \in Nat
         /\ f.must \subseteq f.may /\ W \in Nat
<1>1. W \in Nat /\ Scoped(s, ls, bs, f, z, N, W) /\ Traced(R, c, s.leafs, z, N, bs, ls, {})
      /\ \A t \in R[Len(c)] : Arrives(s.leafs, f, t)
  BY DEF Compiling
<1>2. IsStack(s, z, N) /\ LocalsOk(ls, s, W) /\ IsFlow(f) /\ f.may \subseteq Pending(s) /\ IsSeq(ls) /\ Len(ls) \in Nat
  BY <1>1, BlockFacts
<1>3. IsSeq(c) /\ Len(c) \in Nat
  BY <1>1, TracedFacts
<1>4. Len(s.leafs) \in Nat
  BY <1>2, StackFacts
<1> QED
  BY <1>1, <1>2, <1>3, <1>4 DEF IsFlow

(* A place of a local. *)
LEMMA PlaceOfLocal ==
  ASSUME NEW s, NEW ls, NEW W \in Nat, LocalsOk(ls, s, W), Len(s.leafs) \in Nat,
         NEW i \in 1 .. Len(ls), NEW p \in PlacesOf(ls[i])
  PROVE  /\ PlaceAt(s.leafs, p, BitsOf(p)) /\ WidthOf(p) \in {1, 2} /\ WidthOf(p) < W
         /\ BitsOf(p) \subseteq Pending(s) /\ BitsOf(p) \subseteq Nat
         /\ \A y \in BitsOf(p) : ls[i].lo <= y /\ y < ls[i].lo + ls[i].n
<1>1. LocalOk(ls[i], s) /\ ls[i].n < W
  BY DEF LocalsOk
<1>2. /\ PlaceAt(s.leafs, p, BitsOf(p)) /\ WidthOf(p) \in 1 .. 2 /\ WidthOf(p) <= ls[i].n
      /\ BitsOf(p) \subseteq Pending(s) /\ \A y \in BitsOf(p) : y \in Nat /\ ls[i].lo <= y /\ y < ls[i].lo + ls[i].n
  BY <1>1, PlacesOk
<1>3. ls[i].n \in 1 .. 2
  BY <1>1 DEF LocalOk
<1>4. WidthOf(p) \in {1, 2} /\ WidthOf(p) < W
  BY <1>1, <1>2, <1>3
<1> QED
  BY <1>2, <1>4

(* A place stays where it is while the stack grows. *)
LEMMA PlaceKept ==
  ASSUME NEW s, NEW u, Grows(s, u), Len(s.leafs) \in Nat, Len(u.leafs) \in Nat, NEW p, NEW D,
         PlaceAt(s.leafs, p, D), D \subseteq Pending(s)
  PROVE  PlaceAt(u.leafs, p, D)
<1>1. Extends(s.leafs, u.leafs)
  BY DEF Grows
<1>2. /\ p.slot \in Nat /\ p.lo \in Nat /\ p.hi \in Nat /\ p.lo <= p.hi /\ p.hi < Len(s.leafs)
      /\ SlotsOf(s.leafs, D) = p.slot .. p.slot + WidthOf(p) - 1 /\ D = BitsOf(p)
  BY DEF PlaceAt, PlaceOk
<1>3. D \subseteq 0 .. Len(s.leafs) - 1
  BY <1>2 DEF BitsOf
<1>4. SlotsOf(u.leafs, D) = SlotsOf(s.leafs, D)
  BY <1>1, <1>3, SlotsExtended
<1>5. p.hi < Len(u.leafs)
  BY <1>1, <1>2 DEF Extends
<1> QED
  BY <1>2, <1>4, <1>5 DEF PlaceAt, PlaceOk

(* Bind has no hole. *)
LEMMA BindShape ==
  ASSUME NEW x, NEW p
  PROVE  IsSeq(Bind(x, p)) /\ NoHole(Bind(x, p))
<1>1. IsSeq(Bind(x, p))
  BY Literals DEF Bind
<1>2. \A k \in 1 .. 3 : Bind(x, p)[k].op # "Skipped"
  BY DEF Bind, Copy, Ranged
<1>3. Len(Bind(x, p)) = 3
  BY DEF Bind
<1> QED
  BY <1>1, <1>2, <1>3 DEF NoHole

(* `let x;` *)
LEMMA DeclareStep ==
  ASSUME NEW R, NEW c, NEW s, NEW ls, NEW bs, NEW f, NEW z, NEW N, NEW W, Compiling(R, c, s, ls, bs, f, z, N, W),
         f.reach, NEW w \in {1, 2}, w < W, s.top + w <= N, NEW u, NEW x, NewLocal(s, w, u, x)
  PROVE  \E Q : Compiling(Q, c, u, Append(ls, x), bs, f, z, N, W)
<1>1. /\ IsStack(s, z, N) /\ LocalsOk(ls, s, W) /\ IsFlow(f) /\ f.may \subseteq Pending(s) /\ IsSeq(c)
      /\ Scoped(s, ls, bs, f, z, N, W)
  BY CompilingFacts
<1>2. /\ IsStack(u, z, N) /\ Grows(s, u) /\ u.first = s.first /\ LocalOk(x, u) /\ x.lo = Len(s.leafs) /\ x.n = w
      /\ \A y : y \in Pending(u) <=> y \in Pending(s) \/ y \in Len(s.leafs) .. Len(s.leafs) + w - 1
  BY <1>1, NewLocalOk
<1>3. Len(u.leafs) \in Nat /\ Slotted(u.leafs, z, N)
  BY <1>2, StackFrame
<1>4. LocalsOk(Append(ls, x), u, W) /\ LocalsGrow(ls, Append(ls, x), Len(s.leafs))
  BY <1>1, <1>2, <1>3, LocalAdded
<1>5. \A k \in 1 .. Len(bs) : Fits(f, bs[k], ls)
  BY <1>1, BlockFacts
<1>6. Steps(<<>>, u.leafs, N, f, f)
  BY <1>3, HoldingState, RunsEmpty DEF Steps
<1>7. IsSeq(<<>>) /\ NoHole(<<>>)
  BY Literals DEF NoHole
<1>8. f.may \subseteq Pending(u)
  BY <1>1, <1>2
<1>9. PICK Q : Compiling(Q, c \o <<>>, u, Append(ls, x), bs, f, z, N, W)
  BY <1>1, <1>2, <1>4, <1>5, <1>6, <1>7, <1>8, EmitStep
<1>10. c \o <<>> = c
  BY <1>1, ConcatEmpty
<1> QED
  BY <1>9, <1>10

(* `let x = p;` *)
LEMMA LetMoveStep ==
  ASSUME NEW R, NEW c, NEW s, NEW ls, NEW bs, NEW f, NEW z, NEW N, NEW W, Compiling(R, c, s, ls, bs, f, z, N, W),
         f.reach, NEW i \in 1 .. Len(ls), NEW p \in PlacesOf(ls[i]), BitsOf(p) \subseteq f.must,
         s.top + WidthOf(p) <= N, NEW u, NEW x, NewLocal(s, WidthOf(p), u, x)
  PROVE  \E Q : Compiling(Q, c \o Bind(x, p), u, Append(ls, x), bs,
                          Inited(Moved(f, BitsOf(p)), BitsOf(PlaceOf(x))), z, N, W)
<1> DEFINE D == BitsOf(p)
           X == BitsOf(PlaceOf(x))
           g == Inited(Moved(f, D), X)
           w == WidthOf(p)
           P == Pending(u)
<1>1. /\ IsStack(s, z, N) /\ LocalsOk(ls, s, W) /\ IsFlow(f) /\ f.may \subseteq Pending(s) /\ IsSeq(c)
      /\ Scoped(s, ls, bs, f, z, N, W) /\ Len(s.leafs) \in Nat /\ f.must \subseteq f.may
  BY CompilingFacts
<1>2. /\ PlaceAt(s.leafs, p, D) /\ w \in {1, 2} /\ w < W /\ D \subseteq Pending(s) /\ D \subseteq Nat
  BY <1>1, CompilingFacts, PlaceOfLocal
<1>3. /\ IsStack(u, z, N) /\ Grows(s, u) /\ u.first = s.first /\ LocalOk(x, u) /\ x.lo = Len(s.leafs) /\ x.n = w
      /\ \A y : y \in P <=> y \in Pending(s) \/ y \in Len(s.leafs) .. Len(s.leafs) + w - 1
      /\ PlaceAt(u.leafs, PlaceOf(x), X) /\ X = Len(s.leafs) .. Len(s.leafs) + w - 1
  <2>1. WidthOf(p) \in {1, 2} /\ s.top + WidthOf(p) <= N /\ NewLocal(s, WidthOf(p), u, x)
    BY <1>2
  <2> HIDE DEF X, P, w, D
  <2>2. /\ IsStack(u, z, N) /\ Grows(s, u) /\ u.first = s.first /\ LocalOk(x, u) /\ x.lo = Len(s.leafs)
        /\ x.n = WidthOf(p)
        /\ \A y : y \in Pending(u) <=> y \in Pending(s) \/ y \in Len(s.leafs) .. Len(s.leafs) + WidthOf(p) - 1
        /\ PlaceAt(u.leafs, PlaceOf(x), BitsOf(PlaceOf(x)))
        /\ NewBits(s, WidthOf(p), BitsOf(PlaceOf(x)))
    BY <1>1, <2>1, NewLocalOk
  <2> QED
    BY <2>2 DEF X, P, w, NewBits
<1>4. Len(u.leafs) \in Nat /\ Slotted(u.leafs, z, N) /\ Frame(u.leafs, z, N, P)
  BY <1>3, StackFrame
<1> HIDE DEF D, X, w, P
<1>5. LocalsOk(Append(ls, x), u, W) /\ LocalsGrow(ls, Append(ls, x), Len(s.leafs))
  BY <1>1, <1>2, <1>3, <1>4, LocalAdded
<1>6. X \subseteq Nat /\ \A y \in X : y >= Len(s.leafs)
  BY <1>1, <1>2, <1>3
<1>7. /\ IsFlow(g) /\ g.reach /\ g.must = (f.must \ D) \cup X /\ g.may = (f.may \ D) \cup X
  <2>1. FlowIs(g, f, X, D)
    BY <1>1, <1>2, <1>6, FlowRebound
  <2> HIDE DEF g
  <2> QED
    BY <2>1 DEF FlowIs
<1>8. \A k \in 1 .. Len(bs) : Fits(g, bs[k], ls)
  <2>1. g.may \subseteq f.may \cup X
    BY <1>7
  <2> HIDE DEF g
  <2> QED
    BY <1>1, <1>6, <2>1, FlowFits
<1>9. g.may \subseteq P
  BY <1>1, <1>3, <1>7
<1>10. PlaceAt(u.leafs, p, D)
  BY <1>1, <1>2, <1>3, <1>4, PlaceKept
<1>11. Pending(s) \cap X = {} /\ Pending(s) \subseteq P /\ X \subseteq P
  <2>1. \A y \in Pending(s) : y \in Nat /\ y < Len(s.leafs)
    BY <1>1, StackFacts
  <2> QED
    BY <1>1, <1>3, <1>6, <2>1
<1>12. Steps(Bind(x, p), u.leafs, N, f, g)
  <2> SUFFICES ASSUME NEW F, F \subseteq 0 .. Len(u.leafs) - 1, Apart(u.leafs, F), f.must \subseteq F, F \subseteq f.may
               PROVE  \E G : Runs(Bind(x, p), u.leafs, N, Settled(u.leafs, F), Settled(u.leafs, G))
                             /\ g.must \subseteq G /\ G \subseteq g.may
    BY DEF Steps
  <2> DEFINE G == (F \cup X) \ D
  <2>1. Rebound(F, X, D, G, P)
    <3>1. F \subseteq P /\ X \subseteq P /\ D \subseteq F /\ F \cap X = {}
      BY <1>1, <1>11 DEF D
    <3> QED
      BY <3>1 DEF Rebound
  <2>2. g.must \subseteq G /\ G \subseteq g.may
    <3>1. D \subseteq Pending(s)
      BY <1>2
    <3> QED
      BY <1>7, <1>11, <3>1
  <2> HIDE DEF G, g
  <2>3. x.n = WidthOf(p)
    BY <1>3 DEF w
  <2>4. Runs(Bind(x, p), u.leafs, N, Settled(u.leafs, F), Settled(u.leafs, G))
    BY <1>3, <1>4, <1>10, <2>1, <2>3, BindRun
  <2> QED
    BY <2>2, <2>4
<1>13. IsSeq(Bind(x, p)) /\ NoHole(Bind(x, p))
  BY BindShape
<1> HIDE DEF g
<1>14. \E Q : Compiling(Q, c \o Bind(x, p), u, Append(ls, x), bs, g, z, N, W)
  BY <1>3, <1>5, <1>7, <1>8, <1>9, <1>12, <1>13, EmitStep DEF P
<1> QED
  BY <1>14 DEF g, D, X

(* A statement that leaves the stack and the locals as they are. *)
LEMMA EmitSame ==
  ASSUME NEW R, NEW c, NEW s, NEW ls, NEW bs, NEW f, NEW z, NEW N, NEW W, Compiling(R, c, s, ls, bs, f, z, N, W),
         NEW g, IsFlow(g), g.reach, g.may \subseteq Pending(s), \A k \in 1 .. Len(bs) : Fits(g, bs[k], ls),
         NEW ch, IsSeq(ch), NoHole(ch), Steps(ch, s.leafs, N, f, g)
  PROVE  \E Q : Compiling(Q, c \o ch, s, ls, bs, g, z, N, W)
<1>1. IsStack(s, z, N) /\ LocalsOk(ls, s, W) /\ Len(s.leafs) \in Nat
  BY CompilingFacts
<1>2. Grows(s, s) /\ Bits(s) = 0 .. Len(s.leafs) - 1 /\ Pending(s) \subseteq Bits(s)
  <2>1. s.top \in Nat /\ Bits(s) = 0 .. Len(s.leafs) - 1 /\ Pending(s) \subseteq Bits(s)
    BY <1>1, StackFacts
  <2> QED
    BY <1>1, <2>1, ExtendsItself DEF Grows
<1>3. LocalsGrow(ls, ls, Len(s.leafs))
  BY <1>1, <1>2, LocalsKept
<1> QED
  BY <1>1, <1>2, <1>3, EmitStep

(* Less is initialised. *)
LEMMA FlowFitsLess ==
  ASSUME NEW s, NEW ls, NEW bs, NEW f, NEW z, NEW N, NEW W, Scoped(s, ls, bs, f, z, N, W),
         NEW g, g.may \subseteq f.may
  PROVE  \A k \in 1 .. Len(bs) : Fits(g, bs[k], ls)
<1>1. \A k \in 1 .. Len(bs) : Fits(f, bs[k], ls)
  BY BlockFacts
<1> QED
  BY <1>1 DEF Fits

(* MoveInto has no hole. *)
LEMMA MoveIntoShape ==
  ASSUME NEW p, NEW q
  PROVE  IsSeq(MoveInto(p, q)) /\ NoHole(MoveInto(p, q))
<1>1. IsSeq(MoveInto(p, q))
  BY Literals DEF MoveInto
<1>2. \A k \in 1 .. 3 : MoveInto(p, q)[k].op # "Skipped"
  BY DEF MoveInto, Copy, Ranged
<1>3. Len(MoveInto(p, q)) = 3
  BY DEF MoveInto
<1> QED
  BY <1>1, <1>2, <1>3 DEF NoHole

(* `p = q;` *)
LEMMA AssignMoveStep ==
  ASSUME NEW R, NEW c, NEW s, NEW ls, NEW bs, NEW f, NEW z, NEW N, NEW W, Compiling(R, c, s, ls, bs, f, z, N, W),
         f.reach, NEW i \in 1 .. Len(ls), NEW p \in PlacesOf(ls[i]), NEW j \in 1 .. Len(ls), NEW q \in PlacesOf(ls[j]),
         WidthOf(p) = WidthOf(q), p # q, BitsOf(q) \subseteq f.must
  PROVE  \E Q : Compiling(Q, c \o MoveInto(p, q), s, ls, bs, Inited(Moved(f, BitsOf(q)), BitsOf(p)), z, N, W)
<1> DEFINE D == BitsOf(p)
           S == BitsOf(q)
           g == Inited(Moved(f, S), D)
           P == Pending(s)
           l == s.leafs
<1>1. /\ IsStack(s, z, N) /\ LocalsOk(ls, s, W) /\ IsFlow(f) /\ f.may \subseteq P /\ Scoped(s, ls, bs, f, z, N, W)
      /\ Len(l) \in Nat /\ f.must \subseteq f.may /\ W \in Nat
  BY CompilingFacts
<1>2. /\ PlaceAt(l, p, D) /\ D \subseteq P /\ D \subseteq Nat /\ \A y \in D : ls[i].lo <= y /\ y < ls[i].lo + ls[i].n
      /\ PlaceAt(l, q, S) /\ S \subseteq P /\ S \subseteq Nat
  BY <1>1, PlaceOfLocal
<1>3. S \cap D = {}
  BY <1>1, DifferentPlaces
<1>4. Frame(l, z, N, P)
  BY <1>1, StackFrame
<1>5. FlowIs(g, f, D, S)
  BY <1>1, <1>2, FlowRebound
<1> HIDE DEF g, D, S, P, l
<1>6. IsFlow(g) /\ g.reach /\ g.must = (f.must \ S) \cup D /\ g.may = (f.may \ S) \cup D
  BY <1>5 DEF FlowIs
<1>7. g.may \subseteq P
  BY <1>1, <1>2, <1>6
<1>8. \A k \in 1 .. Len(bs) : Fits(g, bs[k], ls)
  <2>1. g.may \subseteq f.may \cup D
    BY <1>6
  <2>2. \A y \in D : y \in Nat /\ (y >= Len(s.leafs) \/ \E k \in 1 .. Len(ls) : ls[k].lo <= y /\ y < ls[k].lo + ls[k].n)
    BY <1>2
  <2> QED
    BY <1>1, <2>1, <2>2, FlowFits
<1>9. Steps(MoveInto(p, q), l, N, f, g)
  <2> SUFFICES ASSUME NEW F, F \subseteq 0 .. Len(l) - 1, Apart(l, F), f.must \subseteq F, F \subseteq f.may
               PROVE  \E G : Runs(MoveInto(p, q), l, N, Settled(l, F), Settled(l, G)) /\ g.must \subseteq G /\ G \subseteq g.may
    BY DEF Steps
  <2> DEFINE G == (F \cup D) \ S
  <2>1. Replaced(F, D, S, G, P)
    <3>1. F \subseteq P /\ D \subseteq P /\ S \subseteq F /\ S \cap D = {}
      BY <1>1, <1>2, <1>3 DEF S
    <3> QED
      BY <3>1 DEF Replaced
  <2>2. g.must \subseteq G /\ G \subseteq g.may
    BY <1>3, <1>6
  <2> HIDE DEF G
  <2>3. Runs(MoveInto(p, q), l, N, Settled(l, F), Settled(l, G))
    BY <1>2, <1>4, <2>1, MoveIntoRun
  <2> QED
    BY <2>2, <2>3
<1>10. \E Q : Compiling(Q, c \o MoveInto(p, q), s, ls, bs, g, z, N, W)
  BY <1>6, <1>7, <1>8, <1>9, MoveIntoShape, EmitSame DEF l, P
<1> QED
  BY <1>10 DEF g, S, D

(* `g(p);` *)
LEMMA PassStep ==
  ASSUME NEW R, NEW c, NEW s, NEW ls, NEW bs, NEW f, NEW z, NEW N, NEW W, Compiling(R, c, s, ls, bs, f, z, N, W),
         f.reach, NEW i \in 1 .. Len(ls), NEW p \in PlacesOf(ls[i]), BitsOf(p) \subseteq f.must,
         s.top + WidthOf(p) <= N, NEW v, Pending(v) = Pending(s), NEW a, a = s.top
  PROVE  \E Q : Compiling(Q, c \o << Copy(a, p.slot, WidthOf(p)), Ranged("LocalMove", p.lo, p.hi),
                                     Call(v, s.top, a .. a + WidthOf(p) - 1, FALSE) >>,
                          s, ls, bs, Moved(f, BitsOf(p)), z, N, W)
<1> DEFINE D == BitsOf(p)
           g == Moved(f, D)
           P == Pending(s)
           l == s.leafs
           ch == << Copy(a, p.slot, WidthOf(p)), Ranged("LocalMove", p.lo, p.hi),
                    Call(v, s.top, a .. a + WidthOf(p) - 1, FALSE) >>
<1>1. /\ IsStack(s, z, N) /\ LocalsOk(ls, s, W) /\ IsFlow(f) /\ f.may \subseteq P /\ Scoped(s, ls, bs, f, z, N, W)
      /\ Len(l) \in Nat /\ f.must \subseteq f.may /\ W \in Nat
  BY CompilingFacts
<1>2. PlaceAt(l, p, D) /\ D \subseteq P /\ D \subseteq Nat /\ WidthOf(p) \in {1, 2}
  BY <1>1, PlaceOfLocal
<1>3. Frame(l, z, N, P) /\ s.top \in Nat /\ \A b \in P : SlotAt(l, b) < s.top
  BY <1>1, StackFrame, StackFacts
<1>4. FlowIs(g, f, {}, D)
  BY <1>1, <1>2, FlowOps
<1>5. IsSeq(ch) /\ NoHole(ch)
  <2>1. IsSeq(ch)
    BY Literals
  <2>2. \A k \in 1 .. 3 : ch[k].op # "Skipped"
    BY DEF Copy, Ranged, Call
  <2>3. Len(ch) = 3
    OBVIOUS
  <2> QED
    BY <2>1, <2>2, <2>3 DEF NoHole
<1> HIDE DEF g, D, P, l
<1>6. IsFlow(g) /\ g.reach /\ g.must = f.must \ D /\ g.may = f.may \ D
  BY <1>4 DEF FlowIs
<1>7. g.may \subseteq P
  BY <1>1, <1>6
<1>8. \A k \in 1 .. Len(bs) : Fits(g, bs[k], ls)
  BY <1>1, <1>6, FlowFitsLess
<1>9. Steps(ch, l, N, f, g)
  <2> SUFFICES ASSUME NEW F, F \subseteq 0 .. Len(l) - 1, Apart(l, F), f.must \subseteq F, F \subseteq f.may
               PROVE  \E G : Runs(ch, l, N, Settled(l, F), Settled(l, G)) /\ g.must \subseteq G /\ G \subseteq g.may
    BY DEF Steps
  <2> DEFINE G == F \ D
  <2>1. Without(F, D, G, P)
    <3>1. F \subseteq P /\ D \subseteq F
      BY <1>1 DEF D
    <3> QED
      BY <3>1 DEF Without
  <2>2. g.must \subseteq G /\ G \subseteq g.may
    BY <1>6
  <2> HIDE DEF G
  <2>3. Below(l, F, s.top) /\ F \subseteq Pending(v)
    BY <1>1, <1>3 DEF Below, SlotsOf, P
  <2>4. s.top <= s.top /\ s.top + WidthOf(p) <= N
    BY <1>3
  <2>5. Runs(ch, l, N, Settled(l, F), Settled(l, G))
    BY <1>2, <1>3, <2>1, <2>3, <2>4, PassRun
  <2> QED
    BY <2>2, <2>5
<1> HIDE DEF ch
<1>10. \E Q : Compiling(Q, c \o ch, s, ls, bs, g, z, N, W)
  BY <1>5, <1>6, <1>7, <1>8, <1>9, EmitSame DEF l, P
<1> QED
  BY <1>10 DEF g, D, ch

(* A temporary of one slot in a statement scope of its own: u is the stack      *)
(* after the scope is popped.                                                   *)
Temp(s, v, t, u, z, N) ==
  /\ IsStack(v, z, N) /\ IsStack(u, z, N) /\ Grows(s, v) /\ Grows(s, u) /\ u.first = s.first /\ u.top = s.top
  /\ v.leafs = u.leafs /\ Len(v.leafs) = Len(s.leafs) + 1
  /\ t.slot = s.top /\ t.lo = Len(s.leafs) /\ SlotAt(v.leafs, t.lo) = t.slot
  /\ PlaceAt(v.leafs, PlaceOf(t), {t.lo}) /\ WidthOf(PlaceOf(t)) = 1
  /\ \A y : y \in Pending(u) <=> y \in Pending(s)
  /\ \A y : y \in Pending(v) <=> y \in Pending(s) \/ y = t.lo
  /\ \A y : y \in ScopeBits(v) <=> y = t.lo

(* The temporary of an assignment or call statement. *)
LEMMA TempOk ==
  ASSUME NEW s, NEW z, NEW N, IsStack(s, z, N), s.top + 1 <= N
  PROVE  \E v, t, u : /\ v = AllocVal(PushScope(s), 1) /\ t = Newest(v, 1) /\ u = PopScope(v, Saved(s))
                      /\ Temp(s, v, t, u, z, N)
<1> DEFINE r == PushScope(s)
           v == AllocVal(r, 1)
           t == Newest(v, 1)
           u == PopScope(v, Saved(s))
<1>1. /\ z \in Nat /\ N \in Nat /\ Len(s.leafs) \in Nat /\ s.top \in Nat /\ s.top >= z /\ s.top <= N
      /\ s.first \in Nat /\ s.first <= Len(s.leafs)
      /\ Bits(s) = 0 .. Len(s.leafs) - 1 /\ Pending(s) \subseteq Bits(s)
      /\ \A b \in Pending(s) : b \in Nat /\ b < Len(s.leafs) /\ SlotAt(s.leafs, b) < s.top
  BY StackFacts
<1>2. Trimmed(s, r, s.top, Len(s.leafs), {})
  BY TrimFacts
<1> HIDE DEF r
<1>3. /\ IsStack(r, z, N) /\ r.leafs = s.leafs /\ r.top = s.top /\ r.first = Len(s.leafs)
      /\ \A y : y \in Pending(r) <=> y \in Pending(s)
  <2>1. s.top \in z .. N /\ Len(s.leafs) \in 0 .. Len(s.leafs)
    BY <1>1
  <2>2. \A b \in Pending(s) : b \in {} \/ SlotAt(s.leafs, b) < s.top
    BY <1>1
  <2> QED
    BY <1>2, <2>1, <2>2, TrimmedOk
<1>4. r.top + 1 <= N
  BY <1>3
<1>5. NewLocal(r, 1, v, t)
  BY <1>3, <1>4, AllocFacts DEF NewLocal
<1> HIDE DEF t
<1>6. Trimmed(v, u, Saved(s).top, Saved(s).first, ScopeBits(v))
  <2>1. IsStack(v, z, N)
    BY <1>3, <1>4, <1>5, NewLocalOk
  <2> HIDE DEF v
  <2> QED
    BY <2>1, TrimFacts
<1>7. Saved(s).top = s.top /\ Saved(s).first = s.first
  BY DEF Saved
<1> HIDE DEF u, v
<1>8. /\ IsStack(v, z, N) /\ Grows(r, v) /\ v.first = r.first /\ v.top = s.top + 1
      /\ Len(v.leafs) = Len(s.leafs) + 1
      /\ \A y : y \in Pending(v) <=> y \in Pending(r) \/ y \in Len(s.leafs) .. Len(s.leafs) + 1 - 1
      /\ LocalOk(t, v) /\ t.slot = s.top /\ t.lo = Len(s.leafs) /\ t.n = 1
      /\ PlaceAt(v.leafs, PlaceOf(t), BitsOf(PlaceOf(t))) /\ WidthOf(PlaceOf(t)) = 1
  BY <1>3, <1>4, <1>5, NewLocalOk
<1>9. \A y : y \in Pending(v) <=> y \in Pending(s) \/ y = t.lo
  BY <1>1, <1>3, <1>8
<1>10. \A y : y \in ScopeBits(v) <=> y = t.lo
  BY <1>1, <1>3, <1>8 DEF ScopeBits
<1>11. SlotAt(v.leafs, t.lo) = t.slot /\ BitsOf(PlaceOf(t)) = {t.lo}
  BY <1>1, <1>8, LocalSlots DEF BitsOf, PlaceOf
<1>12. Extends(s.leafs, v.leafs) /\ \A b \in Bits(s) : b \in Pending(v) <=> b \in Pending(s)
  <2>1. Bits(r) = Bits(s) /\ Extends(s.leafs, v.leafs)
    BY <1>3, <1>8 DEF Grows, Bits
  <2> QED
    BY <2>1, <1>3, <1>8 DEF Grows
<1>13. Grows(s, v)
  BY <1>1, <1>8, <1>12 DEF Grows
<1>14. /\ IsStack(u, z, N) /\ u.leafs = v.leafs /\ u.top = s.top /\ u.first = s.first
       /\ \A y : y \in Pending(u) <=> y \in Pending(v) /\ y \notin ScopeBits(v)
  <2>1. s.top \in z .. N /\ s.first \in 0 .. Len(v.leafs)
    BY <1>1, <1>8
  <2>2. ScopeBits(v) \subseteq Bits(v)
    BY <1>1, <1>3, <1>8 DEF ScopeBits, Bits
  <2>3. \A b \in Pending(v) : b \in ScopeBits(v) \/ SlotAt(v.leafs, b) < s.top
    BY <1>1, <1>9, <1>10, <1>12 DEF Extends, Pending
  <2> QED
    BY <1>6, <1>7, <1>8, <2>1, <2>2, <2>3, TrimmedOk
<1>15. \A y : y \in Pending(u) <=> y \in Pending(s)
  BY <1>1, <1>8, <1>9, <1>10, <1>14
<1>16. Grows(s, u)
  BY <1>1, <1>12, <1>14, <1>15 DEF Grows
<1>17. Temp(s, v, t, u, z, N)
  BY <1>8, <1>9, <1>10, <1>11, <1>13, <1>14, <1>15, <1>16 DEF Temp
<1> QED
  BY <1>17 DEF r, v, t, u

CallInit(v, t) == << Call(v, t.slot, {}, TRUE), Ranged("LocalInit", t.lo, t.lo) >>

(* A call and its LocalInit have no hole. *)
LEMMA CallInitShape ==
  ASSUME NEW v, NEW t
  PROVE  IsSeq(CallInit(v, t)) /\ NoHole(CallInit(v, t))
<1>1. IsSeq(CallInit(v, t)) /\ Len(CallInit(v, t)) = 2
  BY Literals DEF CallInit
<1>2. \A k \in 1 .. 2 : CallInit(v, t)[k].op # "Skipped"
  BY DEF CallInit, Call, Ranged
<1> QED
  BY <1>1, <1>2 DEF NoHole

PlusBit(F, b, G) == \A y : y \in G <=> y \in F \/ y = b

(* The temporary is written. *)
LEMMA TempRun ==
  ASSUME NEW s, NEW v, NEW t, NEW u, NEW z, NEW N, IsStack(s, z, N), Temp(s, v, t, u, z, N),
         NEW F, F \subseteq Pending(s), NEW G, PlusBit(F, t.lo, G)
  PROVE  /\ Runs(CallInit(v, t), v.leafs, N, Settled(v.leafs, F), Settled(v.leafs, G))
         /\ Frame(v.leafs, z, N, Pending(v)) /\ F \subseteq Pending(v) /\ t.lo \in Pending(v) /\ t.lo \notin F
<1>1. IsStack(v, z, N) /\ t.slot = s.top /\ t.lo = Len(s.leafs) /\ SlotAt(v.leafs, t.lo) = t.slot /\ Grows(s, v)
      /\ \A y : y \in Pending(v) <=> y \in Pending(s) \/ y = t.lo
  BY DEF Temp
<1>2. /\ \A b \in Pending(s) : b \in Nat /\ b < Len(s.leafs) /\ SlotAt(s.leafs, b) < s.top
      /\ Bits(s) = 0 .. Len(s.leafs) - 1 /\ Pending(s) \subseteq Bits(s)
  BY StackFacts
<1>3. Frame(v.leafs, z, N, Pending(v))
  BY <1>1, StackFrame
<1>4. F \subseteq Pending(v) /\ t.lo \in Pending(v) /\ t.lo \notin F
  BY <1>1, <1>2
<1>5. Added(F, t.lo, G, Pending(v))
  <2>1. G = F \cup {t.lo}
    BY DEF PlusBit
  <2> QED
    BY <1>4, <2>1 DEF Added
<1>6. Below(v.leafs, F, SlotAt(v.leafs, t.lo))
  <2>1. \A b \in F : SlotAt(v.leafs, b) < s.top
    BY <1>1, <1>2 DEF Grows, Extends
  <2> QED
    BY <1>1, <2>1 DEF Below, SlotsOf
<1>7. Runs(<<Call(v, SlotAt(v.leafs, t.lo), {}, TRUE), Ranged("LocalInit", t.lo, t.lo)>>, v.leafs, N,
           Settled(v.leafs, F), Settled(v.leafs, G))
  BY <1>3, <1>4, <1>5, <1>6, CallRun
<1> QED
  BY <1>1, <1>3, <1>4, <1>7 DEF CallInit

(* The temporary's statement scope is popped. *)
LEMMA TempDropRun ==
  ASSUME NEW s, NEW v, NEW t, NEW u, NEW z, NEW N, IsStack(s, z, N), Temp(s, v, t, u, z, N),
         NEW F, F \subseteq Pending(v), NEW G, \A y : y \in G <=> y \in F /\ y # t.lo
  PROVE  /\ Runs(ScopeDrop(v), v.leafs, N, Settled(v.leafs, F), Settled(v.leafs, G))
         /\ IsSeq(ScopeDrop(v)) /\ NoHole(ScopeDrop(v))
<1>1. IsStack(v, z, N) /\ \A y : y \in ScopeBits(v) <=> y = t.lo
  BY DEF Temp
<1>2. Frame(v.leafs, z, N, Pending(v)) /\ Slotted(v.leafs, z, N) /\ v.first \in Nat
  BY <1>1, StackFrame, StackFacts
<1>3. F \subseteq 0 .. Len(v.leafs) - 1 /\ Apart(v.leafs, F) /\ G \subseteq 0 .. Len(v.leafs) - 1
  BY <1>2 DEF Frame, Apart
<1>4. G = F \ ScopeBits(v)
  BY <1>1
<1> DEFINE l == v.leafs
<1>5. l = v.leafs
  OBVIOUS
<1> HIDE DEF l
<1> DEFINE O == {}
<1>6. O \subseteq 0 .. N - 1 /\ O \cap SlotsOf(l, F) = {}
  OBVIOUS
<1>7. Settled(l, F) = Holding(l, F, O) /\ Settled(l, G) = Holding(l, G, O)
  BY <1>2, <1>3, <1>5, HoldingState
<1> HIDE DEF O
<1>8. /\ IsSeq(ScopeDrop(v)) /\ Runs(ScopeDrop(v), l, N, Holding(l, F, O), Holding(l, G, O))
      /\ \A k \in 1 .. Len(ScopeDrop(v)) : ScopeDrop(v)[k].op # "Skipped"
  BY <1>2, <1>3, <1>4, <1>5, <1>6, ScopeDropRun
<1> QED
  BY <1>5, <1>7, <1>8 DEF NoHole

(* `f();` *)
LEMMA CallStmtStep ==
  ASSUME NEW R, NEW c, NEW s, NEW ls, NEW bs, NEW f, NEW z, NEW N, NEW W, Compiling(R, c, s, ls, bs, f, z, N, W),
         f.reach, NEW v, NEW t, NEW u, Temp(s, v, t, u, z, N)
  PROVE  \E Q : Compiling(Q, c \o CallInit(v, t) \o ScopeDrop(v), u, ls, bs, f, z, N, W)
<1> DEFINE l == v.leafs
           ch == CallInit(v, t) \o ScopeDrop(v)
<1>1. /\ IsStack(s, z, N) /\ LocalsOk(ls, s, W) /\ IsFlow(f) /\ f.may \subseteq Pending(s) /\ Scoped(s, ls, bs, f, z, N, W)
      /\ Len(s.leafs) \in Nat /\ f.must \subseteq f.may /\ W \in Nat /\ IsSeq(c)
  BY CompilingFacts
<1>2. /\ IsStack(v, z, N) /\ IsStack(u, z, N) /\ Grows(s, u) /\ u.first = s.first /\ l = u.leafs
      /\ \A y : y \in Pending(u) <=> y \in Pending(s)
  BY DEF Temp
<1>3. Len(u.leafs) \in Nat /\ Bits(s) = 0 .. Len(s.leafs) - 1 /\ Pending(s) \subseteq Bits(s)
  BY <1>1, <1>2, StackFacts
<1>4. LocalsOk(ls, u, W) /\ LocalsGrow(ls, ls, Len(s.leafs))
  BY <1>1, <1>2, <1>3, LocalsKept
<1>5. f.may \subseteq Pending(u) /\ \A k \in 1 .. Len(bs) : Fits(f, bs[k], ls)
  BY <1>1, <1>2, BlockFacts
<1>6. IsSeq(CallInit(v, t)) /\ NoHole(CallInit(v, t)) /\ IsSeq(ScopeDrop(v)) /\ NoHole(ScopeDrop(v))
  <2> DEFINE E0 == {}
  <2>1. E0 \subseteq Pending(v) /\ \A y : y \in E0 <=> y \in E0 /\ y # t.lo
    OBVIOUS
  <2> HIDE DEF E0
  <2>2. IsSeq(ScopeDrop(v)) /\ NoHole(ScopeDrop(v))
    BY <1>1, <2>1, TempDropRun
  <2> QED
    BY <2>2, CallInitShape
<1>7. IsSeq(ch) /\ NoHole(ch) /\ (c \o CallInit(v, t)) \o ScopeDrop(v) = c \o ch
  BY <1>1, <1>6, ConcatHoles, ConcatAssoc
<1>8. Steps(ch, l, N, f, f)
  <2> SUFFICES ASSUME NEW F, F \subseteq 0 .. Len(l) - 1, Apart(l, F), f.must \subseteq F, F \subseteq f.may
               PROVE  \E G : Runs(ch, l, N, Settled(l, F), Settled(l, G)) /\ f.must \subseteq G /\ G \subseteq f.may
    BY DEF Steps
  <2> DEFINE H == F \cup {t.lo}
  <2>1. F \subseteq Pending(s)
    BY <1>1
  <2>2. PlusBit(F, t.lo, H)
    BY DEF PlusBit
  <2> HIDE DEF H
  <2>3. /\ Runs(CallInit(v, t), l, N, Settled(l, F), Settled(l, H))
        /\ F \subseteq Pending(v) /\ t.lo \in Pending(v) /\ t.lo \notin F
    BY <1>1, <2>1, <2>2, TempRun
  <2>4. H \subseteq Pending(v) /\ \A y : y \in F <=> y \in H /\ y # t.lo
    BY <2>2, <2>3 DEF PlusBit
  <2>5. Runs(ScopeDrop(v), l, N, Settled(l, H), Settled(l, F))
    BY <1>1, <2>4, TempDropRun
  <2>6. Runs(ch, l, N, Settled(l, F), Settled(l, F))
    BY <1>6, <2>3, <2>5, RunsConcat
  <2> QED
    BY <2>6
<1> HIDE DEF ch
<1>9. \E Q : Compiling(Q, c \o ch, u, ls, bs, f, z, N, W)
  BY <1>1, <1>2, <1>4, <1>5, <1>7, <1>8, EmitStep
<1> QED
  BY <1>7, <1>9

(* `p = f();` *)
LEMMA AssignCallStep ==
  ASSUME NEW R, NEW c, NEW s, NEW ls, NEW bs, NEW f, NEW z, NEW N, NEW W, Compiling(R, c, s, ls, bs, f, z, N, W),
         f.reach, NEW i \in 1 .. Len(ls), NEW p \in PlacesOf(ls[i]), WidthOf(p) = 1,
         NEW v, NEW t, NEW u, Temp(s, v, t, u, z, N)
  PROVE  \E Q : Compiling(Q, c \o CallInit(v, t) \o MoveInto(p, PlaceOf(t)) \o ScopeDrop(v), u, ls, bs,
                          Inited(f, BitsOf(p)), z, N, W)
<1> DEFINE D == BitsOf(p)
           g == Inited(f, D)
           l == v.leafs
           mi == MoveInto(p, PlaceOf(t))
           ch == (CallInit(v, t) \o mi) \o ScopeDrop(v)
<1>1. /\ IsStack(s, z, N) /\ LocalsOk(ls, s, W) /\ IsFlow(f) /\ f.may \subseteq Pending(s) /\ Scoped(s, ls, bs, f, z, N, W)
      /\ Len(s.leafs) \in Nat /\ f.must \subseteq f.may /\ W \in Nat /\ IsSeq(c)
  BY CompilingFacts
<1>2. /\ IsStack(v, z, N) /\ IsStack(u, z, N) /\ Grows(s, u) /\ Grows(s, v) /\ u.first = s.first /\ l = u.leafs
      /\ PlaceAt(l, PlaceOf(t), {t.lo}) /\ WidthOf(PlaceOf(t)) = 1 /\ t.lo = Len(s.leafs)
      /\ \A y : y \in Pending(u) <=> y \in Pending(s)
      /\ \A y : y \in Pending(v) <=> y \in Pending(s) \/ y = t.lo
  BY DEF Temp
<1>3. Len(u.leafs) \in Nat /\ Bits(s) = 0 .. Len(s.leafs) - 1 /\ Pending(s) \subseteq Bits(s) /\ Len(l) \in Nat
  BY <1>1, <1>2, StackFacts
<1>4. LocalsOk(ls, u, W) /\ LocalsGrow(ls, ls, Len(s.leafs))
  BY <1>1, <1>2, <1>3, LocalsKept
<1>5. /\ PlaceAt(s.leafs, p, D) /\ D \subseteq Pending(s) /\ D \subseteq Nat
      /\ \A y \in D : ls[i].lo <= y /\ y < ls[i].lo + ls[i].n
  BY <1>1, PlaceOfLocal
<1>6. PlaceAt(l, p, D)
  BY <1>1, <1>2, <1>3, <1>5, PlaceKept
<1>7. FlowIs(g, f, D, {})
  BY <1>1, <1>5, FlowOps
<1>8. IsSeq(CallInit(v, t)) /\ NoHole(CallInit(v, t)) /\ IsSeq(ScopeDrop(v)) /\ NoHole(ScopeDrop(v))
      /\ IsSeq(mi) /\ NoHole(mi)
  <2> DEFINE E0 == {}
  <2>1. E0 \subseteq Pending(v) /\ \A y : y \in E0 <=> y \in E0 /\ y # t.lo
    OBVIOUS
  <2> HIDE DEF E0
  <2>2. IsSeq(ScopeDrop(v)) /\ NoHole(ScopeDrop(v))
    BY <1>1, <2>1, TempDropRun
  <2> QED
    BY <2>2, CallInitShape, MoveIntoShape
<1> HIDE DEF g, D, l, mi
<1>9. /\ IsSeq(ch) /\ NoHole(ch) /\ IsSeq(CallInit(v, t) \o mi)
      /\ ((c \o CallInit(v, t)) \o mi) \o ScopeDrop(v) = c \o ch
  <2>1. IsSeq(CallInit(v, t) \o mi) /\ NoHole(CallInit(v, t) \o mi) /\ (c \o CallInit(v, t)) \o mi = c \o (CallInit(v, t) \o mi)
    BY <1>1, <1>8, ConcatHoles, ConcatAssoc
  <2>2. IsSeq(ch) /\ NoHole(ch)
    BY <1>8, <2>1, ConcatHoles
  <2>3. (c \o (CallInit(v, t) \o mi)) \o ScopeDrop(v) = c \o ch
    <3> DEFINE cm == CallInit(v, t) \o mi
    <3>1. IsSeq(c) /\ IsSeq(cm) /\ IsSeq(ScopeDrop(v)) /\ ch = cm \o ScopeDrop(v)
      BY <1>1, <1>8, <2>1
    <3> HIDE DEF cm, ch
    <3>2. (c \o cm) \o ScopeDrop(v) = c \o (cm \o ScopeDrop(v))
      BY <3>1, ConcatAssoc
    <3> QED
      BY <3>1, <3>2 DEF cm
  <2> QED
    BY <2>1, <2>2, <2>3
<1>10. IsFlow(g) /\ g.reach /\ g.must = f.must \cup D /\ g.may = f.may \cup D
  BY <1>7 DEF FlowIs
<1>11. g.may \subseteq Pending(u)
  BY <1>1, <1>2, <1>5, <1>10
<1>12. \A k \in 1 .. Len(bs) : Fits(g, bs[k], ls)
  <2>1. g.may \subseteq f.may \cup D
    BY <1>10
  <2>2. \A y \in D : y \in Nat /\ (y >= Len(s.leafs) \/ \E k \in 1 .. Len(ls) : ls[k].lo <= y /\ y < ls[k].lo + ls[k].n)
    BY <1>5
  <2> QED
    BY <1>1, <2>1, <2>2, FlowFits
<1>13. Steps(ch, l, N, f, g)
  <2> SUFFICES ASSUME NEW F, F \subseteq 0 .. Len(l) - 1, Apart(l, F), f.must \subseteq F, F \subseteq f.may
               PROVE  \E G : Runs(ch, l, N, Settled(l, F), Settled(l, G)) /\ g.must \subseteq G /\ G \subseteq g.may
    BY DEF Steps
  <2> DEFINE H == F \cup {t.lo}
             G == F \cup D
             S == {t.lo}
  <2>1. F \subseteq Pending(s)
    BY <1>1
  <2>2. PlusBit(F, t.lo, H)
    BY DEF PlusBit
  <2>3. PlaceAt(l, PlaceOf(t), S)
    BY <1>2
  <2>4. \A y \in S : y = t.lo
    OBVIOUS
  <2>5. \A y : y \in H <=> y \in F \/ y = t.lo
    OBVIOUS
  <2>6. t.lo \in S
    OBVIOUS
  <2>7. \A y : y \in G <=> y \in F \/ y \in D
    OBVIOUS
  <2> HIDE DEF H, S, G
  <2>8. /\ Runs(CallInit(v, t), v.leafs, N, Settled(v.leafs, F), Settled(v.leafs, H))
        /\ Frame(v.leafs, z, N, Pending(v)) /\ F \subseteq Pending(v) /\ t.lo \in Pending(v) /\ t.lo \notin F
    BY <1>1, <2>1, <2>2, TempRun
  <2>9. t.lo \notin Pending(s)
    BY <1>2, <1>3
  <2>10. Replaced(H, D, S, G, Pending(v))
    <3>1. H \subseteq Pending(v) /\ D \subseteq Pending(v)
      BY <1>2, <1>5, <2>5, <2>8
    <3>2. S \subseteq H /\ S \cap D = {}
      BY <1>5, <2>4, <2>5, <2>9
    <3>3. G = (H \cup D) \ S
      BY <1>5, <2>1, <2>4, <2>5, <2>6, <2>7, <2>9
    <3> QED
      BY <3>1, <3>2, <3>3 DEF Replaced
  <2>11. Runs(mi, l, N, Settled(l, H), Settled(l, G))
    BY <1>2, <1>6, <2>3, <2>8, <2>10, MoveIntoRun DEF l, mi
  <2>12. G \subseteq Pending(v) /\ \A y : y \in G <=> y \in G /\ y # t.lo
    BY <1>2, <1>5, <2>1, <2>7, <2>9
  <2>13. Runs(ScopeDrop(v), v.leafs, N, Settled(v.leafs, G), Settled(v.leafs, G))
    BY <1>1, <2>12, TempDropRun
  <2>14. Runs(ch, l, N, Settled(l, F), Settled(l, G))
    <3>1. Runs(CallInit(v, t) \o mi, l, N, Settled(l, F), Settled(l, G))
      BY <1>8, <2>8, <2>11, RunsConcat DEF l
    <3> QED
      BY <1>8, <1>9, <2>13, <3>1, RunsConcat DEF l
  <2> QED
    BY <1>10, <2>7, <2>14
<1> HIDE DEF ch
<1>14. \E Q : Compiling(Q, c \o ch, u, ls, bs, g, z, N, W)
  BY <1>1, <1>2, <1>4, <1>9, <1>10, <1>11, <1>12, <1>13, EmitStep
<1> QED
  BY <1>9, <1>14 DEF g, D, mi

(* `let x = f();` *)
LEMMA LetCallStep ==
  ASSUME NEW R, NEW c, NEW s, NEW ls, NEW bs, NEW f, NEW z, NEW N, NEW W, Compiling(R, c, s, ls, bs, f, z, N, W),
         f.reach, 1 < W, s.top + 1 <= N, NEW u, NEW x, NewLocal(s, 1, u, x)
  PROVE  \E Q : Compiling(Q, c \o CallInit(u, x), u, Append(ls, x), bs, Inited(f, BitsOf(PlaceOf(x))), z, N, W)
<1> DEFINE D == BitsOf(PlaceOf(x))
           g == Inited(f, D)
           l == u.leafs
           ch == CallInit(u, x)
           n == Len(s.leafs)
<1>1. /\ IsStack(s, z, N) /\ LocalsOk(ls, s, W) /\ IsFlow(f) /\ f.may \subseteq Pending(s) /\ Scoped(s, ls, bs, f, z, N, W)
      /\ n \in Nat /\ f.must \subseteq f.may /\ W \in Nat /\ IsSeq(c)
  BY CompilingFacts
<1>2. /\ IsStack(u, z, N) /\ Grows(s, u) /\ u.first = s.first /\ u.top = s.top + 1
      /\ Len(u.leafs) = Len(s.leafs) + 1
      /\ \A y : y \in Pending(u) <=> y \in Pending(s) \/ y \in Len(s.leafs) .. Len(s.leafs) + 1 - 1
      /\ LocalOk(x, u) /\ x.slot = s.top /\ x.lo = n /\ x.n = 1
      /\ NewBits(s, 1, D)
  BY <1>1, NewLocalOk
<1>3. /\ Bits(s) = 0 .. n - 1 /\ Pending(s) \subseteq Bits(s)
      /\ \A b \in Pending(s) : b \in Nat /\ b < n /\ SlotAt(s.leafs, b) < s.top
  BY <1>1, StackFacts
<1>4. LocalsOk(Append(ls, x), u, W) /\ LocalsGrow(ls, Append(ls, x), Len(s.leafs))
  BY <1>1, <1>2, LocalAdded
<1>5. D \subseteq Nat /\ \A y : y \in D <=> y = n
  BY <1>1, <1>2 DEF NewBits
<1>6. FlowIs(g, f, D, {})
  BY <1>1, <1>5, FlowOps
<1> HIDE DEF g, D
<1>7. IsFlow(g) /\ g.reach /\ g.must = f.must \cup D /\ g.may = f.may \cup D
  BY <1>6 DEF FlowIs
<1>8. g.may \subseteq Pending(u)
  BY <1>1, <1>2, <1>5, <1>7
<1>9. \A k \in 1 .. Len(bs) : Fits(g, bs[k], ls)
  <2>1. g.may \subseteq f.may \cup D
    BY <1>7
  <2>2. \A y \in D : y \in Nat /\ (y >= Len(s.leafs) \/ \E k \in 1 .. Len(ls) : ls[k].lo <= y /\ y < ls[k].lo + ls[k].n)
    BY <1>1, <1>5
  <2> QED
    BY <1>1, <2>1, <2>2, FlowFits
<1>10. SlotAt(l, n) = x.slot
  BY <1>2, LocalSlots
<1>11. Frame(l, z, N, Pending(u))
  BY <1>2, StackFrame
<1>12. Steps(ch, l, N, f, g)
  <2> SUFFICES ASSUME NEW F, F \subseteq 0 .. Len(l) - 1, Apart(l, F), f.must \subseteq F, F \subseteq f.may
               PROVE  \E G : Runs(ch, l, N, Settled(l, F), Settled(l, G)) /\ g.must \subseteq G /\ G \subseteq g.may
    BY DEF Steps
  <2> DEFINE G == F \cup {n}
  <2>1. F \subseteq Pending(s)
    BY <1>1
  <2>2. Added(F, n, G, Pending(u))
    BY <1>1, <1>2, <1>3, <2>1 DEF Added
  <2>3. g.must \subseteq G /\ G \subseteq g.may
    BY <1>5, <1>7
  <2> HIDE DEF G
  <2>4. Below(l, F, SlotAt(l, n))
    <3>1. \A b \in F : SlotAt(l, b) < s.top
      BY <1>2, <1>3, <2>1 DEF Grows, Extends
    <3> QED
      BY <1>2, <1>10, <3>1 DEF Below, SlotsOf
  <2>5. F \subseteq Pending(u)
    BY <1>2, <2>1
  <2> HIDE DEF l
  <2>6. Runs(<<Call(u, SlotAt(l, n), {}, TRUE), Ranged("LocalInit", n, n)>>, l, N, Settled(l, F), Settled(l, G))
    BY <1>11, <2>2, <2>4, <2>5, CallRun
  <2>7. ch = <<Call(u, SlotAt(l, n), {}, TRUE), Ranged("LocalInit", n, n)>>
    BY <1>2, <1>10 DEF CallInit
  <2> QED
    BY <2>3, <2>6, <2>7
<1>13. \E Q : Compiling(Q, c \o ch, u, Append(ls, x), bs, g, z, N, W)
  BY <1>1, <1>2, <1>4, <1>7, <1>8, <1>9, <1>12, CallInitShape, EmitStep
<1> QED
  BY <1>13 DEF g, D

(* The stack for a pair: a holds the pair, b and d the slots of the two calls.  *)
Pair(s, x, b, d, z, N) ==
  /\ IsStack(d, z, N) /\ Grows(s, d) /\ d.first = s.first /\ d.top = s.top + 4
  /\ LocalOk(x, d) /\ x.slot = s.top /\ x.lo = Len(s.leafs) /\ x.n = 2
  /\ b.top = s.top + 3
  /\ \A y : y \in Pending(s) \/ y = Len(s.leafs) \/ y = Len(s.leafs) + 1 => y \in Pending(b) /\ y \in Pending(d)

(* Extends is transitive. *)
LEMMA ExtendsFurther ==
  ASSUME NEW l, NEW m, NEW q, Len(l) \in Nat, Len(m) \in Nat, Len(q) \in Nat, Extends(l, m), Extends(m, q)
  PROVE  Extends(l, q)
<1>1. \A b \in 0 .. Len(l) - 1 : b \in 0 .. Len(m) - 1
  BY DEF Extends
<1>2. \A b \in 0 .. Len(l) - 1 : SlotAt(q, b) = SlotAt(l, b)
  BY <1>1 DEF Extends
<1>3. Len(l) <= Len(q)
  BY DEF Extends
<1> QED
  BY <1>2, <1>3 DEF Extends

(* The stack of `let x = (f(), f());`. *)
LEMMA PairOk ==
  ASSUME NEW s, NEW z, NEW N, IsStack(s, z, N), s.top + 4 <= N,
         NEW a, NEW x, NewLocal(s, 2, a, x), NEW b, NEW x2, NewLocal(a, 1, b, x2), NEW d, NEW x3, NewLocal(b, 1, d, x3)
  PROVE  Pair(s, x, b, d, z, N)
<1>1. s.top \in Nat /\ N \in Nat /\ Len(s.leafs) \in Nat /\ Bits(s) = 0 .. Len(s.leafs) - 1
  BY StackFacts
<1>2. /\ IsStack(a, z, N) /\ Grows(s, a) /\ a.first = s.first /\ a.top = s.top + 2
      /\ Len(a.leafs) = Len(s.leafs) + 2
      /\ \A y : y \in Pending(a) <=> y \in Pending(s) \/ y \in Len(s.leafs) .. Len(s.leafs) + 2 - 1
      /\ LocalOk(x, a) /\ x.slot = s.top /\ x.lo = Len(s.leafs) /\ x.n = 2
  <2>1. s.top + 2 <= N
    BY <1>1
  <2> QED
    BY <2>1, NewLocalOk
<1>3. /\ IsStack(b, z, N) /\ Grows(a, b) /\ b.first = a.first /\ b.top = a.top + 1
      /\ Len(b.leafs) = Len(a.leafs) + 1
      /\ \A y : y \in Pending(b) <=> y \in Pending(a) \/ y \in Len(a.leafs) .. Len(a.leafs) + 1 - 1
  <2>1. a.top + 1 <= N
    BY <1>1, <1>2
  <2> QED
    BY <1>2, <2>1, NewLocalOk
<1>4. /\ IsStack(d, z, N) /\ Grows(b, d) /\ d.first = b.first /\ d.top = b.top + 1
      /\ Len(d.leafs) = Len(b.leafs) + 1
      /\ \A y : y \in Pending(d) <=> y \in Pending(b) \/ y \in Len(b.leafs) .. Len(b.leafs) + 1 - 1
  <2>1. b.top + 1 <= N
    BY <1>1, <1>2, <1>3
  <2> QED
    BY <1>3, <2>1, NewLocalOk
<1>5. \A y : y \in Pending(s) \/ y = Len(s.leafs) \/ y = Len(s.leafs) + 1 => y \in Pending(b) /\ y \in Pending(d)
  <2> SUFFICES ASSUME NEW y, y \in Pending(s) \/ y = Len(s.leafs) \/ y = Len(s.leafs) + 1
               PROVE  y \in Pending(b) /\ y \in Pending(d)
    OBVIOUS
  <2>1. y \in Pending(s) \/ y \in Len(s.leafs) .. Len(s.leafs) + 2 - 1
    BY <1>1
  <2>2. y \in Pending(a)
    BY <1>2, <2>1
  <2>3. y \in Pending(b)
    BY <1>3, <2>2
  <2> QED
    BY <1>4, <2>3
<1>6. Extends(s.leafs, d.leafs) /\ Extends(a.leafs, d.leafs)
  <2>1. Extends(s.leafs, a.leafs) /\ Extends(a.leafs, b.leafs) /\ Extends(b.leafs, d.leafs)
    BY <1>2, <1>3, <1>4 DEF Grows
  <2>2. Len(a.leafs) \in Nat /\ Len(b.leafs) \in Nat /\ Len(d.leafs) \in Nat
    BY <1>2, <1>3, <1>4, StackFacts
  <2>3. Extends(a.leafs, d.leafs)
    BY <2>1, <2>2, ExtendsFurther
  <2> QED
    BY <1>1, <2>1, <2>2, <2>3, ExtendsFurther
<1>7. \A y \in Bits(s) : y \in Pending(d) <=> y \in Pending(s)
  <2> SUFFICES ASSUME NEW y \in Bits(s) PROVE y \in Pending(d) <=> y \in Pending(s)
    OBVIOUS
  <2>1. y \in Nat /\ y < Len(s.leafs) /\ Len(s.leafs) \in Nat
        /\ Len(a.leafs) = Len(s.leafs) + 2 /\ Len(b.leafs) = Len(a.leafs) + 1
    <3>1. y \in Nat /\ y < Len(s.leafs) /\ Len(s.leafs) \in Nat
      BY <1>1
    <3>2. Len(a.leafs) = Len(s.leafs) + 2
      BY <1>2
    <3>3. Len(b.leafs) = Len(a.leafs) + 1
      BY <1>3
    <3> QED
      BY <3>1, <3>2, <3>3
  <2>2. y \in Pending(a) <=> y \in Pending(s)
    BY <1>1, <1>2, <2>1
  <2>3. y \in Pending(b) <=> y \in Pending(a)
    BY <1>3, <2>1
  <2>4. y \in Pending(d) <=> y \in Pending(b)
    BY <1>4, <2>1
  <2> QED
    BY <2>2, <2>3, <2>4
<1>8. Grows(s, d)
  BY <1>1, <1>2, <1>3, <1>4, <1>6, <1>7 DEF Grows
<1>9. LocalOk(x, d)
  <2>1. x.lo + x.n <= Len(d.leafs) /\ \A y \in x.lo .. x.lo + x.n - 1 : y \in Pending(d)
    BY <1>1, <1>2, <1>3, <1>4, <1>5
  <2>2. \A i \in 1 .. x.n : SlotAt(d.leafs, x.lo + x.n - i) = SlotAt(a.leafs, x.lo + x.n - i)
    BY <1>1, <1>2, <1>6 DEF Extends
  <2> QED
    BY <1>2, <2>1, <2>2 DEF LocalOk
<1> QED
  BY <1>1, <1>2, <1>3, <1>4, <1>5, <1>8, <1>9 DEF Pair

FieldInit(b, x, i) == << Call(b, b.top - 1, {}, TRUE), Copy(Field(x, i).slot, b.top - 1, 1),
                         Ranged("LocalInit", Field(x, i).lo, Field(x, i).lo) >>

(* The code for a field has no hole. *)
LEMMA FieldInitShape ==
  ASSUME NEW b, NEW x, NEW i
  PROVE  IsSeq(FieldInit(b, x, i)) /\ NoHole(FieldInit(b, x, i))
<1>1. IsSeq(FieldInit(b, x, i)) /\ Len(FieldInit(b, x, i)) = 3
  BY Literals DEF FieldInit
<1>2. \A k \in 1 .. 3 : FieldInit(b, x, i)[k].op # "Skipped"
  BY DEF FieldInit, Call, Copy, Ranged
<1> QED
  BY <1>1, <1>2 DEF NoHole

(* The code for the two fields. *)
LEMMA PairFields ==
  ASSUME NEW b, NEW x, x.n = 2, x.lo \in Nat, x.slot \in Nat, b.top \in Nat, NEW e, b.top = e + 1, e \in Nat
  PROVE  /\ FieldInit(b, x, 1) = << Call(b, e, {}, TRUE), Copy(x.slot, e, 1), Ranged("LocalInit", x.lo + 1, x.lo + 1) >>
         /\ FieldInit(b, x, 2) = << Call(b, e, {}, TRUE), Copy(x.slot + 1, e, 1), Ranged("LocalInit", x.lo, x.lo) >>
<1>1. b.top - 1 = e
  OBVIOUS
<1>2. Field(x, 1).slot = x.slot /\ Field(x, 1).lo = x.lo + 1 /\ Field(x, 2).slot = x.slot + 1 /\ Field(x, 2).lo = x.lo
  BY DEF Field
<1> QED
  BY <1>1, <1>2 DEF FieldInit

(* `let x = (f(), f());` *)
LEMMA LetPairStep ==
  ASSUME NEW R, NEW c, NEW s, NEW ls, NEW bs, NEW f, NEW z, NEW N, NEW W, Compiling(R, c, s, ls, bs, f, z, N, W),
         f.reach, 2 < W, NEW x, NEW b, NEW d, Pair(s, x, b, d, z, N)
  PROVE  \E Q : Compiling(Q, c \o (FieldInit(b, x, 1) \o FieldInit(d, x, 2)), d, Append(ls, x), bs,
                          Inited(f, BitsOf(PlaceOf(x))), z, N, W)
<1> DEFINE D == BitsOf(PlaceOf(x))
           g == Inited(f, D)
           l == d.leafs
           ch == FieldInit(b, x, 1) \o FieldInit(d, x, 2)
           n == Len(s.leafs)
           m == s.top
<1>1. /\ IsStack(s, z, N) /\ LocalsOk(ls, s, W) /\ IsFlow(f) /\ f.may \subseteq Pending(s) /\ Scoped(s, ls, bs, f, z, N, W)
      /\ n \in Nat /\ f.must \subseteq f.may /\ W \in Nat /\ IsSeq(c)
  BY CompilingFacts
<1>2. /\ IsStack(d, z, N) /\ Grows(s, d) /\ d.first = s.first /\ d.top = m + 4
      /\ LocalOk(x, d) /\ x.slot = m /\ x.lo = n /\ x.n = 2 /\ b.top = m + 3
      /\ \A y : y \in Pending(s) \/ y = n \/ y = n + 1 => y \in Pending(b) /\ y \in Pending(d)
  BY DEF Pair
<1>3. /\ Bits(s) = 0 .. n - 1 /\ Pending(s) \subseteq Bits(s) /\ m \in Nat /\ N \in Nat
      /\ \A y \in Pending(s) : y \in Nat /\ y < n /\ SlotAt(s.leafs, y) < m
  BY <1>1, StackFacts
<1>4. Len(l) \in Nat /\ d.top <= N
  BY <1>2, StackFacts
<1>5. LocalsOk(Append(ls, x), d, W) /\ LocalsGrow(ls, Append(ls, x), Len(s.leafs))
  BY <1>1, <1>2, <1>4, LocalAdded
<1>6. D \subseteq Nat /\ \A y : y \in D <=> y = n \/ y = n + 1
  BY <1>1, <1>2 DEF BitsOf, PlaceOf
<1>7. FlowIs(g, f, D, {})
  BY <1>1, <1>6, FlowOps
<1> HIDE DEF g, D
<1>8. IsFlow(g) /\ g.reach /\ g.must = f.must \cup D /\ g.may = f.may \cup D
  BY <1>7 DEF FlowIs
<1>9. g.may \subseteq Pending(d)
  BY <1>1, <1>2, <1>6, <1>8
<1>10. \A k \in 1 .. Len(bs) : Fits(g, bs[k], ls)
  <2>1. g.may \subseteq f.may \cup D
    BY <1>8
  <2>2. \A y \in D : y \in Nat /\ (y >= Len(s.leafs) \/ \E k \in 1 .. Len(ls) : ls[k].lo <= y /\ y < ls[k].lo + ls[k].n)
    BY <1>1, <1>6
  <2> QED
    BY <1>1, <2>1, <2>2, FlowFits
<1>11. SlotAt(l, n) = m + 1 /\ SlotAt(l, n + 1) = m
  BY <1>2, LocalSlots
<1>12. Frame(l, z, N, Pending(d))
  BY <1>2, StackFrame
<1>13. m + 2 \in 0 .. N - 1 /\ m + 3 \in 0 .. N - 1
  BY <1>2, <1>3, <1>4
<1>14. /\ FieldInit(b, x, 1) = << Call(b, m + 2, {}, TRUE), Copy(SlotAt(l, n + 1), m + 2, 1), Ranged("LocalInit", n + 1, n + 1) >>
       /\ FieldInit(d, x, 2) = << Call(d, m + 3, {}, TRUE), Copy(SlotAt(l, n), m + 3, 1), Ranged("LocalInit", n, n) >>
  <2>1. b.top = (m + 2) + 1 /\ d.top = (m + 3) + 1 /\ m + 2 \in Nat /\ m + 3 \in Nat /\ b.top \in Nat /\ d.top \in Nat
    BY <1>2, <1>3
  <2> DEFINE e1 == m + 2
             e2 == m + 3
  <2> HIDE DEF e1, e2
  <2>2. FieldInit(b, x, 1) = << Call(b, e1, {}, TRUE), Copy(x.slot, e1, 1), Ranged("LocalInit", x.lo + 1, x.lo + 1) >>
    BY <1>1, <1>2, <1>3, <2>1, PairFields DEF e1
  <2>3. FieldInit(d, x, 2) = << Call(d, e2, {}, TRUE), Copy(x.slot + 1, e2, 1), Ranged("LocalInit", x.lo, x.lo) >>
    BY <1>1, <1>2, <1>3, <2>1, PairFields DEF e2
  <2> QED
    BY <1>2, <1>11, <2>2, <2>3 DEF e1, e2
<1>15. Steps(ch, l, N, f, g)
  <2> SUFFICES ASSUME NEW F, F \subseteq 0 .. Len(l) - 1, Apart(l, F), f.must \subseteq F, F \subseteq f.may
               PROVE  \E G : Runs(ch, l, N, Settled(l, F), Settled(l, G)) /\ g.must \subseteq G /\ G \subseteq g.may
    BY DEF Steps
  <2> DEFINE H == F \cup {n + 1}
             G == H \cup {n}
             n1 == n + 1
  <2>1. F \subseteq Pending(s)
    BY <1>1
  <2>2. Added(F, n1, H, Pending(d))
    BY <1>1, <1>2, <1>3, <2>1 DEF Added
  <2>3. Added(H, n, G, Pending(d))
    <3>1. n \notin H /\ n \in Pending(d)
      BY <1>1, <1>2, <1>3, <2>1
    <3>2. H \subseteq Pending(d)
      BY <1>2, <2>1
    <3> QED
      BY <3>1, <3>2 DEF Added
  <2>4. g.must \subseteq G /\ G \subseteq g.may
    BY <1>6, <1>8
  <2>5. \A y \in F : SlotAt(l, y) < m
    BY <1>2, <1>3, <2>1 DEF Grows, Extends
  <2>6. \A y \in H : SlotAt(l, y) <= m
    BY <1>11, <1>12, <1>3, <2>2, <2>5 DEF Frame, Slotted, Added
  <2>7. F \subseteq Pending(b) /\ H \subseteq Pending(d)
    BY <1>2, <2>1
  <2> HIDE DEF G, H
  <2>8. Below(l, F, m + 2)
    BY <1>2, <1>3, <1>12, <2>2, <2>5 DEF Below, SlotsOf, Frame, Slotted, Added
  <2>9. Below(l, H, m + 3)
    <3>1. \A y \in H : SlotAt(l, y) \in Nat
      BY <1>12, <2>3 DEF Frame, Slotted, Added
    <3>2. \A y \in H : SlotAt(l, y) < m + 3
      BY <1>3, <2>6, <3>1
    <3> QED
      BY <3>2 DEF Below, SlotsOf
  <2> DEFINE e1 == m + 2
             e2 == m + 3
  <2>10. e1 \in 0 .. N - 1 /\ e2 \in 0 .. N - 1 /\ SlotAt(l, n1) # e1 /\ SlotAt(l, n) # e2
    BY <1>3, <1>11, <1>13
  <2>11. Below(l, F, e1) /\ Below(l, H, e2)
    BY <2>8, <2>9
  <2> HIDE DEF e1, e2, n1, l
  <2>12. Runs(<<Call(b, e1, {}, TRUE), Copy(SlotAt(l, n1), e1, 1), Ranged("LocalInit", n1, n1)>>, l, N,
              Settled(l, F), Settled(l, H))
    BY <1>12, <2>2, <2>7, <2>10, <2>11, FieldRun
  <2>13. Runs(<<Call(d, e2, {}, TRUE), Copy(SlotAt(l, n), e2, 1), Ranged("LocalInit", n, n)>>, l, N,
              Settled(l, H), Settled(l, G))
    BY <1>12, <2>3, <2>7, <2>10, <2>11, FieldRun
  <2>14. Runs(FieldInit(b, x, 1), l, N, Settled(l, F), Settled(l, H)) /\ Runs(FieldInit(d, x, 2), l, N, Settled(l, H), Settled(l, G))
    BY <1>14, <2>12, <2>13 DEF e1, e2, n1
  <2>15. Runs(ch, l, N, Settled(l, F), Settled(l, G))
    BY <2>14, FieldInitShape, RunsConcat
  <2> QED
    BY <2>4, <2>15
<1>16. IsSeq(ch) /\ NoHole(ch)
  BY FieldInitShape, ConcatHoles
<1>17. \E Q : Compiling(Q, c \o ch, d, Append(ls, x), bs, g, z, N, W)
  BY <1>1, <1>2, <1>5, <1>8, <1>9, <1>10, <1>15, <1>16, EmitStep
<1> QED
  BY <1>17 DEF g, D

(* Block b is opened at stack s, the body starting at stack u. *)
Opened(b, s, u, ls, f) ==
  /\ IsBlock(b) /\ b.stmt.first = s.first /\ b.stmt.top = s.top /\ b.scope.top = u.top
  /\ b.scope.first = IF b.kind = "letloop" THEN s.first ELSE Len(s.leafs)
  /\ b.kind = "letloop" => u.top = s.top + 1
  /\ b.nlocals = Len(ls) /\ b.nbits = Len(s.leafs) /\ b.entry = f /\ b.exit = Unreachable /\ b.breaks = {}

(* The body starts with the drop bits of stack s and the free slots from t on.  *)
BodyAt(s, u, t) == Trimmed(s, u, t, Len(s.leafs), {}) /\ t \in Nat /\ s.top <= t
OfLocals(ls, y) == \E i \in 1 .. Len(ls) : ls[i].lo <= y /\ y < ls[i].lo + ls[i].n

(* Flow g is f with more bits of locals possibly initialised. *)
Loosened(g, f, ls) == IsFlow(g) /\ \A y \in g.may : y \in f.may \/ OfLocals(ls, y)

(* The bits of locals in scope are pending. *)
LEMMA LocalPending ==
  ASSUME NEW ls, NEW s, NEW W, LocalsOk(ls, s, W), NEW y \in Nat, OfLocals(ls, y)
  PROVE  y \in Pending(s)
<1>1. PICK i \in 1 .. Len(ls) : ls[i].lo <= y /\ y < ls[i].lo + ls[i].n
  BY DEF OfLocals
<1>2. LocalOk(ls[i], s)
  BY <1>1 DEF LocalsOk
<1>3. ls[i].lo \in Nat /\ ls[i].n \in 1 .. 2 /\ \A b \in ls[i].lo .. ls[i].lo + ls[i].n - 1 : b \in Pending(s)
  BY <1>2, LocalSlots
<1>4. y \in ls[i].lo .. ls[i].lo + ls[i].n - 1
  BY <1>1, <1>3
<1> QED
  BY <1>3, <1>4

(* Scopes stay well formed when a block is opened. *)
LEMMA OpenScoped ==
  ASSUME NEW s, NEW ls, NEW bs, NEW f, NEW z, NEW N, NEW W, Scoped(s, ls, bs, f, z, N, W), f.reach,
         NEW u, NEW t, BodyAt(s, u, t), t <= N,
         NEW b, Opened(b, s, u, ls, f), b.kind \in {"block", "then", "loop", "letloop"},
         NEW g, Loosened(g, f, ls)
  PROVE  Scoped(u, ls, Append(bs, b), g, z, N, W) /\ IsStack(u, z, N) /\ u.leafs = s.leafs
<1> DEFINE n == Len(s.leafs)
<1>1. /\ IsStack(s, z, N) /\ LocalsOk(ls, s, W) /\ IsFlow(f) /\ f.may \subseteq Pending(s) /\ IsSeq(ls) /\ Len(ls) \in Nat
  BY BlockFacts
<1>2. /\ z \in Nat /\ N \in Nat /\ n \in Nat /\ s.top \in Nat /\ s.top >= z /\ s.top <= N
      /\ s.first \in Nat /\ s.first <= n
      /\ Bits(s) = 0 .. n - 1 /\ Pending(s) \subseteq Bits(s)
      /\ \A y \in Pending(s) : y \in Nat /\ y < n /\ SlotAt(s.leafs, y) < s.top
  BY <1>1, StackFacts
<1>15. t \in Nat /\ s.top <= t /\ Trimmed(s, u, t, n, {})
  BY DEF BodyAt
<1>16. IsFlow(g) /\ \A y \in g.may : y \in f.may \/ OfLocals(ls, y)
  BY DEF Loosened
<1>3. /\ IsStack(u, z, N) /\ u.leafs = s.leafs /\ u.top = t /\ u.first = n
      /\ \A y : y \in Pending(u) <=> y \in Pending(s)
  <2> DEFINE X == {}
  <2>1. t \in z .. N /\ n \in 0 .. n /\ X \subseteq Bits(s) /\ \A y : y \notin X
    BY <1>2, <1>15
  <2>2. Trimmed(s, u, t, n, X)
    BY <1>15
  <2> HIDE DEF X
  <2>3. \A y \in Pending(s) : y \in X \/ SlotAt(s.leafs, y) < t
    <3> SUFFICES ASSUME NEW y \in Pending(s) PROVE SlotAt(s.leafs, y) < t
      OBVIOUS
    <3>1. y \in Bits(s) /\ SlotAt(s.leafs, y) < s.top
      BY <1>2
    <3>2. SlotAt(s.leafs, y) \in z .. N - 1
      BY <1>1, <3>1, StackFacts
    <3> QED
      BY <1>2, <1>15, <3>1, <3>2
  <2>4. /\ IsStack(u, z, N) /\ u.leafs = s.leafs /\ u.top = t /\ u.first = n
        /\ \A y : y \in Pending(u) <=> y \in Pending(s) /\ y \notin X
    BY <1>1, <2>1, <2>2, <2>3, TrimmedOk
  <2> QED
    BY <2>1, <2>4
<1>4. Extends(s.leafs, u.leafs)
  BY <1>2, <1>3, ExtendsItself
<1>5. Grows(s, u)
  BY <1>3, <1>4, <1>15 DEF Grows
<1>6. LocalsOk(ls, u, W) /\ LocalsGrow(ls, ls, Len(s.leafs))
  BY <1>1, <1>2, <1>3, <1>5, LocalsKept
<1>7. /\ IsBlock(b) /\ b.stmt.first = s.first /\ b.stmt.top = s.top /\ b.scope.top = t
      /\ b.nlocals = Len(ls) /\ b.nbits = n /\ b.entry = f /\ b.exit = Unreachable
      /\ b.scope.first <= n
      /\ b.kind = "letloop" => b.scope.first = b.stmt.first /\ b.scope.top = b.stmt.top + 1
      /\ b.kind # "letloop" => b.scope.first = n
  BY <1>2, <1>3 DEF Opened
<1>8. \A y \in g.may : y \in Nat
  BY <1>16 DEF IsFlow
<1>9. \A y \in g.may : y \in Pending(s)
  BY <1>1, <1>8, <1>16, LocalPending
<1>10. \A k \in 1 .. Len(bs) : Fits(g, bs[k], ls)
  <2> DEFINE D == {y \in Nat : OfLocals(ls, y)}
  <2>1. g.may \subseteq f.may \cup D
    BY <1>8, <1>16
  <2>2. \A y \in D : y \in Nat /\ (y >= Len(s.leafs) \/ \E k \in 1 .. Len(ls) : ls[k].lo <= y /\ y < ls[k].lo + ls[k].n)
    BY DEF OfLocals
  <2> HIDE DEF D
  <2> QED
    BY <2>1, <2>2, FlowFits
<1>11. Fits(g, b, ls)
  BY <1>7, <1>16 DEF Fits, Knows, OfLocals
<1>12. Nested(b, u.first, u.top, u, ls, z)
  <2>1. /\ u.first = n /\ u.top = t /\ n \in Nat /\ t \in Nat /\ b.stmt.first <= b.nbits /\ b.nbits <= n /\ n <= Len(u.leafs)
        /\ z <= b.stmt.top /\ b.stmt.top <= b.scope.top /\ b.scope.top <= t
    BY <1>2, <1>3, <1>7, <1>15
  <2>2. \A x \in Pending(u) : /\ x < n => /\ SlotAt(u.leafs, x) < b.scope.top
                                          /\ b.kind \notin {"match", "guarded"} => x < b.nbits
                              /\ x < b.nbits => SlotAt(u.leafs, x) < b.stmt.top
    <3> SUFFICES ASSUME NEW x \in Pending(u)
                 PROVE  SlotAt(u.leafs, x) < t /\ x < n /\ SlotAt(u.leafs, x) < s.top
      BY <1>7
    <3>1. x \in Pending(s) /\ x < n /\ SlotAt(u.leafs, x) < s.top
      BY <1>2, <1>3
    <3>2. SlotAt(u.leafs, x) < t
      BY <1>3, StackFacts
    <3> QED
      BY <3>1, <3>2
  <2>3. \A j \in 1 .. Len(ls) : IF j <= b.nlocals THEN ls[j].lo + ls[j].n <= b.nbits ELSE b.nbits <= ls[j].lo
    BY <1>1, <1>7, LocalSlots DEF LocalsOk
  <2>4. \A y \in b.entry.may \cup b.exit.may : y < b.nbits /\ y \in Pending(u)
    BY <1>1, <1>2, <1>3, <1>7 DEF Unreachable
  <2>5. b.nlocals <= Len(ls) /\ b.entry.reach /\ b.scope.first <= b.nbits
    BY <1>1, <1>7
  <2>6. b.kind \notin {"letloop", "void", "returns"} => b.scope.first = b.nbits
    BY <1>7
  <2> QED
    BY <1>7, <2>1, <2>2, <2>3, <2>4, <2>5, <2>6 DEF Nested
<1>13. b.kind \notin Bottom
  BY DEF Bottom
<1>14. g.may \subseteq Pending(u)
  BY <1>3, <1>9
<1> QED
  BY <1>3, <1>5, <1>6, <1>7, <1>10, <1>11, <1>12, <1>13, <1>14, <1>16, ScopedOpen

(* Append as a concatenation. *)
LEMMA AppendConcat ==
  ASSUME NEW q, IsSeq(q), NEW e
  PROVE  Append(q, e) = q \o <<e>> /\ IsSeq(<<e>>) /\ Len(<<e>>) = 1 /\ Len(Append(q, e)) = Len(q) + 1
<1>1. IsSeq(<<e>>) /\ Len(<<e>>) = 1 /\ <<e>>[1] = e
  BY Literals
<1>2. /\ IsSeq(Append(q, e)) /\ Len(Append(q, e)) = Len(q) + 1 /\ Len(q) \in Nat
      /\ \A k \in 1 .. Len(q) : Append(q, e)[k] = q[k]
      /\ Append(q, e)[Len(q) + 1] = e
  BY IsSeqFacts
<1> DEFINE w == <<e>>
<1>3. IsSeq(w) /\ Len(w) = 1 /\ w[1] = e
  BY <1>1
<1> HIDE DEF w
<1>8. IsSeq(w)
  BY <1>3
<1>4. /\ IsSeq(q \o w) /\ Len(q \o w) = Len(q) + Len(w)
      /\ \A k \in 1 .. Len(q) : (q \o w)[k] = q[k]
      /\ \A k \in 1 .. Len(w) : (q \o w)[Len(q) + k] = w[k]
  BY <1>8, IsSeqConcat
<1>5. (q \o w)[Len(q) + 1] = e
  BY <1>3, <1>4
<1>6. \A k \in 1 .. Len(q) + 1 : Append(q, e)[k] = (q \o w)[k]
  <2> TAKE k \in 1 .. Len(q) + 1
  <2>1. CASE k = Len(q) + 1
    BY <2>1, <1>2, <1>5
  <2>2. CASE k # Len(q) + 1
    <3>1. k \in 1 .. Len(q)
      BY <1>2, <2>2
    <3> QED
      BY <3>1, <1>2, <1>4
  <2> QED
    BY <2>1, <2>2
<1>7. Append(q, e) = q \o w
  BY <1>2, <1>3, <1>4, <1>6, SameSeq
<1> QED
  BY <1>1, <1>2, <1>7 DEF w

(* A placeholder leads nowhere. *)
LEMMA SkippedSafe ==
  ASSUME NEW R, NEW n, NEW l
  PROVE  LeadsBack(R, Skipped, n, l) /\ Skipped.op = "Skipped"
<1>1. Skipped.op = "Skipped"
  BY DEF Skipped
<1>2. \A s : Safe(Skipped, l, s)
  BY <1>1 DEF Safe
<1>3. Nexts(Skipped, n) = {}
  BY <1>1 DEF Nexts
<1> QED
  BY <1>1, <1>2, <1>3 DEF LeadsBack

(* A hole, which falls through. *)
LEMMA TracedHole ==
  ASSUME NEW R, NEW c, NEW l, NEW z, NEW N, NEW bs, NEW ls, NEW E, Traced(R, c, l, z, N, bs, ls, E),
         NEW D, E \subseteq D, Len(c) \in D
  PROVE  /\ Len(Append(c, Skipped)) = Len(c) + 1 /\ IsSeq(Append(c, Skipped))
         /\ \E Q : /\ Traced(Q, Append(c, Skipped), l, z, N, bs, ls, D)
                   /\ \A k \in 0 .. Len(c) : Q[k] = R[k]
                   /\ Q[Len(c) + 1] = R[Len(c)]
<1> DEFINE Y == R[Len(c)]
           e == Skipped
<1>1. IsSeq(c) /\ Len(c) \in Nat /\ R \in [Nat -> SUBSET State(l, N)]
  BY TracedFacts
<1>2. Y \in SUBSET State(l, N)
  BY <1>1
<1>7. Y = R[Len(c)]
  OBVIOUS
<1>3. LeadsBack(R, e, Len(c), l) /\ Opens(D, E, c, e)
  BY SkippedSafe DEF Opens
<1> HIDE DEF Y, e
<1>8. /\ Len(Append(c, e)) = Len(c) + 1 /\ IsSeq(Append(c, e))
      /\ \E Q : Traced(Q, Append(c, e), l, z, N, bs, ls, D) /\ Starts(R, Q, Len(c), Y)
  BY <1>2, <1>3, TracedOne
<1>4. PICK Q : Traced(Q, Append(c, e), l, z, N, bs, ls, D) /\ Starts(R, Q, Len(c), Y)
  BY <1>8
<1>5. (\A k \in 0 .. Len(c) : Q[k] = R[k]) /\ Q[Len(c) + 1] = R[Len(c)]
  BY <1>4, <1>7 DEF Starts
<1> QED
  BY <1>4, <1>5, <1>8 DEF e

(* A condition is stored in slot d and tested. *)
Test(d) == << Const(d), Skipped >>

OpensAt(D, E, n) == E \subseteq D /\ n \in D

(* The states before and after the test at the end n of the code. *)
Forks(R, Q, l, f, n) ==
  Keeps(R, Q, n) /\ Q[n + 1] \subseteq Q[n + 2] /\ \A t \in Q[n + 1] \cup Q[n + 2] : Arrives(l, f, t)

(* A condition and its JumpF, which is still to be filled in. *)
LEMMA TestStep ==
  ASSUME NEW R, NEW c, NEW l, NEW z, NEW N, NEW bs, NEW ls, NEW E, Traced(R, c, l, z, N, bs, ls, E),
         Slotted(l, z, N), NEW f, \A t \in R[Len(c)] : Arrives(l, f, t),
         NEW d, d \notin SlotsOf(l, f.may), NEW D, OpensAt(D, E, Len(c) + 1)
  PROVE  /\ Len(c \o Test(d)) = Len(c) + 2
         /\ \E Q : Traced(Q, c \o Test(d), l, z, N, bs, ls, D) /\ Forks(R, Q, l, f, Len(c))
<1> USE DEF Forks
<1> DEFINE X == {t \in State(l, N) : Arrives(l, f, t)}
           a == <<Const(d)>>
<1>1. IsSeq(c) /\ Len(c) \in Nat /\ R \in [Nat -> SUBSET State(l, N)]
  BY TracedFacts
<1>2. IsSeq(a) /\ Len(a) = 1 /\ \A k \in 1 .. Len(a) : a[k].op # "Skipped"
  BY Literals DEF Const
<1>3. \A s \in R[Len(c)] : \E t \in X : Runs(a, l, N, s, t)
  <2> SUFFICES ASSUME NEW s \in R[Len(c)] PROVE \E t \in X : Runs(a, l, N, s, t)
    OBVIOUS
  <2>1. s \in State(l, N) /\ Arrives(l, f, s)
    BY <1>1
  <2>2. PICK F : s = Settled(l, F) /\ F \subseteq f.may
    BY <2>1 DEF Arrives
  <2>3. d \notin SlotsOf(l, F)
    BY <2>2 DEF SlotsOf
  <2>4. Runs(a, l, N, Settled(l, F), Settled(l, F))
    BY <2>1, <2>2, <2>3, ConstRun
  <2> QED
    BY <2>1, <2>2, <2>4
<1> HIDE DEF X, a
<1>4. PICK P : Traced(P, c \o a, l, z, N, bs, ls, E) /\ Keeps(R, P, Len(c)) /\ P[Len(c \o a)] \subseteq X
  BY <1>2, <1>3, TracedRuns
<1>5. IsSeq(c \o a) /\ Len(c \o a) = Len(c) + Len(a)
  <2>1. IsSeq(a)
    BY <1>2
  <2> QED
    BY <1>1, <2>1, IsSeqConcat
<1> DEFINE b == c \o a
           n == Len(b)
<1>6. n = Len(c) + 1 /\ n \in Nat
  BY <1>1, <1>2, <1>5
<1>7. Traced(P, b, l, z, N, bs, ls, E) /\ Keeps(R, P, Len(c)) /\ \A t \in P[n] : Arrives(l, f, t)
  BY <1>4 DEF X
<1>8. n \in D /\ E \subseteq D
  BY <1>6 DEF OpensAt
<1> HIDE DEF b
<1>10. /\ Len(Append(b, Skipped)) = n + 1
       /\ \E Q : /\ Traced(Q, Append(b, Skipped), l, z, N, bs, ls, D)
                 /\ \A k \in 0 .. n : Q[k] = P[k]
                 /\ Q[n + 1] = P[n]
  BY <1>7, <1>8, TracedHole
<1>9. PICK Q : /\ Traced(Q, Append(b, Skipped), l, z, N, bs, ls, D)
               /\ \A k \in 0 .. n : Q[k] = P[k]
               /\ Q[n + 1] = P[n]
  BY <1>10
<1> HIDE DEF n
<1>11. Append(b, Skipped) = c \o Test(d)
  <2>1. Append(c \o a, Skipped) = (c \o a) \o <<Skipped>> /\ IsSeq(<<Skipped>>)
    BY <1>5, AppendConcat
  <2>2. (c \o a) \o <<Skipped>> = c \o (a \o <<Skipped>>)
    BY <1>1, <1>2, <2>1, ConcatAssoc
  <2>3. Test(d) = a \o <<Skipped>>
    BY Literals DEF Test, a
  <2> QED
    BY <2>1, <2>2, <2>3 DEF b
<1>12. Q[Len(c) + 1] = P[n] /\ Q[Len(c) + 2] = P[n] /\ Keeps(R, Q, Len(c))
  <2>1. n \in 0 .. n /\ n + 1 = Len(c) + 2 /\ \A k \in 0 .. Len(c) : k \in 0 .. n
    BY <1>1, <1>6
  <2>2. \A k \in 0 .. Len(c) : Q[k] = P[k]
    BY <1>9, <2>1
  <2>3. Len(c) \in 0 .. Len(c) /\ \A k \in 0 .. Len(c) - 1 : k \in 0 .. Len(c)
    BY <1>1
  <2>4. Keeps(R, Q, Len(c))
    BY <1>7, <2>2, <2>3 DEF Keeps
  <2> QED
    BY <1>6, <1>9, <2>1, <2>4
<1>13. Len(c \o Test(d)) = Len(c) + 2
  BY <1>1, <1>6, <1>10, <1>11
<1> QED
  BY <1>7, <1>9, <1>11, <1>12, <1>13

(* `{` *)
LEMMA OpenBlockStep ==
  ASSUME NEW R, NEW c, NEW s, NEW ls, NEW bs, NEW f, NEW z, NEW N, NEW W, Compiling(R, c, s, ls, bs, f, z, N, W),
         f.reach, NEW u, BodyAt(s, u, s.top),
         NEW b, Opened(b, s, u, ls, f), b.kind = "block", b.start = 0
  PROVE  \E Q : Compiling(Q, c, u, ls, Append(bs, b), f, z, N, W)
<1>1. /\ Scoped(s, ls, bs, f, z, N, W) /\ Traced(R, c, s.leafs, z, N, bs, ls, {}) /\ W \in Nat
      /\ \A t \in R[Len(c)] : Arrives(s.leafs, f, t)
      /\ IsStack(s, z, N) /\ IsFlow(f) /\ Len(c) \in Nat /\ Len(s.leafs) \in Nat
  BY CompilingFacts
<1>2. s.top \in Nat /\ s.top <= s.top /\ s.top <= N
  BY <1>1, StackFacts
<1>3. Scoped(u, ls, Append(bs, b), f, z, N, W) /\ u.leafs = s.leafs
  <2>1. Loosened(f, f, ls)
    BY <1>1 DEF Loosened
  <2> QED
    BY <1>1, <1>2, <2>1, OpenScoped
<1>4. Holes(b) = {}
  BY DEF Holes, Falls, Exits
<1>5. HoleOk(R, s.leafs, b, ls)
  BY DEF HoleOk, Falls, Exits
<1>6. Placed(b, Len(c)) /\ b.nbits <= Len(s.leafs) /\ b.nbits \in Nat /\ IsSeq(bs)
  BY <1>1, <1>4, BlockFacts DEF Placed, Opened
<1> DEFINE E0 == {}
<1>7. E0 \subseteq E0 \cup Holes(b) /\ Traced(R, c, s.leafs, z, N, bs, ls, E0)
  BY <1>1
<1> HIDE DEF E0
<1>8. Traced(R, c, s.leafs, z, N, Append(bs, b), ls, E0)
  BY <1>5, <1>6, <1>7, TracedOpen
<1> QED
  BY <1>1, <1>3, <1>8 DEF Compiling, E0

(* `if c {` *)
LEMMA OpenThenStep ==
  ASSUME NEW R, NEW c, NEW s, NEW ls, NEW bs, NEW f, NEW z, NEW N, NEW W, Compiling(R, c, s, ls, bs, f, z, N, W),
         f.reach, s.top + 1 <= N, NEW u, BodyAt(s, u, s.top + 1),
         NEW b, Opened(b, s, u, ls, f), b.kind = "then", b.start = 0, b.patch = Len(c) + 1
  PROVE  \E Q : Compiling(Q, c \o Test(s.top), u, ls, Append(bs, b), f, z, N, W)
<1>1. /\ Scoped(s, ls, bs, f, z, N, W) /\ Traced(R, c, s.leafs, z, N, bs, ls, {}) /\ W \in Nat
      /\ \A t \in R[Len(c)] : Arrives(s.leafs, f, t)
      /\ IsStack(s, z, N) /\ IsFlow(f) /\ Len(c) \in Nat /\ Len(s.leafs) \in Nat /\ f.may \subseteq Pending(s)
  BY CompilingFacts
<1>2. s.top \in Nat /\ s.top <= s.top + 1 /\ s.top <= N /\ s.top + 1 \in Nat
      /\ \A y \in Pending(s) : SlotAt(s.leafs, y) < s.top
  BY <1>1, StackFacts
<1>3. Scoped(u, ls, Append(bs, b), f, z, N, W) /\ u.leafs = s.leafs
  <2>1. Loosened(f, f, ls)
    BY <1>1 DEF Loosened
  <2> DEFINE k == s.top + 1
  <2>2. BodyAt(s, u, k) /\ k <= N
    OBVIOUS
  <2> HIDE DEF k
  <2> QED
    BY <1>1, <2>1, <2>2, OpenScoped
<1>4. Holes(b) = {Len(c) + 1} /\ Falls(b) = {b.patch} /\ Exits(b) = {}
  BY DEF Holes, Falls, Exits
<1> DEFINE E0 == {}
           D == {Len(c) + 1}
           d == s.top
           e == c \o Test(d)
           l == s.leafs
<1>5. OpensAt(D, E0, Len(c) + 1) /\ Traced(R, c, l, z, N, bs, ls, E0)
  BY <1>1 DEF OpensAt
<1>6. d \notin SlotsOf(l, f.may) /\ Slotted(l, z, N) /\ \A t \in R[Len(c)] : Arrives(l, f, t)
  BY <1>1, <1>2, StackFrame DEF SlotsOf
<1>7. D = Holes(b) /\ E0 = {}
  BY <1>4
<1>8. l = s.leafs
  OBVIOUS
<1> HIDE DEF E0, D, d, l
<1>9. /\ Len(e) = Len(c) + 2
      /\ \E Q : Traced(Q, e, l, z, N, bs, ls, D) /\ Forks(R, Q, l, f, Len(c))
  BY <1>5, <1>6, TestStep
<1>10. PICK Q : /\ Traced(Q, e, l, z, N, bs, ls, D) /\ Keeps(R, Q, Len(c))
                /\ Q[Len(c) + 1] \subseteq Q[Len(c) + 2]
                /\ \A t \in Q[Len(c) + 1] \cup Q[Len(c) + 2] : Arrives(l, f, t)
  BY <1>9 DEF Forks
<1> HIDE DEF e
<1>11. HoleOk(Q, l, b, ls)
  <2>1. b.entry = f /\ b.patch = Len(c) + 1 /\ b.patch + 1 = Len(c) + 2 /\ b.kind \notin {"guarded", "loop", "letloop"}
    BY <1>1 DEF Opened
  <2>2. \A t \in Q[b.patch] : Arrives(l, f, t) /\ Clean(l, t)
    BY <1>10, <2>1, ArrivesEnds
  <2> QED
    BY <1>4, <1>10, <2>1, <2>2 DEF HoleOk
<1>12. Placed(b, Len(e)) /\ b.nbits <= Len(l) /\ b.nbits \in Nat /\ IsSeq(bs)
  <2>1. Len(c) + 1 \in 0 .. Len(e) - 1 /\ 0 \in 0 .. Len(e)
    BY <1>1, <1>9
  <2> QED
    BY <1>1, <1>4, <1>8, <2>1, BlockFacts DEF Placed, Opened
<1>13. D \subseteq E0 \cup Holes(b)
  BY <1>7
<1>14. Traced(Q, e, l, z, N, Append(bs, b), ls, E0)
  BY <1>10, <1>11, <1>12, <1>13, TracedOpen
<1>15. \A t \in Q[Len(e)] : Arrives(l, f, t)
  BY <1>9, <1>10
<1>16. Compiling(Q, e, u, ls, Append(bs, b), f, z, N, W)
  BY <1>1, <1>3, <1>7, <1>8, <1>14, <1>15 DEF Compiling
<1> QED
  BY <1>16 DEF e, d

(* At the head of a loop any local may be initialised. *)
LoopFlow(g, f, ls) ==
  /\ IsFlow(g) /\ g.reach /\ g.must = f.must
  /\ \A y \in Nat : y \in g.may <=> y \in f.may \/ OfLocals(ls, y)

(* The flow at the head of a loop. *)
LEMMA LoopFlowOk ==
  ASSUME NEW f, IsFlow(f), f.reach, NEW ls, NEW s, NEW W, LocalsOk(ls, s, W)
  PROVE  LoopFlow([f EXCEPT !.may = @ \cup LocalBits(ls)], f, ls)
<1> DEFINE M == f.may \cup LocalBits(ls)
           g == [f EXCEPT !.may = M]
<1>1. f \in [reach : BOOLEAN, must : SUBSET Nat, may : SUBSET Nat] /\ f.must \subseteq f.may
  BY DEF IsFlow
<1>2. Len(ls) \in Nat /\ DOMAIN ls = 1 .. Len(ls)
  BY DEF LocalsOk, IsSeq
<1>3. \A i \in 1 .. Len(ls) : ls[i].lo \in Nat /\ ls[i].n \in 1 .. 2
  <2> TAKE i \in 1 .. Len(ls)
  <2>1. LocalOk(ls[i], s)
    BY DEF LocalsOk
  <2> QED
    BY <2>1, LocalSlots
<1>4. \A i \in 1 .. Len(ls) : BitsOf(PlaceOf(ls[i])) = ls[i].lo .. ls[i].lo + ls[i].n - 1
  BY DEF BitsOf, PlaceOf
<1>5. LocalBits(ls) \subseteq Nat
  BY <1>2, <1>3, <1>4 DEF LocalBits
<1>6. \A y \in Nat : y \in LocalBits(ls) <=> OfLocals(ls, y)
  <2> TAKE y \in Nat
  <2>1. y \in LocalBits(ls) <=> \E i \in 1 .. Len(ls) : y \in BitsOf(PlaceOf(ls[i]))
    BY <1>2 DEF LocalBits
  <2>2. \A i \in 1 .. Len(ls) : y \in BitsOf(PlaceOf(ls[i])) <=> ls[i].lo <= y /\ y < ls[i].lo + ls[i].n
    <3> TAKE i \in 1 .. Len(ls)
    <3>1. ls[i].lo \in Nat /\ ls[i].n \in Nat /\ BitsOf(PlaceOf(ls[i])) = ls[i].lo .. ls[i].lo + ls[i].n - 1
      BY <1>3, <1>4
    <3> DEFINE a == ls[i].lo
               m == ls[i].n
    <3>2. a \in Nat /\ m \in Nat
      BY <3>1
    <3> HIDE DEF a, m
    <3>3. y \in a .. a + m - 1 <=> a <= y /\ y < a + m
      BY <3>2
    <3> QED
      BY <3>1, <3>3 DEF a, m
  <2> QED
    BY <2>1, <2>2 DEF OfLocals
<1>7. M \subseteq Nat /\ f.must \subseteq M /\ \A y \in Nat : y \in M <=> y \in f.may \/ OfLocals(ls, y)
  BY <1>1, <1>5, <1>6
<1> HIDE DEF M
<1>8. g.reach = f.reach /\ g.must = f.must /\ g.may = M /\ g \in [reach : BOOLEAN, must : SUBSET Nat, may : SUBSET Nat]
  BY <1>1, <1>7
<1>9. LoopFlow(g, f, ls)
  BY <1>1, <1>7, <1>8 DEF LoopFlow, IsFlow
<1> QED
  BY <1>9 DEF M

(* All states that may come back are among those at the head of the loop. *)
LEMMA LoopWidens ==
  ASSUME NEW s, NEW ls, NEW bs, NEW f, NEW z, NEW N, NEW W, Scoped(s, ls, bs, f, z, N, W), f.reach,
         NEW b, b.entry = f, b.nbits = Len(s.leafs), b.nlocals = Len(ls), NEW g, LoopFlow(g, f, ls),
         NEW F, Heads(b, ls, F)
  PROVE  Arrives(s.leafs, g, Settled(s.leafs, F)) /\ Settled(s.leafs, F) \in State(s.leafs, N)
<1> DEFINE l == s.leafs
<1>1. IsStack(s, z, N) /\ LocalsOk(ls, s, W) /\ IsFlow(f) /\ f.may \subseteq Pending(s) /\ f.must \subseteq f.may
  BY BlockFacts DEF IsFlow
<1>2. Frame(l, z, N, Pending(s)) /\ Len(l) \in Nat /\ Slotted(l, z, N)
  BY <1>1, StackFrame
<1>3. F \subseteq 0 .. Len(l) - 1 /\ f.must \subseteq F /\ \A y \in F : y \in f.may \/ OfLocals(ls, y)
  BY DEF Heads, Knows, OfLocals
<1>4. \A y \in F : y \in Nat /\ y \in Pending(s) /\ y \in g.may
  <2> TAKE y \in F
  <2>1. y \in Nat
    BY <1>2, <1>3
  <2>2. y \in Pending(s)
    BY <1>1, <1>3, <2>1, LocalPending
  <2> QED
    BY <1>3, <2>1, <2>2 DEF LoopFlow
<1>5. Apart(l, F)
  BY <1>2, <1>4 DEF Frame, Apart
<1>6. Settled(l, F) \in State(l, N)
  <2>1. F \in SUBSET (0 .. Len(l) - 1)
    BY <1>3
  <2> DEFINE O == {}
  <2>2. O \in SUBSET (0 .. N - 1)
    OBVIOUS
  <2> HIDE DEF O
  <2> QED
    BY <1>2, <2>1, <2>2, HoldingState
<1> QED
  BY <1>3, <1>4, <1>5, <1>6 DEF Arrives, LoopFlow

(* `loop {`, `let m = loop {` *)
LEMMA OpenLoopStep ==
  ASSUME NEW R, NEW c, NEW s, NEW ls, NEW bs, NEW f, NEW z, NEW N, NEW W, Compiling(R, c, s, ls, bs, f, z, N, W),
         f.reach, NEW u, NEW k, BodyAt(s, u, k), k <= N,
         NEW b, Opened(b, s, u, ls, f), b.kind \in {"loop", "letloop"}, b.start = Len(c), NEW g, LoopFlow(g, f, ls)
  PROVE  \E Q : Compiling(Q, c, u, ls, Append(bs, b), g, z, N, W)
<1> DEFINE l == s.leafs
           X == {t \in State(l, N) : Arrives(l, g, t)}
<1>1. /\ Scoped(s, ls, bs, f, z, N, W) /\ Traced(R, c, l, z, N, bs, ls, {}) /\ W \in Nat
      /\ \A t \in R[Len(c)] : Arrives(l, f, t)
      /\ IsStack(s, z, N) /\ IsFlow(f) /\ Len(c) \in Nat /\ Len(l) \in Nat /\ f.may \subseteq Pending(s)
      /\ LocalsOk(ls, s, W)
  BY CompilingFacts
<1>2. IsFlow(g) /\ g.reach /\ g.must = f.must /\ \A y \in Nat : y \in g.may <=> y \in f.may \/ OfLocals(ls, y)
  BY DEF LoopFlow
<1>3. Scoped(u, ls, Append(bs, b), g, z, N, W) /\ u.leafs = l
  <2>1. Loosened(g, f, ls)
    BY <1>2 DEF Loosened, IsFlow
  <2> QED
    BY <1>1, <2>1, OpenScoped
<1>4. Holes(b) = {} /\ Falls(b) = {} /\ Exits(b) = {}
  BY DEF Holes, Falls, Exits, Opened
<1>5. b.entry = f /\ b.nbits = Len(l) /\ b.nlocals = Len(ls) /\ b.start = Len(c)
  BY DEF Opened
<1>6. X \in SUBSET State(l, N) /\ \A t : t \in X <=> t \in State(l, N) /\ Arrives(l, g, t)
  OBVIOUS
<1> DEFINE E0 == {}
<1>7. E0 \subseteq E0 \cup Holes(b) /\ Traced(R, c, l, z, N, bs, ls, E0) /\ E0 = {}
  BY <1>1
<1> HIDE DEF E0, X
<1>8. PICK Q : Traced(Q, c, l, z, N, bs, ls, E0) /\ Widened(R, Q, Len(c), X)
  BY <1>6, <1>7, TracedWiden
<1>9. \A t \in Q[Len(c)] : Arrives(l, g, t)
  <2> SUFFICES ASSUME NEW t \in Q[Len(c)] PROVE Arrives(l, g, t)
    OBVIOUS
  <2>1. t \in R[Len(c)] \/ t \in X
    BY <1>8 DEF Widened
  <2>2. CASE t \in X
    BY <1>6, <2>2
  <2>3. CASE t \in R[Len(c)]
    <3>1. f.may \subseteq g.may
      BY <1>1, <1>2 DEF IsFlow
    <3> QED
      BY <1>1, <1>2, <2>3, <3>1 DEF Arrives
  <2> QED
    BY <2>1, <2>2, <2>3
<1>10. \A F : Heads(b, ls, F) => Settled(l, F) \in Q[b.start]
  <2> SUFFICES ASSUME NEW F, Heads(b, ls, F) PROVE Settled(l, F) \in Q[b.start]
    OBVIOUS
  <2>1. Arrives(l, g, Settled(l, F)) /\ Settled(l, F) \in State(l, N)
    BY <1>1, <1>5, LoopWidens
  <2>2. Settled(l, F) \in X
    BY <1>6, <2>1
  <2> QED
    BY <1>5, <1>8, <2>2 DEF Widened
<1>11. HoleOk(Q, l, b, ls)
  BY <1>4, <1>10 DEF HoleOk
<1>12. Placed(b, Len(c)) /\ b.nbits <= Len(l) /\ b.nbits \in Nat /\ IsSeq(bs)
  BY <1>1, <1>4, <1>5, BlockFacts DEF Placed
<1>13. Traced(Q, c, l, z, N, Append(bs, b), ls, E0)
  BY <1>7, <1>8, <1>11, <1>12, TracedOpen
<1> QED
  BY <1>1, <1>3, <1>7, <1>9, <1>13 DEF Compiling

(* The bound variable x of an arm, on stack u; r holds match_result, v x.       *)
ArmStack(s, r, v, u, x, w) ==
  /\ Trimmed(s, r, s.top + 1, Len(s.leafs), {}) /\ NewLocal(r, w, v, x)
  /\ Trimmed(v, u, v.top, Len(v.leafs), {})

(* Local x of w slots is bound on stack u, above match_result.                  *)
ArmOn(s, u, x, w, z, N) ==
  /\ IsStack(u, z, N) /\ Grows(s, u) /\ u.top = s.top + 1 + w
  /\ u.first = Len(s.leafs) + w /\ Len(u.leafs) = Len(s.leafs) + w
  /\ \A y : y \in Pending(u) <=> y \in Pending(s) \/ y \in Len(s.leafs) .. Len(s.leafs) + w - 1
  /\ LocalOk(x, u) /\ x.slot = s.top + 1 /\ x.lo = Len(s.leafs) /\ x.n = w
  /\ PlaceAt(u.leafs, PlaceOf(x), BitsOf(PlaceOf(x)))
  /\ NewBits(s, w, BitsOf(PlaceOf(x)))

(* A stack on which no slot is given up. *)
LEMMA SameTop ==
  ASSUME NEW s, NEW z, NEW N, IsStack(s, z, N), NEW u, NEW t \in Nat, NEW m, Trimmed(s, u, t, m, {}), t >= s.top, t <= N,
         m = Len(s.leafs)
  PROVE  /\ IsStack(u, z, N) /\ u.leafs = s.leafs /\ u.top = t /\ u.first = m
         /\ \A y : y \in Pending(u) <=> y \in Pending(s)
<1> DEFINE X == {}
<1>1. /\ z \in Nat /\ N \in Nat /\ Len(s.leafs) \in Nat /\ s.top \in Nat /\ s.top >= z
      /\ \A b \in Bits(s) : SlotAt(s.leafs, b) \in z .. N - 1
      /\ \A b \in Pending(s) : b \in Bits(s) /\ SlotAt(s.leafs, b) < s.top
  BY StackFacts
<1>2. t \in z .. N /\ m \in 0 .. Len(s.leafs) /\ X \subseteq Bits(s) /\ Trimmed(s, u, t, m, X)
  BY <1>1
<1>3. \A y \in Pending(s) : y \in X \/ SlotAt(s.leafs, y) < t
  <2> SUFFICES ASSUME NEW y \in Pending(s) PROVE SlotAt(s.leafs, y) < t
    OBVIOUS
  <2>1. SlotAt(s.leafs, y) \in z .. N - 1 /\ SlotAt(s.leafs, y) < s.top
    BY <1>1
  <2> DEFINE q == SlotAt(s.leafs, y)
  <2> HIDE DEF q
  <2>2. q < t
    BY <1>1, <2>1 DEF q
  <2> QED
    BY <2>2 DEF q
<1>4. \A y : y \notin X
  OBVIOUS
<1> HIDE DEF X
<1>5. /\ IsStack(u, z, N) /\ u.leafs = s.leafs /\ u.top = t /\ u.first = m
      /\ \A y : y \in Pending(u) <=> y \in Pending(s) /\ y \notin X
  BY <1>2, <1>3, TrimmedOk
<1> QED
  BY <1>4, <1>5

(* The stack of a match arm that binds a variable. *)
LEMMA ArmStackOk ==
  ASSUME NEW s, NEW z, NEW N, IsStack(s, z, N), NEW w \in {1, 2}, s.top + 1 + w <= N,
         NEW r, NEW v, NEW u, NEW x, ArmStack(s, r, v, u, x, w)
  PROVE  ArmOn(s, u, x, w, z, N) /\ v.top = u.top
<1>1. s.top \in Nat /\ N \in Nat /\ z \in Nat /\ Len(s.leafs) \in Nat /\ Bits(s) = 0 .. Len(s.leafs) - 1 /\ w \in Nat
  BY StackFacts
<1>2. Trimmed(s, r, s.top + 1, Len(s.leafs), {}) /\ NewLocal(r, w, v, x) /\ Trimmed(v, u, v.top, Len(v.leafs), {})
  BY DEF ArmStack
<1>3. /\ IsStack(r, z, N) /\ r.leafs = s.leafs /\ r.top = s.top + 1 /\ r.first = Len(s.leafs)
      /\ \A y : y \in Pending(r) <=> y \in Pending(s)
  <2> DEFINE t == s.top + 1
  <2>1. t \in Nat /\ t >= s.top /\ t <= N /\ Trimmed(s, r, t, Len(s.leafs), {})
    BY <1>1, <1>2
  <2> HIDE DEF t
  <2>2. /\ IsStack(r, z, N) /\ r.leafs = s.leafs /\ r.top = t /\ r.first = Len(s.leafs)
        /\ \A y : y \in Pending(r) <=> y \in Pending(s)
    BY <2>1, SameTop
  <2> QED
    BY <2>2 DEF t
<1>4. /\ IsStack(v, z, N) /\ Grows(r, v) /\ v.top = r.top + w /\ Len(v.leafs) = Len(r.leafs) + w
      /\ \A y : y \in Pending(v) <=> y \in Pending(r) \/ y \in Len(r.leafs) .. Len(r.leafs) + w - 1
      /\ LocalOk(x, v) /\ x.slot = r.top /\ x.lo = Len(r.leafs) /\ x.n = w
      /\ PlaceAt(v.leafs, PlaceOf(x), BitsOf(PlaceOf(x)))
      /\ NewBits(r, w, BitsOf(PlaceOf(x)))
  <2>1. r.top + w <= N
    BY <1>1, <1>3
  <2> QED
    BY <1>2, <1>3, <2>1, NewLocalOk
<1>5. /\ IsStack(u, z, N) /\ u.leafs = v.leafs /\ u.top = v.top /\ u.first = Len(v.leafs)
      /\ \A y : y \in Pending(u) <=> y \in Pending(v)
  <2>1. v.top \in Nat /\ v.top >= v.top /\ v.top <= N
    BY <1>4, StackFacts
  <2> QED
    BY <1>2, <1>4, <2>1, SameTop
<1>6. Extends(s.leafs, u.leafs)
  BY <1>3, <1>4, <1>5 DEF Grows
<1>7. Bits(r) = Bits(s)
  BY <1>3 DEF Bits
<1>8. \A y \in Bits(s) : y \in Pending(u) <=> y \in Pending(s)
  BY <1>3, <1>4, <1>5, <1>7 DEF Grows
<1>9. Grows(s, u)
  BY <1>1, <1>3, <1>4, <1>5, <1>6, <1>8 DEF Grows
<1>10. LocalOk(x, u)
  BY <1>4, <1>5 DEF LocalOk
<1>11. NewBits(s, w, BitsOf(PlaceOf(x)))
  BY <1>3, <1>4 DEF NewBits
<1> QED
  BY <1>1, <1>3, <1>4, <1>5, <1>9, <1>10, <1>11 DEF ArmOn

(* A place is bound to the new local x. *)
LEMMA BindSteps ==
  ASSUME NEW s, NEW ls, NEW bs, NEW f, NEW z, NEW N, NEW W \in Nat, Scoped(s, ls, bs, f, z, N, W), f.reach,
         NEW i \in 1 .. Len(ls), NEW p \in PlacesOf(ls[i]), BitsOf(p) \subseteq f.must, NEW w, w = WidthOf(p),
         NEW u, NEW x, IsStack(u, z, N), Grows(s, u), LocalOk(x, u), x.lo = Len(s.leafs), x.n = w,
         \A y : y \in Pending(u) <=> y \in Pending(s) \/ y \in Len(s.leafs) .. Len(s.leafs) + w - 1,
         NEW X, NewBits(s, w, X), PlaceAt(u.leafs, PlaceOf(x), X), NEW g, g = Inited(Moved(f, BitsOf(p)), X)
  PROVE  /\ FlowIs(g, f, X, BitsOf(p)) /\ g.may \subseteq Pending(u)
         /\ \A k \in 1 .. Len(bs) : Fits(g, bs[k], ls)
         /\ Steps(Bind(x, p), u.leafs, N, f, g)
         /\ LocalsOk(Append(ls, x), u, W) /\ LocalsGrow(ls, Append(ls, x), Len(s.leafs))
<1> DEFINE D == BitsOf(p)
           P == Pending(u)
<1>1. /\ IsStack(s, z, N) /\ LocalsOk(ls, s, W) /\ IsFlow(f) /\ f.may \subseteq Pending(s)
      /\ Len(s.leafs) \in Nat /\ f.must \subseteq f.may
  BY BlockFacts, StackFacts DEF IsFlow
<1>2. /\ PlaceAt(s.leafs, p, D) /\ w \in {1, 2} /\ w < W /\ D \subseteq Pending(s) /\ D \subseteq Nat
  BY <1>1, PlaceOfLocal
<1>3. Len(u.leafs) \in Nat /\ Slotted(u.leafs, z, N) /\ Frame(u.leafs, z, N, P)
  BY StackFrame
<1>4. X = Len(s.leafs) .. Len(s.leafs) + w - 1
  BY DEF NewBits
<1> HIDE DEF D, P
<1>5. LocalsOk(Append(ls, x), u, W) /\ LocalsGrow(ls, Append(ls, x), Len(s.leafs))
  <2>1. x.n < W
    BY <1>2
  <2> QED
    BY <1>1, <1>3, <2>1, LocalAdded
<1>6. X \subseteq Nat /\ \A y \in X : y \in Nat /\ y >= Len(s.leafs)
  BY <1>1, <1>2, <1>4
<1>7. FlowIs(g, f, X, D)
  BY <1>1, <1>2, <1>6, FlowRebound DEF D
<1>8. /\ IsFlow(g) /\ g.reach /\ g.must = (f.must \ D) \cup X /\ g.may = (f.may \ D) \cup X
  BY <1>7 DEF FlowIs
<1>9. \A k \in 1 .. Len(bs) : Fits(g, bs[k], ls)
  <2>1. g.may \subseteq f.may \cup X
    BY <1>8
  <2> QED
    BY <1>6, <2>1, FlowFits
<1>10. Pending(s) \subseteq P /\ X \subseteq P
  BY <1>4 DEF P
<1>11. g.may \subseteq P
  BY <1>1, <1>8, <1>10
<1>12. PlaceAt(u.leafs, p, D)
  BY <1>1, <1>2, <1>3, PlaceKept
<1>13. Pending(s) \cap X = {}
  <2>1. \A y \in Pending(s) : y \in Nat /\ y < Len(s.leafs)
    BY <1>1, StackFacts
  <2> QED
    BY <1>1, <1>6, <2>1
<1>14. Steps(Bind(x, p), u.leafs, N, f, g)
  <2> SUFFICES ASSUME NEW F, F \subseteq 0 .. Len(u.leafs) - 1, Apart(u.leafs, F), f.must \subseteq F, F \subseteq f.may
               PROVE  \E G : Runs(Bind(x, p), u.leafs, N, Settled(u.leafs, F), Settled(u.leafs, G))
                             /\ g.must \subseteq G /\ G \subseteq g.may
    BY DEF Steps
  <2> DEFINE G == (F \cup X) \ D
  <2>1. Rebound(F, X, D, G, P)
    <3>1. F \subseteq P /\ X \subseteq P /\ D \subseteq F /\ F \cap X = {}
      BY <1>1, <1>10, <1>13 DEF D
    <3> QED
      BY <3>1 DEF Rebound
  <2>2. g.must \subseteq G /\ G \subseteq g.may
    BY <1>2, <1>8, <1>13
  <2> HIDE DEF G
  <2>4. Runs(Bind(x, p), u.leafs, N, Settled(u.leafs, F), Settled(u.leafs, G))
    BY <1>3, <1>12, <2>1, BindRun
  <2> QED
    BY <2>2, <2>4
<1> QED
  BY <1>5, <1>7, <1>9, <1>11, <1>14 DEF D, P

(* Straight code leads from flow f to flow g. *)
LEMMA EmitTraced ==
  ASSUME NEW R, NEW c, NEW m, NEW z, NEW N, NEW bs, NEW ls, NEW E, Traced(R, c, m, z, N, bs, ls, E),
         NEW P, Frame(m, z, N, P), NEW f, \A t \in R[Len(c)] : Arrives(m, f, t),
         NEW g, g.reach, g.may \subseteq P, NEW ch, IsSeq(ch), NoHole(ch), Steps(ch, m, N, f, g)
  PROVE  \E Q : /\ Traced(Q, c \o ch, m, z, N, bs, ls, E) /\ Keeps(R, Q, Len(c))
                /\ \A t \in Q[Len(c \o ch)] : Arrives(m, g, t)
<1>1. P \subseteq 0 .. Len(m) - 1 /\ Apart(m, P) /\ Slotted(m, z, N)
  BY DEF Frame
<1> DEFINE X == {t \in State(m, N) : Arrives(m, g, t)}
<1>2. ASSUME NEW t \in R[Len(c)] PROVE \E v \in X : Runs(ch, m, N, t, v)
  <2>1. Arrives(m, f, t)
    OBVIOUS
  <2>2. PICK F : /\ t = Settled(m, F) /\ F \subseteq 0 .. Len(m) - 1 /\ Apart(m, F)
                 /\ f.must \subseteq F /\ F \subseteq f.may
    BY <2>1 DEF Arrives
  <2>3. PICK G : Runs(ch, m, N, Settled(m, F), Settled(m, G)) /\ g.must \subseteq G /\ G \subseteq g.may
    BY <2>2 DEF Steps
  <2>4. G \subseteq 0 .. Len(m) - 1
    BY <1>1, <2>3
  <2>5. Apart(m, G)
    BY <1>1, <2>3 DEF Apart
  <2>6. Arrives(m, g, Settled(m, G))
    BY <2>3, <2>4, <2>5 DEF Arrives
  <2>7. Settled(m, G) \in State(m, N)
    BY <1>1, <2>4, HoldingState
  <2> QED
    BY <2>2, <2>3, <2>6, <2>7
<1> HIDE DEF X
<1>3. PICK Q : /\ Traced(Q, c \o ch, m, z, N, bs, ls, E) /\ Keeps(R, Q, Len(c)) /\ Q[Len(c \o ch)] \subseteq X
  BY <1>2, TracedRuns DEF NoHole
<1> QED
  BY <1>3 DEF X

(* An arm of a match is opened. *)
LEMMA OpenArmScoped ==
  ASSUME NEW s, NEW ls, NEW bs, NEW f, NEW z, NEW N, NEW W, Scoped(s, ls, bs, f, z, N, W), f.reach,
         NEW w \in {1, 2}, NEW u, NEW x, ArmOn(s, u, x, w, z, N),
         LocalsOk(Append(ls, x), u, W), LocalsGrow(ls, Append(ls, x), Len(s.leafs)),
         NEW b, Opened(b, s, u, ls, f), b.kind \in {"match", "guarded"},
         NEW D, NEW g, FlowIs(g, f, BitsOf(PlaceOf(x)), D), g.may \subseteq Pending(u),
         \A k \in 1 .. Len(bs) : Fits(g, bs[k], ls)
  PROVE  Scoped(u, Append(ls, x), Append(bs, b), g, z, N, W)
<1> DEFINE n == Len(s.leafs)
           ms == Append(ls, x)
           X == BitsOf(PlaceOf(x))
<1>9. /\ IsStack(u, z, N) /\ Grows(s, u) /\ u.top = s.top + 1 + w
      /\ u.first = n + w /\ Len(u.leafs) = n + w
      /\ \A y : y \in Pending(u) <=> y \in Pending(s) \/ y \in n .. n + w - 1
      /\ x.slot = s.top + 1 /\ x.lo = n /\ x.n = w /\ NewBits(s, w, X)
  BY DEF ArmOn
<1>10. LocalsOk(ms, u, W) /\ LocalsGrow(ls, ms, n) /\ FlowIs(g, f, X, D)
  OBVIOUS
<1>1. /\ IsStack(s, z, N) /\ LocalsOk(ls, s, W) /\ IsFlow(f) /\ f.may \subseteq Pending(s) /\ IsSeq(ls) /\ Len(ls) \in Nat
  BY BlockFacts
<1>2. /\ z \in Nat /\ N \in Nat /\ n \in Nat /\ s.top \in Nat /\ s.top >= z /\ s.top <= N
      /\ s.first \in Nat /\ s.first <= n /\ w \in Nat
      /\ Bits(s) = 0 .. n - 1 /\ Pending(s) \subseteq Bits(s)
      /\ \A y \in Pending(s) : y \in Nat /\ y < n /\ SlotAt(s.leafs, y) < s.top
  BY <1>1, StackFacts
<1>3. /\ IsBlock(b) /\ b.stmt.first = s.first /\ b.stmt.top = s.top /\ b.scope.top = u.top
      /\ b.nlocals = Len(ls) /\ b.nbits = n /\ b.entry = f /\ b.exit = Unreachable /\ b.scope.first = n
  BY DEF Opened
<1>4. /\ Len(ms) = Len(ls) + 1 /\ ms[Len(ls) + 1] = x /\ \A j \in 1 .. Len(ls) : ms[j] = ls[j]
  BY <1>1, IsSeqFacts
<1> HIDE DEF ms, X
<1>5. IsFlow(g) /\ g.may = (f.may \ D) \cup X
  BY <1>10 DEF FlowIs
<1>6. Fits(g, b, ms)
  <2>1. \A y \in X : ~(y < n)
    BY <1>2, <1>9 DEF NewBits
  <2> QED
    BY <1>3, <1>5, <2>1 DEF Fits, Knows
<1>7. Nested(b, u.first, u.top, u, ms, z)
  <2>1. /\ u.first \in Nat /\ u.top \in Nat /\ b.stmt.first <= b.nbits /\ b.nbits <= u.first /\ u.first <= Len(u.leafs)
        /\ z <= b.stmt.top /\ b.stmt.top <= b.scope.top /\ b.scope.top <= u.top
    <3> HIDE DEF n
    <3>1. n \in Nat /\ w \in Nat /\ s.top \in Nat /\ z \in Nat /\ s.first \in Nat /\ s.first <= n /\ z <= s.top
      BY <1>2
    <3>2. u.first = n + w /\ Len(u.leafs) = n + w /\ u.top = s.top + 1 + w
      BY <1>9
    <3>3. b.nbits = n /\ b.stmt.first = s.first /\ b.stmt.top = s.top /\ b.scope.top = u.top
      BY <1>3
    <3> QED
      BY <3>1, <3>2, <3>3
  <2>2. \A y \in Pending(u) : /\ y < u.first => /\ SlotAt(u.leafs, y) < b.scope.top
                                                /\ b.kind \notin {"match", "guarded"} => y < b.nbits
                              /\ y < b.nbits => SlotAt(u.leafs, y) < b.stmt.top
    <3> SUFFICES ASSUME NEW y \in Pending(u)
                 PROVE  SlotAt(u.leafs, y) < u.top /\ (y < n => SlotAt(u.leafs, y) < s.top)
      <4>1. b.scope.top = u.top /\ b.stmt.top = s.top /\ b.nbits = n /\ b.kind \in {"match", "guarded"}
        BY <1>3
      <4> QED
        BY <4>1
    <3>1. SlotAt(u.leafs, y) < u.top
      BY <1>9, StackFacts
    <3>2. ASSUME y < n PROVE SlotAt(u.leafs, y) < s.top
      <4>1. y \in Pending(s)
        BY <1>2, <1>9, <3>2
      <4>2. SlotAt(u.leafs, y) = SlotAt(s.leafs, y)
        BY <1>2, <1>9, <4>1 DEF Grows, Extends
      <4> QED
        BY <1>2, <4>1, <4>2
    <3> QED
      BY <3>1, <3>2
  <2>3. \A j \in 1 .. Len(ms) : IF j <= b.nlocals THEN ms[j].lo + ms[j].n <= b.nbits ELSE b.nbits <= ms[j].lo
    <3> TAKE j \in 1 .. Len(ms)
    <3>1. CASE j <= Len(ls)
      <4>1. j \in 1 .. Len(ls)
        BY <1>1, <1>4, <3>1
      <4>2. LocalOk(ls[j], s)
        BY <1>1, <4>1 DEF LocalsOk
      <4> QED
        BY <1>3, <1>4, <4>1, <4>2, LocalSlots
    <3>2. CASE ~(j <= Len(ls))
      <4>1. j = Len(ls) + 1
        BY <1>1, <1>4, <3>2
      <4> QED
        BY <1>2, <1>3, <1>4, <1>9, <3>2, <4>1
    <3> QED
      BY <3>1, <3>2
  <2>4. \A y \in b.entry.may \cup b.exit.may : y < b.nbits /\ y \in Pending(u)
    BY <1>1, <1>2, <1>3, <1>9 DEF Unreachable
  <2>5. b.nlocals <= Len(ms) /\ b.entry.reach /\ b.scope.first <= b.nbits
    BY <1>1, <1>2, <1>3, <1>4
  <2>6. b.kind = "guarded" => /\ b.nlocals < Len(ms)
                              /\ ms[b.nlocals + 1].lo + ms[b.nlocals + 1].n <= u.first
                              /\ b.stmt.top < ms[b.nlocals + 1].slot
    BY <1>1, <1>2, <1>3, <1>4, <1>9
  <2> QED
    BY <1>3, <2>1, <2>2, <2>3, <2>4, <2>5, <2>6 DEF Nested
<1>8. b.kind \notin Bottom
  BY DEF Bottom
<1> QED
  BY <1>3, <1>5, <1>6, <1>7, <1>8, <1>9, <1>10, ScopedOpen DEF ms

(* A binding is three instructions. *)
LEMMA BindLength ==
  ASSUME NEW c, IsSeq(c), NEW x, NEW p
  PROVE  /\ IsSeq(c \o Bind(x, p)) /\ Len(c \o Bind(x, p)) = Len(c) + 3 /\ Len(c) \in Nat
<1>1. IsSeq(Bind(x, p))
  BY BindShape
<1>2. Len(Bind(x, p)) = 3
  BY DEF Bind
<1>3. IsSeq(c \o Bind(x, p)) /\ Len(c \o Bind(x, p)) = Len(c) + Len(Bind(x, p)) /\ Len(c) \in Nat
  BY <1>1, IsSeqConcat
<1> QED
  BY <1>2, <1>3

LenIs(c, n) == Len(c) = n

(* The test of an arm, and of its guard. *)
Tested(Q, l, g, n) ==
  /\ Q[n + 1] \subseteq Q[n + 2] /\ Q[n + 3] \subseteq Q[n + 4]
  /\ \A t \in Q[n + 1] \cup Q[n + 3] \cup Q[n + 4] : Arrives(l, g, t)

(* The test of an arm and its guard. *)
LEMMA ArmTests ==
  ASSUME NEW R, NEW c, NEW l, NEW z, NEW N, NEW bs, NEW ls, NEW E, Traced(R, c, l, z, N, bs, ls, E),
         Slotted(l, z, N), NEW g, \A t \in R[Len(c)] : Arrives(l, g, t),
         NEW d, d \notin SlotsOf(l, g.may), NEW D, NEW n, LenIs(c, n), OpensAt(D, E, n + 1), n + 3 \in D
  PROVE  /\ IsSeq(c \o Test(d)) /\ IsSeq((c \o Test(d)) \o Test(d))
         /\ n \in Nat /\ Len(c \o Test(d)) = n + 2 /\ Len((c \o Test(d)) \o Test(d)) = n + 4
         /\ \E Q : Traced(Q, (c \o Test(d)) \o Test(d), l, z, N, bs, ls, D) /\ Tested(Q, l, g, n)
<1>1. IsSeq(c) /\ n \in Nat /\ IsSeq(Test(d))
  BY TracedFacts, Literals DEF Test, LenIs
<1>17. n = Len(c)
  BY DEF LenIs
<1>2. OpensAt(D, E, Len(c) + 1)
  BY <1>17
<1> DEFINE a == c \o Test(d)
<1>3. /\ Len(a) = Len(c) + 2
      /\ \E Q : Traced(Q, a, l, z, N, bs, ls, D) /\ Forks(R, Q, l, g, Len(c))
  BY <1>2, TestStep
<1>4. PICK P : /\ Traced(P, a, l, z, N, bs, ls, D) /\ Keeps(R, P, Len(c))
               /\ P[Len(c) + 1] \subseteq P[Len(c) + 2]
               /\ \A t \in P[Len(c) + 1] \cup P[Len(c) + 2] : Arrives(l, g, t)
  BY <1>3 DEF Forks
<1>5. IsSeq(a) /\ IsSeq(a \o Test(d))
  BY <1>1, IsSeqConcat
<1> DEFINE m == Len(a)
<1>6. m = n + 2
  BY <1>3, <1>17
<1>7. OpensAt(D, D, m + 1)
  <2>1. m + 1 = n + 3
    BY <1>1, <1>6
  <2> QED
    BY <2>1 DEF OpensAt
<1>8. \A t \in P[m] : Arrives(l, g, t)
  BY <1>4, <1>6, <1>17
<1> HIDE DEF a
<1>9. /\ Len(a \o Test(d)) = Len(a) + 2
      /\ \E Q : Traced(Q, a \o Test(d), l, z, N, bs, ls, D) /\ Forks(P, Q, l, g, Len(a))
  BY <1>4, <1>7, <1>8, TestStep
<1>10. PICK Q : /\ Traced(Q, a \o Test(d), l, z, N, bs, ls, D) /\ Keeps(P, Q, m)
                /\ Q[m + 1] \subseteq Q[m + 2]
                /\ \A t \in Q[m + 1] \cup Q[m + 2] : Arrives(l, g, t)
  BY <1>9 DEF Forks
<1> HIDE DEF m
<1>11. m + 1 = n + 3 /\ m + 2 = n + 4 /\ n + 1 \in 0 .. m - 1 /\ m \in Nat
  BY <1>1, <1>6
<1>12. Q[n + 1] = P[n + 1] /\ P[m] \subseteq Q[m]
  BY <1>10, <1>11 DEF Keeps
<1>13. P[n + 1] \subseteq P[n + 2] /\ \A t \in P[n + 1] : Arrives(l, g, t)
  BY <1>4, <1>17
<1>14. Q[n + 1] \subseteq Q[n + 2] /\ \A t \in Q[n + 1] : Arrives(l, g, t)
  BY <1>6, <1>12, <1>13
<1>15. Q[n + 3] \subseteq Q[n + 4] /\ \A t \in Q[n + 3] \cup Q[n + 4] : Arrives(l, g, t)
  BY <1>10, <1>11
<1>16. Len(a) = n + 2 /\ Len(a \o Test(d)) = n + 4
  BY <1>6, <1>9, <1>11 DEF m
<1> QED
  BY <1>1, <1>5, <1>10, <1>14, <1>15, <1>16 DEF a, Tested

(* Changing must and may. *)
LEMMA FlowExceptAll ==
  ASSUME NEW f, IsFlow(f)
  PROVE  \A Y, Z : [f EXCEPT !.must = Y, !.may = Z] = [reach |-> f.reach, must |-> Y, may |-> Z]
<1>1. f = [reach |-> f.reach, must |-> f.must, may |-> f.may]
  BY DEF IsFlow
<1> QED
  BY <1>1, FlowExcept

(* Flow h is f with the bits D taken from `must` and X added to `may`. *)
PassedFlow(h, f, X, D) == h.reach = f.reach /\ h.must = f.must \ D /\ h.may = f.may \cup X

(* The flow after a guard that failed. *)
LEMMA PassedFacts ==
  ASSUME NEW b, IsFlow(b.entry), NEW ms
  PROVE  PassedFlow(Passed(b, ms), b.entry, BitsOf(PlaceOf(ms[b.nlocals + 1])), BitsOf(b.arg))
<1> DEFINE f == b.entry
           X == BitsOf(PlaceOf(ms[b.nlocals + 1]))
           D == BitsOf(b.arg)
<1>1. Passed(b, ms) = [f EXCEPT !.must = f.must \ D, !.may = f.may \cup X]
  BY DEF Passed
<1> HIDE DEF f, X, D
<1>2. \A Y, Z : [f EXCEPT !.must = Y, !.may = Z] = [reach |-> f.reach, must |-> Y, may |-> Z]
  BY FlowExceptAll DEF f
<1>3. PassedFlow(Passed(b, ms), f, X, D)
  BY <1>1, <1>2 DEF PassedFlow
<1> QED
  BY <1>3 DEF f, X, D

(* It covers what was bound for the guard. *)
LEMMA ArmFlow ==
  ASSUME NEW g, NEW f, NEW X, NEW D, FlowIs(g, f, X, D), f.reach, NEW h, PassedFlow(h, f, X, D),
         NEW l, NEW t, Arrives(l, g, t)
  PROVE  Arrives(l, h, t)
<1>1. g.must = (f.must \ D) \cup X /\ g.may = (f.may \ D) \cup X /\ h.reach /\ h.must = f.must \ D /\ h.may = f.may \cup X
  BY DEF FlowIs, PassedFlow
<1>2. h.must \subseteq g.must /\ g.may \subseteq h.may
  BY <1>1
<1>3. PICK F : /\ t = Settled(l, F) /\ F \subseteq 0 .. Len(l) - 1 /\ Apart(l, F) /\ g.must \subseteq F /\ F \subseteq g.may
  BY DEF Arrives
<1>4. h.must \subseteq F /\ F \subseteq h.may
  BY <1>2, <1>3
<1> QED
  BY <1>1, <1>3, <1>4 DEF Arrives

IsTop(d, s) == d = s.top

(* `match p { x => {` or `match p { x if c => {` *)
LEMMA OpenMatchStep ==
  ASSUME NEW R, NEW c, NEW s, NEW ls, NEW bs, NEW f, NEW z, NEW N, NEW W, Compiling(R, c, s, ls, bs, f, z, N, W),
         f.reach, NEW i \in 1 .. Len(ls), NEW p \in PlacesOf(ls[i]), BitsOf(p) \subseteq f.must,
         s.top + 1 + WidthOf(p) <= N, NEW r, NEW v, NEW u, NEW x, ArmStack(s, r, v, u, x, WidthOf(p)),
         NEW b, Opened(b, s, u, ls, f), b.kind \in {"match", "guarded"}, b.arg = p, b.start = 0, b.patch = Len(c) + 4,
         NEW d, IsTop(d, s)
  PROVE  \E Q : Compiling(Q, IF b.kind = "guarded" THEN ((c \o Bind(x, p)) \o Test(d)) \o Test(d)
                                                   ELSE (c \o Bind(x, p)) \o Test(d),
                          u, Append(ls, x), Append(bs, b), Inited(Moved(f, BitsOf(p)), BitsOf(PlaceOf(x))), z, N, W)
<1> DEFINE w == WidthOf(p)
           D == BitsOf(p)
           X == BitsOf(PlaceOf(x))
           g == Inited(Moved(f, D), X)
           l == u.leafs
           ms == Append(ls, x)
           k == c \o Bind(x, p)
           n == Len(k)
           E0 == {}
<1>1. /\ Scoped(s, ls, bs, f, z, N, W) /\ Traced(R, c, s.leafs, z, N, bs, ls, E0) /\ W \in Nat
      /\ \A t \in R[Len(c)] : Arrives(s.leafs, f, t)
      /\ IsStack(s, z, N) /\ LocalsOk(ls, s, W) /\ IsFlow(f) /\ IsSeq(c) /\ Len(c) \in Nat /\ Len(s.leafs) \in Nat
      /\ f.may \subseteq Pending(s) /\ IsSeq(ls) /\ Len(ls) \in Nat
  BY CompilingFacts
<1>2. w \in {1, 2} /\ s.top + 1 + w <= N /\ ArmStack(s, r, v, u, x, w)
  BY <1>1, PlaceOfLocal
<1>3. ArmOn(s, u, x, w, z, N)
  <2> HIDE DEF w, X
  <2> QED
    BY <1>1, <1>2, ArmStackOk
<1>18. /\ IsStack(u, z, N) /\ Grows(s, u) /\ x.slot = s.top + 1 /\ x.lo = Len(s.leafs) /\ x.n = w
       /\ Len(u.leafs) = Len(s.leafs) + w /\ PlaceAt(u.leafs, PlaceOf(x), X) /\ NewBits(s, w, X) /\ LocalOk(x, u)
       /\ \A y : y \in Pending(u) <=> y \in Pending(s) \/ y \in Len(s.leafs) .. Len(s.leafs) + w - 1
  BY <1>3 DEF ArmOn
<1>4. w = WidthOf(p) /\ g = Inited(Moved(f, BitsOf(p)), X)
  OBVIOUS
<1>5. /\ FlowIs(g, f, X, D) /\ g.may \subseteq Pending(u)
      /\ \A j \in 1 .. Len(bs) : Fits(g, bs[j], ls)
      /\ Steps(Bind(x, p), l, N, f, g)
      /\ LocalsOk(ms, u, W) /\ LocalsGrow(ls, ms, Len(s.leafs))
  <2> HIDE DEF w, X, g
  <2>1. /\ FlowIs(g, f, X, BitsOf(p)) /\ g.may \subseteq Pending(u)
        /\ \A j \in 1 .. Len(bs) : Fits(g, bs[j], ls)
        /\ Steps(Bind(x, p), u.leafs, N, f, g)
        /\ LocalsOk(Append(ls, x), u, W) /\ LocalsGrow(ls, Append(ls, x), Len(s.leafs))
    BY <1>1, <1>18, <1>4, BindSteps
  <2> QED
    BY <2>1
<1>6. IsSeq(k) /\ n = Len(c) + 3 /\ IsSeq(Bind(x, p)) /\ NoHole(Bind(x, p))
  BY <1>1, BindLength, BindShape
<1>7. ms = Append(ls, x)
  OBVIOUS
<1> HIDE DEF w, D, g, l, k, E0
<1>8. Scoped(u, ms, Append(bs, b), g, z, N, W)
  BY <1>1, <1>2, <1>3, <1>5, OpenArmScoped
<1> HIDE DEF ms, X
<1>9. Traced(R, c, l, z, N, bs, ms, E0) /\ Len(l) \in Nat /\ Frame(l, z, N, Pending(u)) /\ Slotted(l, z, N)
  <2>1. Extends(s.leafs, l) /\ Len(l) \in Nat /\ Frame(l, z, N, Pending(u)) /\ Slotted(l, z, N)
    BY <1>18, StackFrame DEF Grows, l
  <2>2. \A j \in 1 .. Len(bs) : Agree(bs[j], ls, ms)
    BY <1>1, <1>5, GrowsAgree
  <2>3. Traced(R, c, l, z, N, bs, ms, E0)
    BY <1>1, <2>1, <2>2, TracedGrow
  <2> QED
    BY <2>1, <2>3
<1>10. \A t \in R[Len(c)] : Arrives(l, f, t)
  BY <1>1, <1>18, <1>9, ArrivesExtended DEF Grows, l
<1>11. IsFlow(g) /\ g.reach /\ g.may = (f.may \ D) \cup X
  BY <1>5 DEF FlowIs
<1>12. PICK P : Traced(P, k, l, z, N, bs, ms, E0) /\ \A t \in P[Len(k)] : Arrives(l, g, t)
  BY <1>5, <1>6, <1>9, <1>10, <1>11, EmitTraced DEF k
<1>13. d \notin SlotsOf(l, g.may)
  <2>0. d = s.top
    BY DEF IsTop
  <2> SUFFICES ASSUME NEW y \in g.may PROVE SlotAt(l, y) # d
    BY DEF SlotsOf
  <2>1. CASE y \in X
    <3>1. SlotsOf(l, X) = PlaceOf(x).slot .. PlaceOf(x).slot + WidthOf(PlaceOf(x)) - 1
      BY <1>18, PlaceFacts DEF l
    <3>2. SlotAt(l, y) \in PlaceOf(x).slot .. PlaceOf(x).slot + WidthOf(PlaceOf(x)) - 1
      BY <2>1, <3>1 DEF SlotsOf
    <3>3. PlaceOf(x).slot = s.top + 1 /\ s.top \in Nat
      BY <1>1, <1>18, StackFacts DEF PlaceOf
    <3> QED
      BY <2>0, <3>2, <3>3
  <2>2. CASE y \in f.may
    <3>1. y \in Pending(s) /\ SlotAt(s.leafs, y) < s.top /\ y \in 0 .. Len(s.leafs) - 1
      BY <1>1, <2>2, StackFacts
    <3>2. SlotAt(l, y) = SlotAt(s.leafs, y)
      BY <1>18, <3>1 DEF Grows, Extends, l
    <3>3. s.top \in Nat /\ SlotAt(s.leafs, y) \in z .. N - 1
      BY <1>1, <3>1, StackFacts
    <3> QED
      BY <2>0, <3>1, <3>2, <3>3
  <2> QED
    BY <1>11, <2>1, <2>2
<1>14. b.entry = f /\ b.patch = n + 1 /\ b.patch + 1 = n + 2 /\ b.patch + 2 = n + 3 /\ b.patch + 3 = n + 4
       /\ b.breaks = {} /\ b.nbits = Len(s.leafs) /\ b.nlocals = Len(ls) /\ n \in Nat
  BY <1>1, <1>6 DEF Opened
<1>15. b.nbits <= Len(l) /\ b.nbits \in Nat /\ IsSeq(bs) /\ ms[b.nlocals + 1] = x
  <2>1. IsSeq(bs)
    BY <1>1, BlockFacts
  <2>2. ms[Len(ls) + 1] = x
    BY <1>1, <1>7, IsSeqFacts
  <2>3. w \in Nat
    BY <1>2
  <2> QED
    BY <1>1, <1>14, <1>18, <2>1, <2>2, <2>3 DEF l
<1>16. CASE b.kind = "match"
  <2> DEFINE H == {n + 1}
             e == k \o Test(d)
  <2>1. OpensAt(H, E0, Len(k) + 1) /\ Holes(b) = H /\ Falls(b) = {b.patch} /\ Exits(b) = {}
    BY <1>14, <1>16 DEF OpensAt, E0, Holes, Falls, Exits
  <2> HIDE DEF H
  <2> HIDE DEF n, e
  <2>2. /\ Len(k \o Test(d)) = Len(k) + 2
        /\ \E Q : Traced(Q, k \o Test(d), l, z, N, bs, ms, H) /\ Forks(P, Q, l, g, Len(k))
    <3>1. OpensAt(H, E0, Len(k) + 1) /\ Traced(P, k, l, z, N, bs, ms, E0) /\ \A t \in P[Len(k)] : Arrives(l, g, t)
      BY <1>12, <2>1
    <3>2. d \notin SlotsOf(l, g.may) /\ Slotted(l, z, N)
      BY <1>9, <1>13
    <3> QED
      BY <3>1, <3>2, TestStep
  <2>3. PICK Q : /\ Traced(Q, e, l, z, N, bs, ms, H)
                 /\ Q[n + 1] \subseteq Q[n + 2] /\ \A t \in Q[n + 1] \cup Q[n + 2] : Arrives(l, g, t)
    BY <2>2 DEF n, e, Forks
  <2>21. Len(e) = n + 2
    BY <2>2 DEF n, e
  <2>4. \A t \in Q[b.patch] : Clean(l, t)
    BY <1>14, <2>3, ArrivesEnds
  <2>5. HoleOk(Q, l, b, ms)
    BY <1>14, <1>16, <2>1, <2>3, <2>4 DEF HoleOk
  <2>6. Placed(b, Len(e))
    <3>1. n + 1 \in 0 .. Len(e) - 1 /\ 0 \in 0 .. Len(e)
      BY <1>14, <2>21
    <3> QED
      BY <1>14, <2>1, <3>1 DEF Placed, H
  <2>7. H \subseteq E0 \cup Holes(b)
    BY <2>1
  <2>8. Traced(Q, e, l, z, N, Append(bs, b), ms, E0)
    BY <1>15, <2>3, <2>5, <2>6, <2>7, TracedOpen
  <2>9. \A t \in Q[Len(e)] : Arrives(l, g, t)
    BY <2>3, <2>21
  <2>10. Compiling(Q, e, u, ms, Append(bs, b), g, z, N, W)
    BY <1>1, <1>8, <2>8, <2>9 DEF Compiling, E0, l
  <2> QED
    BY <1>16, <2>10 DEF e, k, ms, g, D, X
<1>17. CASE b.kind = "guarded"
  <2> DEFINE H == {n + 1, n + 3}
             e == (k \o Test(d)) \o Test(d)
  <2>1. OpensAt(H, E0, n + 1) /\ n + 3 \in H /\ Holes(b) = H /\ Falls(b) = {b.patch, b.patch + 2} /\ Exits(b) = {}
    BY <1>14, <1>17 DEF OpensAt, E0, Holes, Falls, Exits
  <2> HIDE DEF H
  <2>0. LenIs(k, n)
    BY DEF LenIs
  <2> HIDE DEF n
  <2>2. /\ IsSeq(k \o Test(d)) /\ IsSeq((k \o Test(d)) \o Test(d))
        /\ n \in Nat /\ Len(k \o Test(d)) = n + 2 /\ Len((k \o Test(d)) \o Test(d)) = n + 4
        /\ \E Q : Traced(Q, (k \o Test(d)) \o Test(d), l, z, N, bs, ms, H) /\ Tested(Q, l, g, n)
    <3>1. /\ OpensAt(H, E0, n + 1) /\ n + 3 \in H /\ LenIs(k, n)
          /\ Traced(P, k, l, z, N, bs, ms, E0) /\ \A t \in P[Len(k)] : Arrives(l, g, t)
      BY <1>12, <2>0, <2>1
    <3>2. d \notin SlotsOf(l, g.may) /\ Slotted(l, z, N)
      BY <1>9, <1>13
    <3> HIDE DEF e
    <3>3. /\ IsSeq(k \o Test(d)) /\ IsSeq((k \o Test(d)) \o Test(d))
          /\ n \in Nat /\ Len(k \o Test(d)) = n + 2 /\ Len((k \o Test(d)) \o Test(d)) = n + 4
      BY <3>1, <3>2, ArmTests
    <3>4. \E Q : Traced(Q, (k \o Test(d)) \o Test(d), l, z, N, bs, ms, H) /\ Tested(Q, l, g, n)
      BY <3>1, <3>2, ArmTests
    <3> QED
      BY <3>3, <3>4
  <2>3. PICK Q : /\ Traced(Q, e, l, z, N, bs, ms, H)
                 /\ Q[n + 1] \subseteq Q[n + 2] /\ Q[n + 3] \subseteq Q[n + 4]
                 /\ \A t \in Q[n + 1] \cup Q[n + 3] \cup Q[n + 4] : Arrives(l, g, t)
    BY <2>2 DEF Tested
  <2>11. Len(e) = n + 4
    BY <2>2
  <2> HIDE DEF e
  <2>4. \A t \in Q[b.patch] \cup Q[b.patch + 2] : Arrives(l, g, t) /\ Clean(l, t)
    BY <1>14, <2>3, ArrivesEnds
  <2>12. PassedFlow(Passed(b, ms), f, X, D)
    BY <1>1, <1>14, <1>15, PassedFacts DEF X, D
  <2>13. \A t \in Q[b.patch + 2] : Arrives(l, Passed(b, ms), t)
    BY <1>5, <2>4, <2>12, ArmFlow
  <2>5. HoleOk(Q, l, b, ms)
    BY <1>14, <1>17, <2>1, <2>3, <2>4, <2>13 DEF HoleOk
  <2>6. Placed(b, Len(e))
    <3>1. n + 1 \in 0 .. Len(e) - 1 /\ n + 3 \in 0 .. Len(e) - 1 /\ 0 \in 0 .. Len(e)
      BY <1>14, <2>11
    <3> QED
      BY <1>14, <2>1, <3>1 DEF Placed, H
  <2>7. H \subseteq E0 \cup Holes(b)
    BY <2>1
  <2>8. Traced(Q, e, l, z, N, Append(bs, b), ms, E0)
    BY <1>15, <2>3, <2>5, <2>6, <2>7, TracedOpen
  <2>9. \A t \in Q[Len(e)] : Arrives(l, g, t)
    BY <2>3, <2>11
  <2>10. Compiling(Q, e, u, ms, Append(bs, b), g, z, N, W)
    BY <1>1, <1>8, <2>8, <2>9 DEF Compiling, E0, l
  <2> QED
    BY <1>17, <2>10 DEF e, k, ms, g, D, X
<1> QED
  BY <1>16, <1>17
================================================================================
