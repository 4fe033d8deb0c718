---------------------------- MODULE LazyCellsProofs -----------------------------
(* Proofs about LazyCells, for any set of threads and of cells: the types, that *)
(* callers agree on every value (and the cells implement Memo), that only the   *)
(* fields of ADTs are computed twice, and, when nothing uses its own kind in a  *)
(* circle, that threads do not wait for each other in a circle.                 *)
EXTENDS LazyCells, WellFoundedInduction, TLAPS

(* The order in which the kinds of cells may use each other. *)
LevelOf(c) ==
  CASE Family[c] = "item" -> 0
    [] Family[c] = "type" -> 1
    [] Family[c] = "adt" -> 2
    [] Family[c] = "ir" -> 3
    [] Family[c] = "layout" -> 4
    [] Family[c] = "vtable" -> 5
    [] Family[c] \in Values -> 6

Below(d, c) ==
  \/ LevelOf(d) < LevelOf(c)
  \/ LevelOf(d) = LevelOf(c) /\ Rank[Lock[d]] < Rank[Lock[c]]

(* A thread wants a cell below all that it computes, which are each below those *)
(* that they are computed for.                                                  *)
Descending ==
  Cycles = {} => \A t \in Threads :
    /\ \A i, j \in 1 .. Len(stack[t]) : i < j => Below(stack[t][i], stack[t][j])
    /\ want[t] # None => \A i \in 1 .. Len(stack[t]) : Below(want[t], stack[t][i])

(* Workers stay below the IR that they are asked to build. *)
WorkersBelow ==
  \A w \in Workers :
    /\ \A i \in 1 .. Len(stack[w]) : Family[stack[w][i]] \in WorkerUses
    /\ want[w] # None => Family[want[w]] \in WorkerUses

(* A thread that waits for a worker wants no cell, and it is the worker of that *)
(* crate that builds the IR.                                                    *)
Delegation ==
  /\ \A t \in Threads : Delegated(t) => want[t] = None
  /\ \A w \in Workers : serving[w] # None => Server[serving[w]] = w

IInv == TypeOK /\ AnswersAgree /\ ComputedOnce /\ Descending /\ WorkersBelow /\ Delegation

--------------------------------------------------------------------------------
(* A nonempty set of naturals has a least element. *)
LEMMA Least ==
  ASSUME NEW S \in SUBSET Nat, S # {}
  PROVE  \E m \in S : \A n \in S : m <= n
<1>1. IsWellFoundedOn(OpToRel(<, Nat), Nat)
  BY NatLessThanWellFounded
<1>2. PICK m \in S : \A n \in S : <<n, m>> \notin OpToRel(<, Nat)
  BY <1>1, WFMin
<1>3. \A n \in S : ~(n < m)
  BY <1>2 DEF OpToRel
<1> QED
  BY <1>3

(* Levels and ranks are numbers, the same for cells that share a lock. *)
LEMMA Levels ==
  ASSUME NEW c \in Cells
  PROVE  /\ LevelOf(c) \in 0 .. 6 /\ Rank[Lock[c]] \in Nat
         /\ \A d \in Cells : Lock[c] = Lock[d] => LevelOf(c) = LevelOf(d)
         /\ LevelOf(c) <= 2 <=> Family[c] \in WorkerUses
         /\ LevelOf(c) = 3 <=> Family[c] = "ir"
<1>1. Family[c] \in Families
  BY CellsAssumption
<1>2. LevelOf(c) \in 0 .. 6 /\ (LevelOf(c) <= 2 <=> Family[c] \in WorkerUses)
      /\ (LevelOf(c) = 3 <=> Family[c] = "ir")
  BY <1>1 DEF Families, LevelOf, Values, WorkerUses, Entries
<1>3. Rank[Lock[c]] \in Nat
  BY CellsAssumption
<1>4. \A d \in Cells : Lock[c] = Lock[d] => LevelOf(c) = LevelOf(d)
  BY CellsAssumption DEF LevelOf
<1> QED
  BY <1>2, <1>3, <1>4

(* Being below is transitive. *)
LEMMA BelowTransitive ==
  ASSUME NEW b \in Cells, NEW c \in Cells, NEW d \in Cells, Below(b, c), Below(c, d)
  PROVE  Below(b, d)
<1>1. \A e \in {b, c, d} : LevelOf(e) \in Nat /\ Rank[Lock[e]] \in Nat
  BY Levels
<1> QED
  BY <1>1 DEF Below

(* What a computation uses is below it. *)
LEMMA UseBelow ==
  ASSUME NEW c \in Cells, NEW d \in Cells, MayUse(c, d), Cycles = {}
  PROVE  Below(d, c)
<1>1. Family[c] \in Families /\ Family[d] \in Families
  BY CellsAssumption
<1>2. Related(c, d) => Rank[Lock[d]] < Rank[Lock[c]]
  BY DEF MayUse, Circular
<1>3. Family[d] \in UsesOf(Family[c])
  BY DEF MayUse
<1>4. CASE Family[c] \in Values
  BY <1>1, <1>2, <1>4 DEF Related, Values, Families, Below, LevelOf
<1>5. CASE Family[c] = "vtable"
  BY <1>1, <1>2, <1>3, <1>5 DEF UsesOf, Values, Families, Below, LevelOf, WorkerUses, Entries
<1>6. CASE Family[c] = "layout"
  BY <1>1, <1>2, <1>3, <1>6 DEF UsesOf, Related, Values, Families, Below, LevelOf, WorkerUses, Entries
<1>7. CASE Family[c] = "ir"
  BY <1>1, <1>2, <1>3, <1>7 DEF UsesOf, Values, Families, Below, LevelOf, WorkerUses, Entries
<1>8. CASE Family[c] = "adt"
  BY <1>1, <1>2, <1>3, <1>8 DEF UsesOf, Values, Families, Below, LevelOf, WorkerUses, Entries
<1>9. CASE Family[c] = "type"
  BY <1>1, <1>2, <1>3, <1>9 DEF UsesOf, Related, Values, Families, Below, LevelOf, WorkerUses, Entries
<1>10. CASE Family[c] = "item"
  BY <1>1, <1>3, <1>10 DEF UsesOf, Values, WorkerUses, Entries
<1> QED
  BY <1>1, <1>4, <1>5, <1>6, <1>7, <1>8, <1>9, <1>10 DEF Families, Values

(* A worker uses only what workers use. *)
LEMMA WorkerUse ==
  ASSUME NEW c \in Cells, NEW d \in Cells, MayUse(c, d), Family[c] \in WorkerUses
  PROVE  Family[d] \in WorkerUses
BY DEF MayUse, UsesOf, WorkerUses, Entries

(* Putting a cell on a stack, and taking one off. *)
LEMMA PushPop ==
  ASSUME NEW s \in Seq(Cells), NEW c \in Cells
  PROVE  /\ <<c>> \o s \in Seq(Cells) /\ Len(<<c>> \o s) = Len(s) + 1
         /\ (<<c>> \o s)[1] = c /\ \A i \in 1 .. Len(s) : (<<c>> \o s)[i + 1] = s[i]
         /\ s # <<>> => /\ Len(s) \in Nat \ {0} /\ Head(s) = s[1] /\ Head(s) \in Cells
                        /\ Tail(s) \in Seq(Cells) /\ Len(Tail(s)) = Len(s) - 1
                        /\ \A i \in 1 .. Len(s) - 1 : Tail(s)[i] = s[i + 1]
OBVIOUS

(* The invariant holds at the start. *)
LEMMA InitStep == Init => IInv
<1>. SUFFICES ASSUME Init PROVE IInv
  OBVIOUS
<1>1. \A t \in Threads : stack[t] = <<>> /\ Len(stack[t]) = 0 /\ want[t] = None
  BY DEF Init
<1>2. TypeOK
  BY DEF Init, TypeOK
<1>3. AnswersAgree
  BY DEF Init, AnswersAgree
<1>4. ComputedOnce
  BY <1>1 DEF ComputedOnce
<1>5. Descending
  BY <1>1 DEF Descending
<1>6. WorkersBelow
  BY <1>1 DEF WorkersBelow, Threads
<1>7. Delegation
  BY <1>1 DEF Delegation, Delegated, Init
<1> QED
  BY <1>2, <1>3, <1>4, <1>5, <1>6, <1>7 DEF IInv

(* Asking keeps it: the cell is below the innermost computation. *)
LEMMA AskStep ==
  ASSUME IInv, NEW t \in Threads, Ask(t)
  PROVE  IInv'
<1>1. PICK c \in Cells : MayAsk(t, c) /\ want' = [want EXCEPT ![t] = c]
  BY DEF Ask
<1>2. UNCHANGED <<value, stack, serving, given>> /\ want[t] = None /\ c # None
  BY CellsAssumption DEF Ask
<1>3. TypeOK'
  BY <1>1, <1>2 DEF IInv, TypeOK
<1>4. want'[t] = c /\ \A u \in Threads : u # t => want'[u] = want[u]
  BY <1>1 DEF IInv, TypeOK
<1>5. stack[t] \in Seq(Cells) /\ Len(stack[t]) \in Nat
  BY DEF IInv, TypeOK
<1>6. AnswersAgree' /\ ComputedOnce'
  BY <1>2 DEF IInv, AnswersAgree, ComputedOnce
<1>7. Descending'
  <2>. SUFFICES ASSUME Cycles = {} PROVE \A i \in 1 .. Len(stack[t]) : Below(c, stack[t][i])
    BY <1>2, <1>4 DEF IInv, Descending
  <2>. SUFFICES ASSUME NEW i \in 1 .. Len(stack[t]) PROVE Below(c, stack[t][i])
    OBVIOUS
  <2>1. stack[t] # <<>> /\ Head(stack[t]) = stack[t][1] /\ stack[t][1] \in Cells /\ stack[t][i] \in Cells
    BY <1>5
  <2>2. Below(c, stack[t][1])
    BY <1>1, <2>1, UseBelow DEF MayAsk
  <2>3. CASE i = 1
    BY <2>2, <2>3
  <2>4. CASE i # 1
    <3>1. Below(stack[t][1], stack[t][i])
      BY <2>4, <1>5 DEF IInv, Descending
    <3> QED
      BY <2>1, <2>2, <3>1, BelowTransitive
  <2> QED
    BY <2>3, <2>4
<1>8. WorkersBelow'
  <2>1. t \in Workers => Family[c] \in WorkerUses
    <3>1. CASE stack[t] = <<>>
      BY <1>1, <3>1, CellsAssumption DEF MayAsk
    <3>2. CASE stack[t] # <<>>
      <4>1. Head(stack[t]) = stack[t][1] /\ 1 \in 1 .. Len(stack[t]) /\ stack[t][1] \in Cells
        BY <1>5, <3>2
      <4>2. MayUse(stack[t][1], c)
        BY <1>1, <3>2, <4>1 DEF MayAsk
      <4> QED
        BY <4>1, <4>2, WorkerUse DEF IInv, WorkersBelow
    <3> QED
      BY <3>1, <3>2
  <2> QED
    BY <1>2, <1>4, <2>1 DEF IInv, WorkersBelow, Threads
<1>9. Delegation'
  <2>1. ~Delegated(t)
    BY <1>1 DEF MayAsk, Delegated
  <2> QED
    BY <1>2, <1>4, <2>1 DEF IInv, Delegation, Delegated
<1> QED
  BY <1>3, <1>6, <1>7, <1>8, <1>9 DEF IInv

(* So does reading a value that is there. *)
LEMMA ReadStep ==
  ASSUME IInv, NEW t \in Threads, Read(t)
  PROVE  IInv'
<1>1. PICK c \in Cells : c = want[t] /\ value[c] # None
  BY DEF Read, IInv, TypeOK
<1>2. /\ UNCHANGED <<value, stack, serving>>
      /\ want' = [want EXCEPT ![t] = None]
      /\ given' = [given EXCEPT ![c] = @ \cup {value[c]}]
  BY <1>1 DEF Read, Give
<1>3. TypeOK'
  BY <1>1, <1>2 DEF IInv, TypeOK
<1>4. want'[t] = None /\ \A u \in Threads : u # t => want'[u] = want[u]
  BY <1>2 DEF IInv, TypeOK
<1>5. AnswersAgree'
  BY <1>1, <1>2 DEF IInv, TypeOK, AnswersAgree
<1>6. ComputedOnce'
  BY <1>2 DEF IInv, ComputedOnce
<1>7. Descending' /\ WorkersBelow'
  BY <1>2, <1>4 DEF IInv, Descending, WorkersBelow, Threads
<1>8. Delegation'
  BY <1>2, <1>4 DEF IInv, Delegation, Delegated
<1> QED
  BY <1>3, <1>5, <1>6, <1>7, <1>8 DEF IInv

(* ComputedOnce in terms of lengths, and of one computation at a time. *)
LEMMA Once ==
  ASSUME IInv
  PROVE  \A r \in Threads : \A k \in 1 .. Len(stack[r]) : ~Unlocked(stack[r][k]) =>
           /\ value[stack[r][k]] = None
           /\ \A q \in Threads : \A l \in 1 .. Len(stack[q]) :
                stack[r][k] = stack[q][l] => r = q /\ k = l
<1>1. \A q \in Threads : DOMAIN stack[q] = 1 .. Len(stack[q])
  BY DEF IInv, TypeOK
<1>2. ASSUME NEW r \in Threads, NEW k \in 1 .. Len(stack[r]), ~Unlocked(stack[r][k])
      PROVE  value[stack[r][k]] = None
  BY <1>1, <1>2 DEF IInv, ComputedOnce
<1>3. ASSUME NEW r \in Threads, NEW k \in 1 .. Len(stack[r]), ~Unlocked(stack[r][k]),
             NEW q \in Threads, NEW l \in 1 .. Len(stack[q]), stack[r][k] = stack[q][l]
      PROVE  r = q /\ k = l
  BY <1>1, <1>3 DEF IInv, ComputedOnce
<1> QED
  BY <1>2, <1>3

(* So does starting a computation: the lock is free, so nobody computes it.     *)
LEMMA BeginStep ==
  ASSUME IInv, NEW t \in Threads, Begin(t)
  PROVE  IInv'
<1>1. PICK c \in Cells : c = want[t] /\ value[c] = None /\ (Unlocked(c) \/ Free(c))
  BY DEF Begin, IInv, TypeOK
<1>2. PICK s \in Seq(Cells) : s = stack[t]
  BY DEF IInv, TypeOK
<1>3. /\ UNCHANGED <<value, serving, given>>
      /\ want' = [want EXCEPT ![t] = None]
      /\ stack' = [stack EXCEPT ![t] = <<c>> \o s]
  BY <1>1, <1>2 DEF Begin
<1>4. /\ <<c>> \o s \in Seq(Cells) /\ Len(s) \in Nat /\ Len(<<c>> \o s) = Len(s) + 1
      /\ (<<c>> \o s)[1] = c /\ \A i \in 1 .. Len(s) : (<<c>> \o s)[i + 1] = s[i]
  BY PushPop
<1>5. TypeOK'
  <2>1. stack' \in [Threads -> Seq(Cells)]
    BY <1>3, <1>4 DEF IInv, TypeOK
  <2> QED
    BY <1>3, <2>1 DEF IInv, TypeOK
<1>6. /\ want'[t] = None /\ stack'[t] = <<c>> \o s
      /\ \A u \in Threads : u # t => want'[u] = want[u] /\ stack'[u] = stack[u]
  BY <1>3 DEF IInv, TypeOK
<1>7. AnswersAgree'
  BY <1>3 DEF IInv, AnswersAgree
<1>8. /\ Len(stack'[t]) = Len(s) + 1 /\ stack'[t][1] = c
      /\ \A i \in 1 .. Len(stack'[t]) : i # 1 => i - 1 \in 1 .. Len(s) /\ stack'[t][i] = s[i - 1]
  <2>1. \A i \in 1 .. Len(s) + 1 : i # 1 => i - 1 \in 1 .. Len(s) /\ (i - 1) + 1 = i
    BY <1>4
  <2> QED
    BY <1>4, <1>6, <2>1
<1>9. ComputedOnce'
  <2>1. \A u \in Threads : DOMAIN stack[u] = 1 .. Len(stack[u]) /\ DOMAIN stack'[u] = 1 .. Len(stack'[u])
    BY <1>5 DEF IInv, TypeOK
  <2>2. ASSUME ~Unlocked(c), NEW u \in Threads, NEW i \in 1 .. Len(stack[u]) PROVE stack[u][i] # c
    BY <1>1, <2>1, <2>2 DEF Free, Held, Computing
  <2>3. \A r \in Threads : \A k \in 1 .. Len(stack[r]) : ~Unlocked(stack[r][k]) =>
          /\ value[stack[r][k]] = None
          /\ \A q \in Threads : \A l \in 1 .. Len(stack[q]) :
               stack[r][k] = stack[q][l] => r = q /\ k = l
    BY Once
  <2>4. ASSUME NEW u \in Threads, NEW v \in Threads, NEW i \in 1 .. Len(stack'[u]),
               NEW j \in 1 .. Len(stack'[v]), ~Unlocked(stack'[u][i])
        PROVE  value'[stack'[u][i]] = None /\ (stack'[u][i] = stack'[v][j] => u = v /\ i = j)
    <3>1. CASE u = t /\ i = 1
      <4>1. CASE v = t /\ j = 1
        BY <1>3, <1>1, <1>8, <3>1, <4>1
      <4>2. CASE v = t /\ j # 1
        BY <1>3, <1>1, <1>2, <1>8, <2>2, <2>4, <3>1, <4>2
      <4>3. CASE v # t
        BY <1>3, <1>1, <1>6, <1>8, <2>2, <2>4, <3>1, <4>3
      <4> QED
        BY <4>1, <4>2, <4>3
    <3>2. CASE ~(u = t /\ i = 1) /\ v = t /\ j = 1
      <4>1. stack'[u][i] # c
        <5>1. CASE u = t
          BY <1>2, <1>8, <2>2, <2>4, <3>2, <5>1
        <5>2. CASE u # t
          BY <1>6, <2>2, <2>4, <5>2
        <5> QED
          BY <5>1, <5>2
      <4>2. value'[stack'[u][i]] = None
        <5>1. CASE u = t
          BY <1>3, <1>2, <1>8, <2>3, <2>4, <3>2, <5>1
        <5>2. CASE u # t
          BY <1>3, <1>6, <2>3, <2>4, <5>2
        <5> QED
          BY <5>1, <5>2
      <4> QED
        BY <1>8, <3>2, <4>1, <4>2
    <3>3. CASE ~(u = t /\ i = 1) /\ ~(v = t /\ j = 1)
      <4>1. PICK k \in 1 .. Len(stack[u]) : stack'[u][i] = stack[u][k] /\ k = IF u = t THEN i - 1 ELSE i
        BY <1>2, <1>6, <1>8, <3>3
      <4>2. PICK l \in 1 .. Len(stack[v]) : stack'[v][j] = stack[v][l] /\ l = IF v = t THEN j - 1 ELSE j
        BY <1>2, <1>6, <1>8, <3>3
      <4> QED
        BY <1>3, <1>5, <2>3, <2>4, <4>1, <4>2
    <3> QED
      BY <3>1, <3>2, <3>3
  <2> QED
    BY <2>4 DEF ComputedOnce, Unlocked
<1>10. Descending'
  <2>. SUFFICES ASSUME Cycles = {}, NEW u \in Threads
       PROVE /\ \A i, j \in 1 .. Len(stack'[u]) : i < j => Below(stack'[u][i], stack'[u][j])
             /\ want'[u] # None => \A i \in 1 .. Len(stack'[u]) : Below(want'[u], stack'[u][i])
    BY DEF Descending, Below, LevelOf
  <2>1. CASE u # t
    BY <1>6, <2>1 DEF IInv, Descending
  <2>2. CASE u = t
    <3>1. \A i \in 1 .. Len(s) : Below(c, s[i])
      BY <1>1, <1>2, CellsAssumption DEF IInv, Descending
    <3>2. \A i, j \in 1 .. Len(s) : i < j => Below(s[i], s[j])
      BY <1>2 DEF IInv, Descending
    <3>3. ASSUME NEW i \in 1 .. Len(stack'[t]), NEW j \in 1 .. Len(stack'[t]), i < j
          PROVE  Below(stack'[t][i], stack'[t][j])
      <4>1. j # 1 /\ j - 1 \in 1 .. Len(s) /\ stack'[t][j] = s[j - 1]
        BY <1>8, <3>3
      <4>2. CASE i = 1
        BY <1>8, <3>1, <4>1, <4>2
      <4>3. CASE i # 1
        <5>1. i - 1 \in 1 .. Len(s) /\ stack'[t][i] = s[i - 1] /\ i - 1 < j - 1
          BY <1>8, <3>3, <4>3
        <5> QED
          BY <3>2, <4>1, <5>1
      <4> QED
        BY <4>2, <4>3
    <3> QED
      BY <1>6, <2>2, <3>3
  <2> QED
    BY <2>1, <2>2
<1>11. WorkersBelow'
  <2>. SUFFICES ASSUME NEW w \in Workers
       PROVE /\ \A i \in 1 .. Len(stack'[w]) : Family[stack'[w][i]] \in WorkerUses
             /\ want'[w] # None => Family[want'[w]] \in WorkerUses
    BY DEF WorkersBelow, WorkerUses, Entries
  <2>1. w \in Threads
    BY DEF Threads
  <2>2. CASE w # t
    BY <1>6, <2>1, <2>2 DEF IInv, WorkersBelow
  <2>3. CASE w = t
    <3>1. Family[c] \in WorkerUses /\ \A i \in 1 .. Len(s) : Family[s[i]] \in WorkerUses
      BY <1>1, <1>2, <2>3, CellsAssumption DEF IInv, WorkersBelow
    <3> QED
      BY <1>6, <1>8, <2>3, <3>1
  <2> QED
    BY <2>2, <2>3
<1>12. Delegation'
  BY <1>3, <1>6 DEF IInv, Delegation, Delegated
<1> QED
  BY <1>5, <1>7, <1>9, <1>10, <1>11, <1>12 DEF IInv

(* So does ending one, whoever has computed it.                                 *)
LEMMA EndStep ==
  ASSUME IInv, NEW t \in Threads, stack[t] # <<>>, want[t] = None,
         NEW u \in Threads, Store(Head(stack[t]), u),
         stack' = [stack EXCEPT ![t] = Tail(@)], want' = want,
         serving' \in [Workers -> Cells \cup {None}],
         \A w \in Workers : serving'[w] \in {serving[w], None}
  PROVE  IInv'
<1>1. PICK s \in Seq(Cells) : s = stack[t]
  BY DEF IInv, TypeOK
<1>2. PICK c \in Cells : c = Head(s) /\ c = s[1]
  BY <1>1, PushPop
<1>3. /\ Tail(s) \in Seq(Cells) /\ Len(s) \in Nat \ {0} /\ Len(Tail(s)) = Len(s) - 1
      /\ \A i \in 1 .. Len(s) - 1 : Tail(s)[i] = s[i + 1]
  BY <1>1, PushPop
<1>4. /\ value' = [value EXCEPT ![c] = IF @ = None THEN u ELSE @]
      /\ given' = [given EXCEPT ![c] = @ \cup {value'[c]}]
  BY <1>1, <1>2 DEF Store, Give
<1>5. /\ stack'[t] = Tail(s)
      /\ \A v \in Threads : v # t => stack'[v] = stack[v]
      /\ stack' \in [Threads -> Seq(Cells)]
  BY <1>1, <1>3 DEF IInv, TypeOK
<1>6. /\ value'[c] = IF value[c] = None THEN u ELSE value[c]
      /\ \A d \in Cells : d # c => value'[d] = value[d]
      /\ value' \in [Cells -> Threads \cup {None}] /\ value'[c] \in Threads
  BY <1>4 DEF IInv, TypeOK
<1>7. TypeOK'
  BY <1>4, <1>5, <1>6 DEF IInv, TypeOK
<1>8. AnswersAgree'
  <2>1. None \notin Threads
    BY CellsAssumption
  <2>2. \A d \in Cells : given[d] \subseteq Threads /\ \A v \in given[d] : v = value[d]
    BY DEF IInv, TypeOK, AnswersAgree
  <2>3. \A v \in given'[c] : v = value'[c]
    BY <1>4, <1>6, <2>1, <2>2 DEF IInv, TypeOK
  <2>4. \A d \in Cells : d # c => given'[d] = given[d]
    BY <1>4 DEF IInv, TypeOK
  <2> QED
    BY <1>6, <2>2, <2>3, <2>4 DEF AnswersAgree
<1>9. \A v \in Threads : \A i \in 1 .. Len(stack'[v]) : \E k \in 1 .. Len(stack[v]) :
        stack'[v][i] = stack[v][k] /\ k = IF v = t THEN i + 1 ELSE i
  <2>1. \A i \in 1 .. Len(Tail(s)) : i + 1 \in 1 .. Len(s) /\ Tail(s)[i] = s[i + 1]
    BY <1>3
  <2> QED
    BY <1>1, <1>5, <2>1
<1>10. ComputedOnce'
  <2>1. \A v \in Threads : DOMAIN stack[v] = 1 .. Len(stack[v]) /\ DOMAIN stack'[v] = 1 .. Len(stack'[v])
    BY <1>7 DEF IInv, TypeOK
  <2>2. \A r \in Threads : \A k \in 1 .. Len(stack[r]) : ~Unlocked(stack[r][k]) =>
          /\ value[stack[r][k]] = None
          /\ \A q \in Threads : \A l \in 1 .. Len(stack[q]) :
               stack[r][k] = stack[q][l] => r = q /\ k = l
    BY Once
  <2>3. ASSUME NEW v \in Threads, NEW q \in Threads, NEW i \in 1 .. Len(stack'[v]),
               NEW j \in 1 .. Len(stack'[q]), ~Unlocked(stack'[v][i])
        PROVE  value'[stack'[v][i]] = None /\ (stack'[v][i] = stack'[q][j] => v = q /\ i = j)
    <3>1. PICK k \in 1 .. Len(stack[v]) : stack'[v][i] = stack[v][k] /\ k = IF v = t THEN i + 1 ELSE i
      BY <1>9
    <3>2. PICK l \in 1 .. Len(stack[q]) : stack'[q][j] = stack[q][l] /\ l = IF q = t THEN j + 1 ELSE j
      BY <1>9
    <3>3. stack[v][k] \in Cells /\ i \in Nat /\ j \in Nat /\ i >= 1
      BY <1>7, <2>1 DEF IInv, TypeOK
    <3>4. stack[v][k] # c
      <4>1. 1 \in 1 .. Len(s) /\ stack[t][1] = c
        BY <1>1, <1>2, <1>3
      <4>2. stack[v][k] = stack[t][1] => v = t /\ k = 1
        BY <1>1, <2>2, <2>3, <3>1, <4>1
      <4> QED
        BY <3>1, <3>3, <4>1, <4>2
    <3>5. value'[stack[v][k]] = None
      BY <1>6, <2>2, <2>3, <3>1, <3>3, <3>4
    <3>6. stack[v][k] = stack[q][l] => v = q /\ k = l
      BY <2>2, <2>3, <3>1
    <3> QED
      BY <3>1, <3>2, <3>3, <3>5, <3>6
  <2> QED
    BY <2>3 DEF ComputedOnce, Unlocked
<1>11. Descending'
  <2>. SUFFICES ASSUME Cycles = {}, NEW v \in Threads
       PROVE /\ \A i, j \in 1 .. Len(stack'[v]) : i < j => Below(stack'[v][i], stack'[v][j])
             /\ want'[v] # None => \A i \in 1 .. Len(stack'[v]) : Below(want'[v], stack'[v][i])
    BY DEF Descending, Below, LevelOf
  <2>1. CASE v # t
    BY <1>5, <2>1 DEF IInv, Descending
  <2>2. CASE v = t
    <3>1. \A i, j \in 1 .. Len(s) : i < j => Below(s[i], s[j])
      BY <1>1 DEF IInv, Descending
    <3>2. ASSUME NEW i \in 1 .. Len(stack'[t]), NEW j \in 1 .. Len(stack'[t]), i < j
          PROVE  Below(stack'[t][i], stack'[t][j])
      <4>1. /\ i + 1 \in 1 .. Len(s) /\ stack'[t][i] = s[i + 1]
            /\ j + 1 \in 1 .. Len(s) /\ stack'[t][j] = s[j + 1] /\ i + 1 < j + 1
        <5>1. i \in 1 .. Len(s) - 1 /\ j \in 1 .. Len(s) - 1
          BY <1>3, <1>5
        <5>2. i + 1 \in 1 .. Len(s) /\ j + 1 \in 1 .. Len(s) /\ i + 1 < j + 1
          BY <1>3, <3>2, <5>1
        <5> QED
          BY <1>3, <1>5, <5>1, <5>2
      <4> QED
        BY <3>1, <4>1
    <3> QED
      BY <2>2, <3>2
  <2> QED
    BY <2>1, <2>2
<1>12. WorkersBelow'
  <2>1. \A w \in Workers : w \in Threads
    BY DEF Threads
  <2> QED
    BY <1>9, <2>1 DEF IInv, WorkersBelow, WorkerUses, Entries
<1>13. Delegation'
  <2>1. \A v \in Threads : Delegated(v)' => want'[v] = None
    BY <1>5 DEF IInv, Delegation, Delegated
  <2>2. \A w \in Workers : serving'[w] # None => Server[serving'[w]] = w
    BY DEF IInv, Delegation
  <2> QED
    BY <2>1, <2>2 DEF Delegation
<1> QED
  BY <1>7, <1>8, <1>10, <1>11, <1>12, <1>13 DEF IInv

LEMMA FinishStep ==
  ASSUME IInv, NEW t \in Threads, Finish(t)
  PROVE  IInv'
<1>1. /\ stack[t] # <<>> /\ want[t] = None /\ Store(Head(stack[t]), t)
      /\ stack' = [stack EXCEPT ![t] = Tail(@)] /\ want' = want /\ serving' = serving
  BY DEF Finish
<1>2. serving' \in [Workers -> Cells \cup {None}] /\ \A w \in Workers : serving'[w] \in {serving[w], None}
  BY <1>1 DEF IInv, TypeOK
<1> QED
  BY <1>1, <1>2, EndStep

(* A worker's answer ends the computation of a thread that waits for it. *)
LEMMA ReplyStep ==
  ASSUME IInv, NEW w \in Workers, Reply(w)
  PROVE  IInv'
<1>1. PICK t \in Threads : /\ stack[t] # <<>> /\ Head(stack[t]) = serving[w]
                           /\ stack' = [stack EXCEPT ![t] = Tail(@)]
  BY DEF Reply
<1>2. /\ serving[w] # None /\ Store(serving[w], w) /\ want' = want
      /\ serving' = [serving EXCEPT ![w] = None]
  BY DEF Reply
<1>3. w \in Threads /\ w # None
  BY CellsAssumption DEF Threads
<1>4. want[t] = None
  BY <1>1, <1>2, <1>3 DEF IInv, Delegation, Delegated
<1>5. serving' \in [Workers -> Cells \cup {None}] /\ \A x \in Workers : serving'[x] \in {serving[x], None}
  BY <1>2 DEF IInv, TypeOK
<1>6. Store(Head(stack[t]), w)
  BY <1>1, <1>2
<1> QED
  BY <1>1, <1>2, <1>3, <1>4, <1>5, <1>6, EndStep

(* A worker that takes a command changes only what it serves. *)
LEMMA ServeStep ==
  ASSUME IInv, NEW w \in Workers, Serve(w)
  PROVE  IInv'
<1>1. PICK t \in Threads : /\ stack[t] # <<>> /\ Server[Head(stack[t])] = w
                           /\ serving' = [serving EXCEPT ![w] = Head(stack[t])]
  BY DEF Serve, Delegated
<1>2. UNCHANGED <<value, stack, want, given>>
  BY DEF Serve
<1>3. PICK c \in Cells : c = Head(stack[t])
  BY <1>1, PushPop DEF IInv, TypeOK
<1>4. TypeOK'
  BY <1>1, <1>2, <1>3 DEF IInv, TypeOK
<1>5. Delegation'
  BY <1>1, <1>2, <1>3 DEF IInv, TypeOK, Delegation, Delegated
<1>6. AnswersAgree' /\ ComputedOnce' /\ Descending' /\ WorkersBelow'
  BY <1>2 DEF IInv, AnswersAgree, ComputedOnce, Descending, WorkersBelow
<1> QED
  BY <1>4, <1>5, <1>6 DEF IInv

(* IInv is an invariant. *)
THEOREM Invariance == Safe => []IInv
<1>1. IInv /\ [Next]_vars => IInv'
  <2>. SUFFICES ASSUME IInv, [Next]_vars PROVE IInv'
    OBVIOUS
  <2>1. ASSUME NEW t \in Threads, Ask(t) PROVE IInv'
    BY <2>1, AskStep
  <2>2. ASSUME NEW t \in Threads, Read(t) PROVE IInv'
    BY <2>2, ReadStep
  <2>3. ASSUME NEW t \in Threads, Begin(t) PROVE IInv'
    BY <2>3, BeginStep
  <2>4. ASSUME NEW t \in Threads, Finish(t) PROVE IInv'
    BY <2>4, FinishStep
  <2>5. ASSUME NEW w \in Workers, Serve(w) PROVE IInv'
    BY <2>5, ServeStep
  <2>6. ASSUME NEW w \in Workers, Reply(w) PROVE IInv'
    BY <2>6, ReplyStep
  <2>7. CASE UNCHANGED vars
    <3>1. UNCHANGED <<value, stack, want, serving, given>>
      BY <2>7 DEF vars
    <3>2. TypeOK' /\ AnswersAgree' /\ ComputedOnce'
      BY <3>1 DEF IInv, TypeOK, AnswersAgree, ComputedOnce
    <3>3. Descending' /\ WorkersBelow' /\ Delegation'
      BY <3>1 DEF IInv, Descending, WorkersBelow, Delegation, Delegated
    <3> QED
      BY <3>2, <3>3 DEF IInv
  <2> QED
    BY <2>1, <2>2, <2>3, <2>4, <2>5, <2>6, <2>7 DEF Next
<1> QED
  BY <1>1, InitStep, PTL DEF Safe

(* Stacks hold cells, and a value is the result of one of the threads. *)
THEOREM TypeCorrect == Safe => []TypeOK
<1>1. IInv => TypeOK
  BY DEF IInv
<1> QED
  BY <1>1, Invariance, PTL

(* Every caller is given the value that is kept. *)
THEOREM CallersAgree == Safe => []AnswersAgree
<1>1. IInv => AnswersAgree
  BY DEF IInv
<1> QED
  BY <1>1, Invariance, PTL

(* const_value, static_value, variant_discriminants, find_vtable, drop_info,    *)
(* layout, ir and the lazy tables compute each value once.                      *)
THEOREM OneComputation == Safe => []ComputedOnce
<1>1. IInv => ComputedOnce
  BY DEF IInv
<1> QED
  BY <1>1, Invariance, PTL

--------------------------------------------------------------------------------
(* A thread that waits for a lock waits for one who computes on the same level, *)
(* and who wants, or waits for a worker that wants, something below.            *)
LEMMA HolderBelow ==
  ASSUME IInv, Cycles = {}, NEW t \in Threads, NEW u \in Threads,
         Blocked(t), Lock[want[t]] \in Held(u)
  PROVE  /\ want[u] # None => Below(want[u], want[t])
         /\ Delegated(u) => LevelOf(want[t]) >= 3
<1>1. want[t] \in Cells
  BY DEF Blocked, IInv, TypeOK
<1>2. stack[u] \in Seq(Cells) /\ want[u] \in Cells \cup {None}
  BY DEF IInv, TypeOK
<1>3. PICK i \in 1 .. Len(stack[u]) : Lock[stack[u][i]] = Lock[want[t]]
  BY <1>2 DEF Held, Computing
<1>4. stack[u][i] \in Cells
  BY <1>2
<1>5. LevelOf(stack[u][i]) = LevelOf(want[t])
  BY <1>1, <1>3, <1>4, Levels
<1>6. want[u] # None => Below(want[u], want[t])
  BY <1>3, <1>5 DEF IInv, Descending, Below
<1>7. ASSUME Delegated(u) PROVE LevelOf(want[t]) >= 3
  <2>1. Head(stack[u]) = stack[u][1] /\ stack[u][1] \in Cells /\ 1 \in 1 .. Len(stack[u])
    BY <1>2, <1>7, PushPop DEF Delegated
  <2>2. LevelOf(stack[u][1]) = 3
    BY <1>7, <2>1, CellsAssumption, Levels DEF Delegated
  <2>3. i = 1 \/ Below(stack[u][1], stack[u][i])
    BY <2>1 DEF IInv, Descending
  <2>4. LevelOf(stack[u][i]) \in Nat
    BY <1>4, Levels
  <2> QED
    BY <1>5, <2>2, <2>3, <2>4 DEF Below
<1> QED
  BY <1>6, <1>7

(* A worker that a thread waits for waits for no worker, and wants only what    *)
(* workers use.                                                                 *)
LEMMA WorkerWants ==
  ASSUME IInv, NEW w \in Workers
  PROVE  /\ ~Delegated(w)
         /\ Blocked(w) => want[w] \in Cells /\ LevelOf(want[w]) <= 2
<1>1. w \in Threads /\ stack[w] \in Seq(Cells) /\ want[w] \in Cells \cup {None}
  BY DEF IInv, TypeOK, Threads
<1>2. ~Delegated(w)
  <2>. SUFFICES ASSUME Delegated(w) PROVE FALSE
    OBVIOUS
  <2>1. Head(stack[w]) = stack[w][1] /\ stack[w][1] \in Cells /\ 1 \in 1 .. Len(stack[w])
    BY <1>1, PushPop DEF Delegated
  <2>2. Family[stack[w][1]] = "ir" /\ Family[stack[w][1]] \in WorkerUses
    BY <2>1, CellsAssumption DEF Delegated, IInv, WorkersBelow
  <2> QED
    BY <2>2 DEF WorkerUses, Entries
<1>3. Blocked(w) => want[w] \in Cells /\ LevelOf(want[w]) <= 2
  BY <1>1, Levels DEF Blocked, IInv, WorkersBelow
<1> QED
  BY <1>2, <1>3

(* When no constant, static or type uses its own kind in a circle, threads do   *)
(* not wait in a circle: in a set of threads that wait for each other, take one *)
(* that wants a cell of least level, and of least rank on that level.  Who      *)
(* holds its lock wants a cell below it.                                        *)
THEOREM NoDeadlock ==
  ASSUME Cycles = {}
  PROVE  Safe => []NoCircularWait
<1>1. ASSUME IInv PROVE NoCircularWait
  <2>. SUFFICES ASSUME NEW T \in SUBSET Threads, T # {},
                       \A t \in T : WaitsFor(t) \cap T # {}
       PROVE  FALSE
    BY DEF NoCircularWait
  <2>. DEFINE B == {t \in T : Blocked(t)}
  <2>1. \A t \in T : Blocked(t) \/ Delegated(t)
    BY DEF WaitsFor
  <2>2. ASSUME NEW t \in T, ~Blocked(t)
        PROVE  \E w \in B : w \in Workers
    <3>1. PICK w \in T : w = Server[Head(stack[t])]
      BY <2>2 DEF WaitsFor
    <3>2. Head(stack[t]) \in Cells /\ w # None
      BY SMTT(30), <1>1, <2>1, <2>2, CellsAssumption, PushPop DEF IInv, TypeOK, Delegated
    <3>3. w \in Workers
      BY <3>1, <3>2, CellsAssumption
    <3> QED
      BY <2>1, <3>1, <3>3, <1>1, WorkerWants
  <2>3. \A t \in B : want[t] \in Cells /\ LevelOf(want[t]) \in Nat /\ Rank[Lock[want[t]]] \in Nat
    <3>1. \A t \in B : want[t] \in Cells
      BY <1>1 DEF Blocked, IInv, TypeOK
    <3> QED
      BY <3>1, Levels
  <2>4. B # {}
    BY <2>2
  <2>5. PICK l \in {LevelOf(want[t]) : t \in B} : \A k \in {LevelOf(want[t]) : t \in B} : l <= k
    <3>1. {LevelOf(want[t]) : t \in B} \in SUBSET Nat /\ {LevelOf(want[t]) : t \in B} # {}
      BY <2>3, <2>4
    <3> QED
      BY <3>1, Least
  <2>. DEFINE L == {t \in B : LevelOf(want[t]) = l}
  <2>6. PICK r \in {Rank[Lock[want[t]]] : t \in L} : \A k \in {Rank[Lock[want[t]]] : t \in L} : r <= k
    <3>1. {Rank[Lock[want[t]]] : t \in L} \in SUBSET Nat /\ {Rank[Lock[want[t]]] : t \in L} # {}
      BY <2>3, <2>5
    <3> QED
      BY <3>1, Least
  <2>7. PICK t \in L : Rank[Lock[want[t]]] = r
    BY <2>6
  <2>8. PICK u \in T : Blocked(t) /\ Lock[want[t]] \in Held(u)
    <3>1. want[t] # None
      BY <2>7 DEF Blocked
    <3> QED
      BY <2>7, <3>1 DEF WaitsFor
  <2>9. /\ want[u] # None => Below(want[u], want[t])
        /\ Delegated(u) => LevelOf(want[t]) >= 3
    BY <1>1, <2>8, HolderBelow
  <2>10. CASE u \in B
    <3>1. Below(want[u], want[t]) /\ LevelOf(want[t]) = l /\ l <= LevelOf(want[u])
      BY <2>5, <2>7, <2>9, <2>10 DEF Blocked
    <3>2. u \in L /\ Rank[Lock[want[u]]] < Rank[Lock[want[t]]]
      BY <2>3, <2>10, <3>1 DEF Below
    <3>3. r <= Rank[Lock[want[u]]]
      BY <2>6, <3>2
    <3> QED
      BY <2>3, <2>7, <2>10, <3>2, <3>3
  <2>11. CASE u \notin B
    <3>1. Delegated(u) /\ LevelOf(want[t]) >= 3
      BY <2>1, <2>9, <2>11
    <3>2. PICK w \in B : w \in Workers
      BY <2>2, <2>11
    <3>3. LevelOf(want[w]) <= 2
      BY <1>1, <3>2, WorkerWants
    <3>4. l <= LevelOf(want[w]) /\ LevelOf(want[t]) = l
      BY <2>5, <2>7, <3>2
    <3> QED
      BY <2>3, <2>7, <3>1, <3>2, <3>3, <3>4
  <2> QED
    BY <2>10, <2>11
<1> QED
  BY <1>1, Invariance, PTL

--------------------------------------------------------------------------------
(* Cells implement Memo: Read and an end that comes second give the value that  *)
(* is there, an end that comes first sets it, and nothing else touches it.      *)
THEOREM CellsImplementMemo == Safe => MemoSpec
<1>1. Init => Promise!Init
  BY DEF Init, Promise!Init
<1>2. ASSUME IInv, NEW c \in Cells, NEW t \in Threads, Store(c, t)
      PROVE  Promise!Next
  <2>1. CASE value[c] = None
    <3>1. value' = [value EXCEPT ![c] = t] /\ value'[c] = t
      BY <1>2, <2>1 DEF Store, IInv, TypeOK
    <3>2. given[c] = {}
      BY <1>2, <2>1, CellsAssumption DEF IInv, TypeOK, AnswersAgree
    <3>3. given' = [given EXCEPT ![c] = {t}]
      BY <1>2, <3>1, <3>2 DEF Store, Give
    <3> QED
      BY <1>2, <2>1, <3>1, <3>3 DEF Promise!Next, Promise!Set
  <2>2. CASE value[c] # None
    <3>1. value' = value
      BY <1>2, <2>2 DEF Store, IInv, TypeOK
    <3>2. given' = [given EXCEPT ![c] = given[c] \cup {value[c]}]
      BY <1>2, <3>1 DEF Store, Give
    <3> QED
      BY <2>2, <3>1, <3>2 DEF Promise!Next, Promise!Give
  <2> QED
    BY <2>1, <2>2
<1>3. IInv /\ [Next]_vars => [Promise!Next]_<<value, given>>
  <2>. SUFFICES ASSUME IInv, [Next]_vars PROVE Promise!Next \/ UNCHANGED <<value, given>>
    OBVIOUS
  <2>1. ASSUME NEW t \in Threads, Ask(t) \/ Begin(t) PROVE UNCHANGED <<value, given>>
    BY <2>1 DEF Ask, Begin
  <2>2. ASSUME NEW w \in Workers, Serve(w) PROVE UNCHANGED <<value, given>>
    BY <2>2 DEF Serve
  <2>3. ASSUME NEW t \in Threads, Read(t) PROVE Promise!Next
    <3>1. want[t] \in Cells
      BY <2>3 DEF Read, IInv, TypeOK
    <3> QED
      BY <2>3, <3>1 DEF Read, Give, Promise!Next, Promise!Give
  <2>4. ASSUME NEW t \in Threads, Finish(t) PROVE Promise!Next
    <3>1. Head(stack[t]) \in Cells /\ Store(Head(stack[t]), t)
      BY <2>4, PushPop DEF Finish, IInv, TypeOK
    <3> QED
      BY <1>2, <3>1
  <2>5. ASSUME NEW w \in Workers, Reply(w) PROVE Promise!Next
    <3>1. serving[w] \in Cells /\ Store(serving[w], w) /\ w \in Threads
      BY <2>5 DEF Reply, IInv, TypeOK, Threads
    <3> QED
      BY <1>2, <3>1
  <2>6. CASE UNCHANGED vars
    BY <2>6 DEF vars
  <2> QED
    BY <2>1, <2>2, <2>3, <2>4, <2>5, <2>6 DEF Next
<1> QED
  BY <1>1, <1>3, Invariance, PTL DEF Safe, MemoSpec, Promise!Spec
================================================================================
