----------------------------- MODULE RuntimeProofs -----------------------------
(* That activations of a VMThread never touch each other's drop flags, that a   *)
(* stack has one owner, a VMThread or the pool, that variables keep their       *)
(* types, and that no thread compiles a function twice: for every number of     *)
(* threads, stacks, functions and drop bits, and every depth of calls and of    *)
(* nested VMThreads.                                                            *)
EXTENDS Runtime, SequenceTheorems, FiniteSetTheorems, TLAPS

Frame == [func : Functions, base : Nat, holds : SUBSET Nat, left : Int]
Frames == Seq(Frame)

(* The activations' bytes follow one another in drop_flags and fill it.         *)
Tiled(flags, frames) ==
  /\ frames = <<>> => flags = <<>>
  /\ frames # <<>> => /\ frames[1].base = 0
                      /\ frames[Len(frames)].base + BytesFor(frames[Len(frames)].func) = Len(flags)
  /\ \A j \in 1 .. Len(frames) - 1 :
       frames[j + 1].base = frames[j].base + BytesFor(frames[j].func)
  /\ \A i, j \in 1 .. Len(frames) :
       i < j => frames[i].base + BytesFor(frames[i].func) <= frames[j].base

(* The set bits of an activation are those of the locals it holds.              *)
Agrees(flags, frames) ==
  \A j \in 1 .. Len(frames) :
    /\ frames[j].base + BytesFor(frames[j].func) <= Len(flags)
    /\ frames[j].holds \subseteq 0 .. Drops[frames[j].func] - 1
    /\ frames[j].left <= Drops[frames[j].func]
    /\ \A n \in 0 .. Drops[frames[j].func] - 1 :
         n % 8 \in flags[frames[j].base + (n \div 8) + 1] <=> n \in frames[j].holds

Packed(flags, frames) ==
  /\ flags \in Seq(SUBSET Byte) /\ frames \in Frames
  /\ Tiled(flags, frames)
  /\ Agrees(flags, frames)

Good(v) ==
  /\ v \in VMThread /\ Packed(v.flags, v.frames)
  /\ v.compiling => v.call \in Functions
AllGood(vs) == vs \in Seq(VMThread) /\ \A i \in 1 .. Len(vs) : Good(vs[i])

(* The inductive invariant: it holds of the suspended VMThreads and activations *)
(* too, to which the running ones come back.                                    *)
PackedInv ==
  /\ work \in [Threads -> Seq(VMThread)]
  /\ \A t \in Threads : AllGood(work[t])

--------------------------------------------------------------------------------
(* Bits and bytes. *)

LEMMA BytesForNat == \A f \in Functions : BytesFor(f) \in Nat
  BY FunctionsAssumption DEF BytesFor

(* A drop bit has its byte among those made for the activation. *)
LEMMA ByteOfBit ==
  \A f \in Functions : \A n \in 0 .. Drops[f] - 1 :
    /\ n \div 8 \in Nat /\ n \div 8 < BytesFor(f)
    /\ n % 8 \in Byte
  BY FunctionsAssumption DEF BytesFor, Byte

(* Two bits at one place are one bit. *)
LEMMA BitsDiffer ==
  \A m, n \in Nat : m \div 8 = n \div 8 /\ m % 8 = n % 8 => m = n
  OBVIOUS

--------------------------------------------------------------------------------
(* What happens to one VMThread. *)

(* run_bytecode: the new activation's bytes are behind all others. *)
LEMMA EnterPacked ==
  ASSUME NEW flags, NEW frames, Packed(flags, frames), NEW f \in Functions
  PROVE  Packed(flags \o Zeros(f), Append(frames, StartsIn(f, Len(flags))))
<1> DEFINE new == flags \o Zeros(f)
           fr == StartsIn(f, Len(flags))
           all == Append(frames, fr)
<1>1. flags \in Seq(SUBSET Byte) /\ frames \in Frames
  BY DEF Packed
<1>2. fr \in Frame /\ BytesFor(f) \in Nat
  BY <1>1, BytesForNat DEF StartsIn, Frame, Running
<1>3. Zeros(f) \in Seq(SUBSET Byte) /\ Len(Zeros(f)) = BytesFor(f)
  BY <1>2 DEF Zeros
<1>4. /\ new \in Seq(SUBSET Byte) /\ Len(new) = Len(flags) + BytesFor(f)
      /\ \A k \in 1 .. Len(flags) : new[k] = flags[k]
      /\ \A k \in Len(flags) + 1 .. Len(new) : new[k] = {}
  BY <1>1, <1>2, <1>3 DEF Zeros
<1>5. /\ all \in Frames /\ Len(all) = Len(frames) + 1
      /\ \A j \in 1 .. Len(frames) : all[j] = frames[j]
      /\ all[Len(all)] = fr
  BY <1>1, <1>2 DEF Frames
<1>6. /\ fr.func = f /\ fr.base = Len(flags) /\ fr.holds = {} /\ fr.left = -1
  BY DEF StartsIn, Running
<1> HIDE DEF new, fr, all
<1>7. Tiled(new, all)
  <2>1. all # <<>>
    BY <1>5
  <2>2. all[1].base = 0
    BY <1>1, <1>5, <1>6 DEF Packed, Tiled, Frames
  <2>3. all[Len(all)].base + BytesFor(all[Len(all)].func) = Len(new)
    BY <1>4, <1>5, <1>6
  <2>4. ASSUME NEW j \in 1 .. Len(all) - 1
        PROVE  all[j + 1].base = all[j].base + BytesFor(all[j].func)
    <3>1. Len(frames) \in Nat /\ j \in 1 .. Len(frames) /\ all[j] = frames[j]
      BY <1>1, <1>5 DEF Frames
    <3>2. CASE j = Len(frames)
      <4>1. frames # <<>> /\ all[j + 1] = fr
        BY <1>5, <3>1, <3>2
      <4> QED
        BY <1>6, <3>1, <3>2, <4>1 DEF Packed, Tiled
    <3>3. CASE j # Len(frames)
      <4>1. j \in 1 .. Len(frames) - 1 /\ j + 1 \in 1 .. Len(frames)
        BY <3>1, <3>3
      <4> QED
        BY <1>5, <3>1, <4>1 DEF Packed, Tiled
    <3> QED
      BY <3>2, <3>3
  <2>5. ASSUME NEW i \in 1 .. Len(all), NEW j \in 1 .. Len(all), i < j
        PROVE  all[i].base + BytesFor(all[i].func) <= all[j].base
    <3>1. Len(frames) \in Nat /\ i \in 1 .. Len(frames) /\ all[i] = frames[i]
      BY <1>1, <1>5, <2>5 DEF Frames
    <3>2. CASE j = Len(all)
      BY <1>5, <1>6, <3>1, <3>2 DEF Packed, Agrees
    <3>3. CASE j # Len(all)
      <4>1. j \in 1 .. Len(frames) /\ all[j] = frames[j]
        BY <1>5, <3>1, <3>3
      <4> QED
        BY <2>5, <3>1, <4>1 DEF Packed, Tiled
    <3> QED
      BY <3>2, <3>3
  <2> QED
    BY <2>1, <2>2, <2>3, <2>4, <2>5 DEF Tiled
<1>8. Agrees(new, all)
  <2> SUFFICES ASSUME NEW j \in 1 .. Len(all)
               PROVE  /\ all[j].base + BytesFor(all[j].func) <= Len(new)
                      /\ all[j].holds \subseteq 0 .. Drops[all[j].func] - 1
                      /\ all[j].left <= Drops[all[j].func]
                      /\ \A n \in 0 .. Drops[all[j].func] - 1 :
                           n % 8 \in new[all[j].base + (n \div 8) + 1] <=> n \in all[j].holds
    BY DEF Agrees
  <2>1. CASE j = Len(all)
    <3>1. all[j] = fr /\ Drops[f] \in Nat /\ Len(flags) \in Nat
      BY <1>1, <1>5, <2>1, FunctionsAssumption
    <3>2. ASSUME NEW n \in 0 .. Drops[f] - 1
          PROVE  n % 8 \notin new[fr.base + (n \div 8) + 1]
      <4>1. fr.base + (n \div 8) + 1 \in Len(flags) + 1 .. Len(new)
        BY SMTT(30), <1>2, <1>4, <1>6, <3>1, ByteOfBit
      <4> QED
        BY <1>4, <4>1
    <3> QED
      <4>1. /\ fr.base + BytesFor(f) <= Len(new)
            /\ fr.left <= Drops[f]
        BY <1>2, <1>4, <1>6, <3>1
      <4> QED
        BY <1>6, <3>1, <3>2, <4>1
  <2>2. CASE j \in 1 .. Len(frames)
    <3>1. all[j] = frames[j] /\ frames[j] \in Frame
      BY <1>1, <1>5, <2>2 DEF Frames
    <3>2. frames[j].func \in Functions /\ frames[j].base \in Nat /\ BytesFor(frames[j].func) \in Nat
      BY <3>1, BytesForNat DEF Frame
    <3>3. frames[j].base + BytesFor(frames[j].func) <= Len(flags)
      BY <2>2 DEF Packed, Agrees
    <3>4. \A n \in 0 .. Drops[frames[j].func] - 1 :
            new[frames[j].base + (n \div 8) + 1] = flags[frames[j].base + (n \div 8) + 1]
      <4> SUFFICES ASSUME NEW n \in 0 .. Drops[frames[j].func] - 1
                   PROVE  new[frames[j].base + (n \div 8) + 1] = flags[frames[j].base + (n \div 8) + 1]
        OBVIOUS
      <4>1. n \div 8 \in Nat /\ n \div 8 < BytesFor(frames[j].func)
        BY <3>2, ByteOfBit
      <4>2. frames[j].base + (n \div 8) + 1 \in 1 .. Len(flags)
        BY <1>1, <3>2, <3>3, <4>1
      <4> QED
        BY <1>4, <4>2
    <3>5. /\ frames[j].holds \subseteq 0 .. Drops[frames[j].func] - 1
          /\ frames[j].left <= Drops[frames[j].func]
          /\ \A n \in 0 .. Drops[frames[j].func] - 1 :
               n % 8 \in flags[frames[j].base + (n \div 8) + 1] <=> n \in frames[j].holds
      BY <2>2 DEF Packed, Agrees
    <3>6. frames[j].base + BytesFor(frames[j].func) <= Len(new)
      <4>1. Len(flags) \in Nat /\ Len(new) = Len(flags) + BytesFor(f)
        BY <1>1, <1>4
      <4> QED
        BY <1>2, <3>2, <3>3, <4>1
    <3>7. \A n \in 0 .. Drops[frames[j].func] - 1 :
            n % 8 \in new[frames[j].base + (n \div 8) + 1] <=> n \in frames[j].holds
      BY <3>4, <3>5
    <3> QED
      BY <3>1, <3>5, <3>6, <3>7
  <2> QED
    <3>1. Len(frames) \in Nat
      BY <1>1 DEF Frames
    <3> QED
      BY <1>5, <2>1, <2>2, <3>1
<1> QED
  BY <1>4, <1>5, <1>7, <1>8 DEF Packed, new, fr, all

(* The end of an activation: its caller's flags are what is left. *)
LEMMA LeavePacked ==
  ASSUME NEW flags, NEW frames, Packed(flags, frames), frames # <<>>
  PROVE  Packed(SubSeq(flags, 1, frames[Len(frames)].base), SubSeq(frames, 1, Len(frames) - 1))
<1> DEFINE fr == frames[Len(frames)]
           new == SubSeq(flags, 1, fr.base)
           rest == SubSeq(frames, 1, Len(frames) - 1)
<1>1. flags \in Seq(SUBSET Byte) /\ frames \in Frames
  BY DEF Packed
<1>2. Len(frames) \in Nat \ {0} /\ fr \in Frame
  BY <1>1 DEF Frames
<1>3. fr.base \in Nat /\ fr.base <= Len(flags) /\ Len(flags) \in Nat
  <2>1. fr.func \in Functions /\ fr.base \in Nat
    BY <1>2 DEF Frame
  <2>2. fr.base + BytesFor(fr.func) <= Len(flags)
    BY <1>2 DEF Packed, Agrees
  <2> QED
    BY <1>1, <2>1, <2>2, BytesForNat
<1>4. /\ new \in Seq(SUBSET Byte) /\ Len(new) = fr.base
      /\ \A k \in 1 .. fr.base : new[k] = flags[k]
  BY <1>1, <1>3
<1>5. /\ rest \in Frames /\ Len(rest) = Len(frames) - 1
      /\ \A j \in 1 .. Len(rest) : rest[j] = frames[j] /\ rest[j] \in Frame /\ j \in 1 .. Len(frames)
  <2>1. rest \in Seq(Frame) /\ Len(rest) = Len(frames) - 1
    <3> DEFINE k == Len(frames) - 1
    <3>1. 1 \in Int /\ k \in Int /\ k \in Nat
      BY <1>2
    <3>2. \A i \in 1 .. k : frames[i] \in Frame
      BY <1>1 DEF Frames
    <3> HIDE DEF k
    <3>3. SubSeq(frames, 1, k) \in Seq(Frame)
      BY <3>1, <3>2, SubSeqProperties
    <3>4. Len(SubSeq(frames, 1, k)) = IF 1 <= k THEN k - 1 + 1 ELSE 0
      BY <3>1, <3>2, SubSeqProperties
    <3>5. Len(SubSeq(frames, 1, k)) = k
      BY <3>1, <3>4
    <3> QED
      BY <3>3, <3>5 DEF k
  <2>2. \A j \in 1 .. Len(frames) - 1 : rest[j] = frames[j]
    BY <1>1, <1>2 DEF Frames
  <2> HIDE DEF rest
  <2>3. \A j \in 1 .. Len(rest) : rest[j] \in Frame
    BY <2>1
  <2> QED
    BY <1>2, <2>1, <2>2, <2>3 DEF Frames
<1> HIDE DEF fr, new, rest
<1>6. \A j \in 1 .. Len(rest) : rest[j].base + BytesFor(rest[j].func) <= fr.base
  <2> SUFFICES ASSUME NEW j \in 1 .. Len(rest)
               PROVE  rest[j].base + BytesFor(rest[j].func) <= fr.base
    OBVIOUS
  <2>1. j < Len(frames) /\ j \in 1 .. Len(frames) /\ Len(frames) \in 1 .. Len(frames) /\ rest[j] = frames[j]
    BY <1>2, <1>5
  <2> QED
    BY <2>1 DEF Packed, Tiled, fr
<1>7. Tiled(new, rest)
  <2>1. ASSUME rest = <<>> PROVE new = <<>>
    <3>1. Len(frames) = 1
      BY <1>2, <1>5, <2>1
    <3>2. fr.base = 0
      BY <3>1 DEF Packed, Tiled, fr
    <3> QED
      BY <1>4, <3>2
  <2>2. ASSUME rest # <<>>
        PROVE  rest[1].base = 0 /\ rest[Len(rest)].base + BytesFor(rest[Len(rest)].func) = Len(new)
    <3>1. Len(rest) \in 1 .. Len(frames) - 1 /\ Len(rest) + 1 = Len(frames)
      BY <1>2, <1>5, <2>2 DEF Frames
    <3>2. rest[1] = frames[1] /\ rest[Len(rest)] = frames[Len(rest)]
      BY <1>5, <3>1
    <3>3. frames[1].base = 0
      BY DEF Packed, Tiled
    <3>4. fr.base = frames[Len(rest)].base + BytesFor(frames[Len(rest)].func)
      BY <3>1 DEF Packed, Tiled, fr
    <3> QED
      BY <1>4, <3>2, <3>3, <3>4
  <2>3. ASSUME NEW j \in 1 .. Len(rest) - 1
        PROVE  rest[j + 1].base = rest[j].base + BytesFor(rest[j].func)
    <3>1. j \in 1 .. Len(frames) - 1 /\ rest[j] = frames[j] /\ rest[j + 1] = frames[j + 1]
      BY <1>2, <1>5
    <3> QED
      BY <3>1 DEF Packed, Tiled
  <2>4. ASSUME NEW i \in 1 .. Len(rest), NEW j \in 1 .. Len(rest), i < j
        PROVE  rest[i].base + BytesFor(rest[i].func) <= rest[j].base
    BY <1>5, <2>4 DEF Packed, Tiled
  <2> QED
    BY <2>1, <2>2, <2>3, <2>4 DEF Tiled
<1>8. Agrees(new, rest)
  <2> SUFFICES ASSUME NEW j \in 1 .. Len(rest)
               PROVE  /\ rest[j].base + BytesFor(rest[j].func) <= Len(new)
                      /\ rest[j].holds \subseteq 0 .. Drops[rest[j].func] - 1
                      /\ rest[j].left <= Drops[rest[j].func]
                      /\ \A n \in 0 .. Drops[rest[j].func] - 1 :
                           n % 8 \in new[rest[j].base + (n \div 8) + 1] <=> n \in rest[j].holds
    BY DEF Agrees
  <2>1. rest[j] = frames[j] /\ j \in 1 .. Len(frames) /\ rest[j] \in Frame
    BY <1>5
  <2>2. ASSUME NEW n \in 0 .. Drops[rest[j].func] - 1
        PROVE  new[rest[j].base + (n \div 8) + 1] = flags[rest[j].base + (n \div 8) + 1]
    <3>1. rest[j].func \in Functions /\ rest[j].base \in Nat
      BY <2>1 DEF Frame
    <3>2. n \div 8 \in Nat /\ n \div 8 < BytesFor(rest[j].func) /\ BytesFor(rest[j].func) \in Nat
      BY <3>1, ByteOfBit, BytesForNat
    <3>3. rest[j].base + (n \div 8) + 1 \in 1 .. fr.base
      BY <1>3, <1>6, <3>1, <3>2
    <3> QED
      BY <1>4, <3>3
  <2>3. /\ frames[j].holds \subseteq 0 .. Drops[frames[j].func] - 1
        /\ frames[j].left <= Drops[frames[j].func]
        /\ \A n \in 0 .. Drops[frames[j].func] - 1 :
             n % 8 \in flags[frames[j].base + (n \div 8) + 1] <=> n \in frames[j].holds
    BY <2>1 DEF Packed, Agrees
  <2> QED
    <3>1. rest[j].base + BytesFor(rest[j].func) <= Len(new)
      BY <1>4, <1>6
    <3>2. \A n \in 0 .. Drops[rest[j].func] - 1 :
            n % 8 \in new[rest[j].base + (n \div 8) + 1] <=> n \in rest[j].holds
      BY <2>1, <2>2, <2>3
    <3> QED
      BY <2>1, <2>3, <3>1, <3>2
<1> QED
  BY <1>4, <1>5, <1>7, <1>8 DEF Packed, new, rest, fr

(* local_init and its like: one bit and one local of the last activation.       *)
LEMMA ChangePacked ==
  ASSUME NEW flags, NEW frames, Packed(flags, frames), frames # <<>>,
         NEW n \in 0 .. Drops[frames[Len(frames)].func] - 1,
         NEW fr \in Frame, NEW byte \in SUBSET Byte,
         fr.func = frames[Len(frames)].func, fr.base = frames[Len(frames)].base,
         fr.left <= Drops[fr.func], fr.holds \subseteq 0 .. Drops[fr.func] - 1,
         n % 8 \in byte <=> n \in fr.holds,
         \A k \in Byte \ {n % 8} : k \in byte <=> k \in flags[fr.base + (n \div 8) + 1],
         \A m \in 0 .. Drops[fr.func] - 1 : m # n => (m \in fr.holds <=> m \in frames[Len(frames)].holds)
  PROVE  Packed([flags EXCEPT ![fr.base + (n \div 8) + 1] = byte],
                [frames EXCEPT ![Len(frames)] = fr])
<1> DEFINE p == fr.base + (n \div 8) + 1
           last == Len(frames)
           new == [flags EXCEPT ![p] = byte]
           all == [frames EXCEPT ![last] = fr]
<1>1. flags \in Seq(SUBSET Byte) /\ frames \in Frames /\ last \in Nat \ {0}
  BY DEF Packed, Frames
<1>2. /\ all \in Frames /\ Len(all) = last /\ all[last] = fr
      /\ \A j \in 1 .. last : j # last => all[j] = frames[j]
      /\ \A j \in 1 .. last : /\ all[j] \in Frame
                            /\ all[j].func = frames[j].func /\ all[j].base = frames[j].base
  <2>1. frames \in Seq(Frame) /\ last \in 1 .. Len(frames)
    BY <1>1 DEF Frames
  <2>2. all \in Seq(Frame) /\ Len(all) = last
    BY <2>1, ExceptSeq
  <2>3. all[last] = fr /\ \A j \in 1 .. last : j # last => all[j] = frames[j]
    BY <2>1
  <2> HIDE DEF all
  <2>4. \A j \in 1 .. last : all[j] \in Frame
    BY <2>2
  <2>5. \A j \in 1 .. last : all[j].func = frames[j].func /\ all[j].base = frames[j].base
    BY <2>3
  <2> QED
    BY <2>2, <2>3, <2>4, <2>5 DEF Frames
<1>4. fr.func \in Functions /\ fr.base \in Nat /\ n \in Nat /\ n % 8 \in Byte
  <2>1. fr.func \in Functions /\ fr.base \in Nat
    BY DEF Frame
  <2>2. Drops[fr.func] \in Nat /\ n \in 0 .. Drops[fr.func] - 1
    BY <2>1, FunctionsAssumption
  <2> QED
    BY <2>1, <2>2, ByteOfBit
<1>5. p \in 1 .. Len(flags)
  <2>1. n \div 8 \in Nat /\ n \div 8 < BytesFor(fr.func) /\ BytesFor(fr.func) \in Nat
    BY <1>4, ByteOfBit, BytesForNat
  <2>2. fr.base + BytesFor(fr.func) <= Len(flags) /\ Len(flags) \in Nat
    BY <1>1 DEF Packed, Agrees
  <2> QED
    BY <1>4, <2>1, <2>2
<1>3. /\ new \in Seq(SUBSET Byte) /\ Len(new) = Len(flags)
      /\ \A k \in 1 .. Len(flags) : k # p => new[k] = flags[k]
      /\ new[p] = byte
  <2>1. new \in Seq(SUBSET Byte) /\ Len(new) = Len(flags)
    BY <1>1, <1>5, ExceptSeq
  <2> QED
    BY <1>1, <1>5, <2>1
<1> HIDE DEF last, new, all
<1>6. Tiled(new, all)
  <2>1. all # <<>> /\ frames # <<>>
    BY <1>1, <1>2 DEF Frames
  <2>2. last \in 1 .. last /\ 1 \in 1 .. last
    BY <1>1
  <2>3. all[1].base = 0 /\ all[Len(all)].base + BytesFor(all[Len(all)].func) = Len(new)
    BY <1>2, <1>3, <2>1, <2>2 DEF Packed, Tiled, last
  <2>4. ASSUME NEW j \in 1 .. Len(all) - 1
        PROVE  all[j + 1].base = all[j].base + BytesFor(all[j].func)
    <3>1. j \in 1 .. last /\ j + 1 \in 1 .. last /\ j \in 1 .. Len(frames) - 1
      BY <1>1, <1>2 DEF last
    <3> QED
      BY <1>2, <3>1 DEF Packed, Tiled
  <2>5. ASSUME NEW i \in 1 .. Len(all), NEW j \in 1 .. Len(all), i < j
        PROVE  all[i].base + BytesFor(all[i].func) <= all[j].base
    BY <1>2, <2>5 DEF Packed, Tiled, last
  <2> QED
    BY <2>1, <2>3, <2>4, <2>5 DEF Tiled
<1>7. Agrees(new, all)
  <2> SUFFICES ASSUME NEW j \in 1 .. last
               PROVE  /\ all[j].base + BytesFor(all[j].func) <= Len(new)
                      /\ all[j].holds \subseteq 0 .. Drops[all[j].func] - 1
                      /\ all[j].left <= Drops[all[j].func]
                      /\ \A m \in 0 .. Drops[all[j].func] - 1 :
                           m % 8 \in new[all[j].base + (m \div 8) + 1] <=> m \in all[j].holds
    BY <1>2 DEF Agrees
  <2>1. /\ frames[j].base + BytesFor(frames[j].func) <= Len(flags)
        /\ frames[j].holds \subseteq 0 .. Drops[frames[j].func] - 1
        /\ frames[j].left <= Drops[frames[j].func]
        /\ \A m \in 0 .. Drops[frames[j].func] - 1 :
             m % 8 \in flags[frames[j].base + (m \div 8) + 1] <=> m \in frames[j].holds
    BY DEF Packed, Agrees, last
  <2>2. all[j].base = frames[j].base /\ all[j].func = frames[j].func /\ all[j] \in Frame
    BY <1>2
  <2>3. all[j].holds \subseteq 0 .. Drops[all[j].func] - 1 /\ all[j].left <= Drops[all[j].func]
    BY <1>2, <2>1
  <2>4. ASSUME NEW m \in 0 .. Drops[all[j].func] - 1
        PROVE  m % 8 \in new[all[j].base + (m \div 8) + 1] <=> m \in all[j].holds
    <3> DEFINE q == all[j].base + (m \div 8) + 1
    <3>1. /\ all[j].func \in Functions /\ all[j].base \in Nat /\ m \in Nat
          /\ m \div 8 \in Nat /\ m \div 8 < BytesFor(all[j].func) /\ BytesFor(all[j].func) \in Nat
          /\ m % 8 \in Byte
      <4>1. all[j].func \in Functions /\ all[j].base \in Nat
        BY <2>2 DEF Frame
      <4>2. Drops[all[j].func] \in Nat /\ m \in Nat
        BY <4>1, FunctionsAssumption
      <4> QED
        BY <4>1, <4>2, ByteOfBit, BytesForNat
    <3>2. q \in 1 .. Len(flags)
      <4>1. all[j].base + BytesFor(all[j].func) <= Len(flags) /\ Len(flags) \in Nat
        BY <1>1, <2>1, <2>2
      <4> QED
        BY SMTT(30), <3>1, <4>1
    <3>3. CASE j = last
      <4>1. all[j] = fr /\ frames[j] = frames[Len(frames)]
        BY <1>2, <3>3 DEF last
      <4>2. CASE m = n
        BY <1>3, <1>5, <4>1, <4>2
      <4>3. CASE m # n /\ m \div 8 = n \div 8
        <5>1. m % 8 # n % 8
          BY <1>4, <3>1, <4>3, BitsDiffer
        <5>2. q = p /\ new[q] = byte
          BY <1>3, <1>5, <4>1, <4>3
        <5> QED
          BY <2>1, <2>2, <3>1, <4>1, <4>3, <5>1, <5>2
      <4>4. CASE m \div 8 # n \div 8
        <5>1. n \div 8 \in Nat /\ m # n
          BY <1>4, <4>4
        <5>2. q # p
          BY <1>4, <3>1, <4>1, <4>4, <5>1
        <5>3. new[q] = flags[q]
          BY <1>3, <3>2, <5>2
        <5> QED
          BY <2>1, <2>2, <4>1, <5>1, <5>3
      <4> QED
        BY <4>2, <4>3, <4>4
    <3>4. CASE j # last
      <4>1. all[j] = frames[j] /\ j < last
        BY <1>1, <1>2, <3>4
      <4>2. frames[j].base + BytesFor(frames[j].func) <= fr.base
        BY <1>1, <4>1 DEF Packed, Tiled, last
      <4>3. n \div 8 \in Nat
        BY <1>4
      <4>4. q # p
        BY SMTT(30), <1>4, <2>2, <3>1, <4>2, <4>3
      <4>5. new[q] = flags[q]
        BY <1>3, <3>2, <4>4
      <4> QED
        BY <2>1, <2>2, <4>1, <4>5
    <3> QED
      BY <3>3, <3>4
  <2> QED
    BY <1>3, <2>1, <2>2, <2>3, <2>4
<1> QED
  BY <1>2, <1>3, <1>6, <1>7 DEF Packed, new, all, last

(* Only the progress of the last activation changes. *)
LEMMA LeftPacked ==
  ASSUME NEW flags, NEW frames, Packed(flags, frames), frames # <<>>,
         NEW l \in Int, l <= Drops[frames[Len(frames)].func]
  PROVE  Packed(flags, [frames EXCEPT ![Len(frames)].left = l])
<1> DEFINE last == Len(frames)
           fr == [frames[last] EXCEPT !.left = l]
           all == [frames EXCEPT ![last] = fr]
<1>1. flags \in Seq(SUBSET Byte) /\ frames \in Seq(Frame) /\ last \in 1 .. Len(frames)
  BY DEF Packed, Frames
<1>2. frames[last] \in Frame
  BY <1>1
<1>3. /\ fr \in Frame /\ fr.func = frames[last].func /\ fr.base = frames[last].base
      /\ fr.holds = frames[last].holds /\ fr.left = l
  BY <1>2 DEF Frame
<1> HIDE DEF fr
<1>4. all \in Frames /\ Len(all) = last
  BY <1>1, <1>3, ExceptSeq DEF Frames
<1>5. all[last] = fr /\ \A j \in 1 .. last : j # last => all[j] = frames[j]
  BY <1>1
<1> HIDE DEF all
<1>6. \A j \in 1 .. last : all[j].func = frames[j].func /\ all[j].base = frames[j].base
                        /\ all[j].holds = frames[j].holds
  BY <1>3, <1>5
<1>7. \A j \in 1 .. last : all[j].left <= Drops[all[j].func]
  <2> SUFFICES ASSUME NEW j \in 1 .. last PROVE all[j].left <= Drops[all[j].func]
    OBVIOUS
  <2>1. CASE j = last
    BY <1>3, <1>5, <2>1
  <2>2. CASE j # last
    BY <1>5, <2>2 DEF Packed, Agrees
  <2> QED
    BY <2>1, <2>2
<1>8. Tiled(flags, all)
  <2>1. all # <<>> /\ 1 \in 1 .. last /\ last \in 1 .. last
    BY <1>1, <1>4 DEF Frames
  <2> QED
    BY <1>4, <1>6, <2>1 DEF Packed, Tiled
<1>9. Agrees(flags, all)
  BY <1>4, <1>6, <1>7 DEF Packed, Agrees
<1> QED
  BY <1>1, <1>4, <1>8, <1>9 DEF Packed, all, fr

--------------------------------------------------------------------------------
(* The same for the operators of Runtime. *)

(* The running activation and its bytes. *)
LEMMA TopGood ==
  ASSUME NEW v, Good(v), v.frames # <<>>
  PROVE  /\ Top(v) \in Frame /\ v.frames \in Seq(Frame) /\ Len(v.frames) \in 1 .. Len(v.frames)
         /\ v.flags \in Seq(SUBSET Byte)
         /\ Top(v).holds \subseteq 0 .. Drops[Top(v).func] - 1
         /\ Drops[Top(v).func] \in Nat
         /\ \A n \in 0 .. Drops[Top(v).func] - 1 : Place(Top(v), n) \in 1 .. Len(v.flags)
<1>1. /\ v.frames \in Seq(Frame) /\ Len(v.frames) \in 1 .. Len(v.frames)
      /\ v.flags \in Seq(SUBSET Byte)
  BY DEF Good, Packed, Frames
<1>2. Top(v) \in Frame
  BY <1>1 DEF Top
<1>3. /\ Top(v).holds \subseteq 0 .. Drops[Top(v).func] - 1
      /\ Top(v).base + BytesFor(Top(v).func) <= Len(v.flags)
  BY <1>1 DEF Good, Packed, Agrees, Top
<1>4. Top(v).func \in Functions /\ Top(v).base \in Nat
  BY <1>2 DEF Frame
<1>5. \A n \in 0 .. Drops[Top(v).func] - 1 : Place(Top(v), n) \in 1 .. Len(v.flags)
  <2> SUFFICES ASSUME NEW n \in 0 .. Drops[Top(v).func] - 1 PROVE Place(Top(v), n) \in 1 .. Len(v.flags)
    OBVIOUS
  <2>1. n \div 8 \in Nat /\ n \div 8 < BytesFor(Top(v).func) /\ BytesFor(Top(v).func) \in Nat
    BY <1>4, ByteOfBit, BytesForNat
  <2>2. Len(v.flags) \in Nat
    BY <1>1
  <2> QED
    BY <1>3, <1>4, <2>1, <2>2 DEF Place
<1> QED
  BY <1>1, <1>2, <1>3, <1>4, <1>5, FunctionsAssumption

(* local_init, and the half of local_drop_init that only sets the flag. *)
LEMMA SetGood ==
  ASSUME NEW v, Good(v), v.frames # <<>>, NEW n \in 0 .. Drops[Top(v).func] - 1
  PROVE  Good([v EXCEPT !.flags = SetFlag(v, n), !.frames = Holding(v, Top(v).holds \cup {n})])
<1> DEFINE fr == [Top(v) EXCEPT !.holds = Top(v).holds \cup {n}]
           byte == v.flags[Place(Top(v), n)] \cup {n % 8}
<1>1. /\ Top(v) \in Frame /\ v.flags \in Seq(SUBSET Byte)
      /\ Place(Top(v), n) \in 1 .. Len(v.flags)
      /\ Top(v).holds \subseteq 0 .. Drops[Top(v).func] - 1
      /\ Drops[Top(v).func] \in Nat
  BY TopGood
<1>2. /\ fr \in Frame /\ fr.func = Top(v).func /\ fr.base = Top(v).base /\ fr.left = Top(v).left
      /\ fr.holds = Top(v).holds \cup {n}
  BY <1>1 DEF Frame
<1>3. n % 8 \in Byte /\ v.flags[Place(Top(v), n)] \in SUBSET Byte
  <2>1. n % 8 \in Byte
    BY <1>1 DEF Byte
  <2> QED
    BY <1>1, <2>1
<1>4. Top(v).left <= Drops[Top(v).func]
  BY TopGood DEF Good, Packed, Agrees, Top
<1>5. Place(Top(v), n) = fr.base + (n \div 8) + 1
  BY <1>2 DEF Place
<1> HIDE DEF fr
<1>6. Packed([v.flags EXCEPT ![fr.base + (n \div 8) + 1] = byte], [v.frames EXCEPT ![Len(v.frames)] = fr])
  <2>1. Packed(v.flags, v.frames) /\ Top(v) = v.frames[Len(v.frames)]
    BY DEF Good, Top
  <2>2. byte \in SUBSET Byte /\ n % 8 \in byte /\ n \in fr.holds
    BY <1>2, <1>3
  <2>3. \A k \in Byte \ {n % 8} : k \in byte <=> k \in v.flags[fr.base + (n \div 8) + 1]
    BY <1>5
  <2>4. \A m \in 0 .. Drops[fr.func] - 1 : m # n => (m \in fr.holds <=> m \in v.frames[Len(v.frames)].holds)
    BY <1>2, <2>1
  <2>5. fr.left <= Drops[fr.func] /\ fr.holds \subseteq 0 .. Drops[fr.func] - 1
    BY <1>1, <1>2, <1>4
  <2>6. fr.func = v.frames[Len(v.frames)].func /\ fr.base = v.frames[Len(v.frames)].base
        /\ n \in 0 .. Drops[v.frames[Len(v.frames)].func] - 1
    BY <1>2, <2>1
  <2> HIDE DEF byte
  <2> QED
    BY <1>2, <2>1, <2>2, <2>3, <2>4, <2>5, <2>6, ChangePacked
<1>7. /\ SetFlag(v, n) = [v.flags EXCEPT ![fr.base + (n \div 8) + 1] = byte]
      /\ Holding(v, Top(v).holds \cup {n}) = [v.frames EXCEPT ![Len(v.frames)] = fr]
  BY <1>5 DEF SetFlag, Holding, Top, fr
<1>8. Packed(SetFlag(v, n), Holding(v, Top(v).holds \cup {n}))
  BY <1>6, <1>7
<1> QED
  BY <1>8 DEF Good, VMThread, Packed, Frames, Frame

(* local_move and local_drop: the flag is cleared. *)
LEMMA DroppedGood ==
  ASSUME NEW v, Good(v), v.frames # <<>>, NEW n \in 0 .. Drops[Top(v).func] - 1
  PROVE  /\ Good(Dropped(v, n)) /\ Dropped(v, n).frames # <<>>
         /\ Len(Dropped(v, n).frames) = Len(v.frames)
         /\ Top(Dropped(v, n)).func = Top(v).func
<1> DEFINE fr == [Top(v) EXCEPT !.holds = Top(v).holds \ {n}]
           byte == v.flags[Place(Top(v), n)] \ {n % 8}
<1>1. /\ Top(v) \in Frame /\ v.flags \in Seq(SUBSET Byte)
      /\ Place(Top(v), n) \in 1 .. Len(v.flags)
      /\ Top(v).holds \subseteq 0 .. Drops[Top(v).func] - 1
      /\ v.frames \in Seq(Frame) /\ Len(v.frames) \in 1 .. Len(v.frames)
  BY TopGood
<1>2. /\ fr \in Frame /\ fr.func = Top(v).func /\ fr.base = Top(v).base /\ fr.left = Top(v).left
      /\ fr.holds = Top(v).holds \ {n}
  BY <1>1 DEF Frame
<1>3. v.flags[Place(Top(v), n)] \in SUBSET Byte
  BY <1>1
<1>4. Top(v).left <= Drops[Top(v).func]
  BY TopGood DEF Good, Packed, Agrees, Top
<1>5. Place(Top(v), n) = fr.base + (n \div 8) + 1
  BY <1>2 DEF Place
<1> HIDE DEF fr
<1>6. Packed([v.flags EXCEPT ![fr.base + (n \div 8) + 1] = byte], [v.frames EXCEPT ![Len(v.frames)] = fr])
  <2>1. Packed(v.flags, v.frames) /\ Top(v) = v.frames[Len(v.frames)]
    BY DEF Good, Top
  <2>2. byte \in SUBSET Byte /\ n % 8 \notin byte /\ n \notin fr.holds
    BY <1>2, <1>3
  <2>3. \A k \in Byte \ {n % 8} : k \in byte <=> k \in v.flags[fr.base + (n \div 8) + 1]
    BY <1>5
  <2>4. \A m \in 0 .. Drops[fr.func] - 1 : m # n => (m \in fr.holds <=> m \in v.frames[Len(v.frames)].holds)
    BY <1>2, <2>1
  <2>5. fr.left <= Drops[fr.func] /\ fr.holds \subseteq 0 .. Drops[fr.func] - 1
    BY <1>1, <1>2, <1>4
  <2>6. fr.func = v.frames[Len(v.frames)].func /\ fr.base = v.frames[Len(v.frames)].base
        /\ n \in 0 .. Drops[v.frames[Len(v.frames)].func] - 1
    BY <1>2, <2>1
  <2> HIDE DEF byte
  <2> QED
    BY <1>2, <2>1, <2>2, <2>3, <2>4, <2>5, <2>6, ChangePacked
<1>7. /\ ClearFlag(v, n) = [v.flags EXCEPT ![fr.base + (n \div 8) + 1] = byte]
      /\ Holding(v, Top(v).holds \ {n}) = [v.frames EXCEPT ![Len(v.frames)] = fr]
  BY <1>5 DEF ClearFlag, Holding, Top, fr
<1>8. Packed(ClearFlag(v, n), Holding(v, Top(v).holds \ {n}))
  BY <1>6, <1>7
<1>9. Dropped(v, n).frames = [v.frames EXCEPT ![Len(v.frames)] = fr]
  BY <1>7 DEF Dropped, Good, VMThread
<1>10. Good(Dropped(v, n))
  BY <1>8 DEF Good, VMThread, Packed, Frames, Frame, Dropped
<1>11. Len(Dropped(v, n).frames) = Len(v.frames) /\ Top(Dropped(v, n)) = fr
  BY <1>1, <1>2, <1>9, ExceptSeq DEF Top
<1>12. Dropped(v, n).frames # <<>>
  BY <1>1, <1>11
<1> QED
  BY <1>2, <1>10, <1>11, <1>12

(* A VMThread that is about to be given its stack. *)
Ready(v) ==
  /\ v \in [stack : Stacks \cup {None}, flags : Seq(SUBSET Byte), call : Functions \cup {None},
            compiling : {FALSE}, frames : Frames]
  /\ Packed(v.flags, v.frames)

LEMMA FreshReady ==
  ASSUME NEW f \in Functions \cup {None}
  PROVE  Ready(Fresh(f))
<1>1. Packed(<<>>, <<>>)
  <2>1. Tiled(<<>>, <<>>) /\ Agrees(<<>>, <<>>)
    BY DEF Tiled, Agrees
  <2> QED
    BY <2>1 DEF Packed, Frames
<1>2. /\ Fresh(f).flags = <<>> /\ Fresh(f).frames = <<>>
      /\ Fresh(f) \in [stack : Stacks \cup {None}, flags : Seq(SUBSET Byte),
                       call : Functions \cup {None}, compiling : {FALSE}, frames : Frames]
  BY DEF Fresh, Frames
<1> QED
  BY <1>1, <1>2 DEF Ready

LEMMA EnterReady ==
  ASSUME NEW f \in Functions
  PROVE  Ready(Enter(Fresh(None), f))
<1> DEFINE v == Fresh(None)
<1>1. Ready(v)
  BY FreshReady
<1> HIDE DEF v
<1>2. Packed(v.flags \o Zeros(f), Append(v.frames, StartsIn(f, Len(v.flags))))
  BY <1>1, EnterPacked DEF Ready
<1> QED
  BY <1>1, <1>2 DEF Ready, Enter, Packed, v

LEMMA EnterGood ==
  ASSUME NEW v, Good(v), ~v.compiling, NEW f \in Functions
  PROVE  Good(Enter(v, f))
<1>1. Packed(v.flags \o Zeros(f), Append(v.frames, StartsIn(f, Len(v.flags))))
  BY EnterPacked DEF Good
<1> QED
  BY <1>1 DEF Good, Enter, Packed, VMThread, Frames, Frame

LEMMA LeaveGood ==
  ASSUME NEW v, Good(v), v.frames # <<>>
  PROVE  Good(Leave(v))
<1>1. Packed(SubSeq(v.flags, 1, Top(v).base), SubSeq(v.frames, 1, Len(v.frames) - 1))
  BY LeavePacked DEF Good, Top
<1> QED
  BY <1>1 DEF Good, Leave, Packed, VMThread, Frames, Frame

LEMMA LeftGood ==
  ASSUME NEW v, Good(v), v.frames # <<>>, NEW l \in Int, l <= Drops[Top(v).func]
  PROVE  Good([v EXCEPT !.frames[Len(v.frames)].left = l])
<1>1. Packed(v.flags, [v.frames EXCEPT ![Len(v.frames)].left = l])
  BY LeftPacked DEF Good, Top
<1> QED
  BY <1>1 DEF Good, Packed, VMThread, Frames, Frame

(* The call that a VMThread is about to make is not about its flags. *)
LEMMA CallGood ==
  ASSUME NEW v, Good(v), NEW f \in Functions, NEW b \in BOOLEAN
  PROVE  /\ Good([v EXCEPT !.call = f])
         /\ v.call \in Functions => Good([v EXCEPT !.compiling = b])
  BY DEF Good, VMThread

--------------------------------------------------------------------------------
(* The VMThreads of one thread, and all of them. *)

LEMMA CurGood ==
  ASSUME PackedInv, NEW t \in Threads, Live(t)
  PROVE  Good(Cur(t)) /\ work[t] \in Seq(VMThread) /\ Len(work[t]) \in 1 .. Len(work[t])
<1>1. work[t] \in Seq(VMThread) /\ Len(work[t]) \in 1 .. Len(work[t])
  BY DEF PackedInv, Live
<1> QED
  BY <1>1 DEF PackedInv, AllGood, Cur

LEMMA WithGood ==
  ASSUME PackedInv, NEW t \in Threads, Live(t), NEW v, Good(v)
  PROVE  AllGood(With(t, v))
<1>1. work[t] \in Seq(VMThread) /\ Len(work[t]) \in 1 .. Len(work[t]) /\ v \in VMThread
  BY CurGood DEF Good
<1>2. /\ With(t, v) \in Seq(VMThread) /\ Len(With(t, v)) = Len(work[t])
  BY <1>1, ExceptSeq DEF With
<1>3. \A i \in 1 .. Len(work[t]) : With(t, v)[i] = IF i = Len(work[t]) THEN v ELSE work[t][i]
  BY <1>1 DEF With
<1>4. \A i \in 1 .. Len(work[t]) : Good(work[t][i])
  BY DEF PackedInv, AllGood
<1> QED
  BY <1>2, <1>3, <1>4 DEF AllGood

LEMMA WorkGood ==
  ASSUME PackedInv, NEW t \in Threads, NEW vs, AllGood(vs), work' = [work EXCEPT ![t] = vs]
  PROVE  PackedInv'
<1>1. vs \in Seq(VMThread)
  BY DEF AllGood
<1>2. work' \in [Threads -> Seq(VMThread)]
  BY <1>1 DEF PackedInv
<1>3. \A u \in Threads : AllGood(work'[u])
  BY DEF PackedInv
<1> QED
  BY <1>2, <1>3 DEF PackedInv

LEMMA BecomesGood ==
  ASSUME PackedInv, NEW t \in Threads, Live(t), NEW v, Good(v), Becomes(t, v)
  PROVE  PackedInv'
<1>1. AllGood(With(t, v))
  BY WithGood
<1> QED
  BY <1>1, WorkGood DEF Becomes

LEMMA NestGood ==
  ASSUME PackedInv, NEW t \in Threads, NEW vs, AllGood(vs), NEW v, Ready(v), Nest(t, vs, v)
  PROVE  PackedInv'
<1>1. PICK s \in Stacks : work' = [work EXCEPT ![t] = Append(vs, [v EXCEPT !.stack = s])]
  BY DEF Nest
<1> DEFINE w == [v EXCEPT !.stack = s]
<1>2. Good(w)
  BY DEF Ready, Good, VMThread, Frames, Frame
<1> HIDE DEF w
<1>3. vs \in Seq(VMThread) /\ w \in VMThread
  BY <1>2 DEF AllGood, Good
<1>4. /\ Append(vs, w) \in Seq(VMThread) /\ Len(Append(vs, w)) = Len(vs) + 1
      /\ \A i \in 1 .. Len(vs) : Append(vs, w)[i] = vs[i]
      /\ Append(vs, w)[Len(vs) + 1] = w
  BY <1>3
<1>5. \A i \in 1 .. Len(vs) + 1 : i \in 1 .. Len(vs) \/ i = Len(vs) + 1
  BY <1>3
<1>6. AllGood(Append(vs, w))
  BY <1>2, <1>4, <1>5 DEF AllGood
<1> QED
  BY <1>1, <1>6, WorkGood DEF w

LEMMA RunGlueGood ==
  ASSUME PackedInv, NEW t \in Threads, Live(t), NEW v, Good(v), v.frames # <<>>, RunGlue(t, v)
  PROVE  PackedInv'
<1>1. AllGood(With(t, v))
  BY WithGood
<1>2. Glue[Top(v).func] \in Functions
  BY TopGood, FunctionsAssumption DEF Frame
<1>3. Ready(Fresh(Glue[Top(v).func]))
  BY <1>2, FreshReady
<1> QED
  BY <1>1, <1>3, NestGood DEF RunGlue

--------------------------------------------------------------------------------
(* Every step keeps every activation's flags. *)

RuntimeInv == PackedInv /\ bytecode \subseteq Functions

LEMMA InitRuntimeInv == Init => RuntimeInv
  BY DEF Init, RuntimeInv, PackedInv, AllGood

LEMMA PackedNext ==
  ASSUME RuntimeInv, [Next]_vars
  PROVE  PackedInv'
<1> USE DEF RuntimeInv
<1>1. CASE UNCHANGED vars
  BY <1>1 DEF vars, PackedInv, AllGood
<1>2. ASSUME NEW t \in Threads, Start(t)
      PROVE  PackedInv'
  <2>1. AllGood(work[t])
    BY DEF PackedInv
  <2>2. CASE \E f \in Roots[t] : Nest(t, work[t], Fresh(f))
    <3>1. PICK f \in Roots[t] : Nest(t, work[t], Fresh(f))
      BY <2>2
    <3>2. f \in Functions
      BY FunctionsAssumption
    <3> QED
      BY <2>1, <3>1, <3>2, FreshReady, NestGood
  <2>3. CASE \E c \in Evals[t] : Nest(t, work[t], Enter(Fresh(None), c))
    <3>1. PICK c \in Evals[t] : Nest(t, work[t], Enter(Fresh(None), c))
      BY <2>3
    <3>2. c \in Functions
      BY FunctionsAssumption
    <3> QED
      BY <2>1, <3>1, <3>2, EnterReady, NestGood
  <2> QED
    BY <1>2, <2>2, <2>3 DEF Start
<1>3. ASSUME NEW t \in Threads, Live(t), Fetch(t)
      PROVE  PackedInv'
  <2>1. Good(Cur(t)) /\ Cur(t).call \in Functions /\ ~Cur(t).compiling
    BY <1>3, CurGood DEF Fetch
  <2> QED
    BY <1>3, <2>1, EnterGood, BecomesGood DEF Fetch
<1>4. ASSUME NEW t \in Threads, Live(t), Compile(t)
      PROVE  PackedInv'
  <2>1. Good([Cur(t) EXCEPT !.compiling = TRUE])
    BY <1>4, CurGood, CallGood DEF Compile
  <2> QED
    BY <1>4, <2>1, BecomesGood DEF Compile
<1>5. ASSUME NEW t \in Threads, Live(t), Evaluate(t)
      PROVE  PackedInv'
  <2>1. AllGood(work[t]) /\ Good(Cur(t))
    BY <1>5, CurGood DEF PackedInv
  <2>2. PICK c \in Consts[Cur(t).call] : Nest(t, work[t], Enter(Fresh(None), c))
    BY <1>5 DEF Evaluate
  <2>3. Cur(t).call \in Functions
    BY <1>5, <2>1 DEF Evaluate, Good
  <2>4. c \in Functions
    BY <2>3, FunctionsAssumption
  <2> QED
    BY <2>1, <2>2, <2>4, EnterReady, NestGood
<1>6. ASSUME NEW t \in Threads, Live(t), Publish(t)
      PROVE  PackedInv'
  <2>1. Good([Cur(t) EXCEPT !.compiling = FALSE])
    BY <1>6, CurGood DEF Good, VMThread
  <2> QED
    BY <1>6, <2>1, BecomesGood DEF Publish
<1>7. ASSUME NEW t \in Threads, Live(t), CallFn(t)
      PROVE  PackedInv'
  <2>1. Good(Cur(t)) /\ Cur(t).frames # <<>>
    BY <1>7, CurGood DEF CallFn, Executes
  <2>2. PICK g \in Calls[Top(Cur(t)).func] : Becomes(t, [Cur(t) EXCEPT !.call = g])
    BY <1>7 DEF CallFn
  <2>3. Top(Cur(t)).func \in Functions
    BY <2>1, TopGood DEF Frame
  <2>4. g \in Functions
    BY <2>3, FunctionsAssumption
  <2> QED
    BY <1>7, <2>1, <2>2, <2>4, CallGood, BecomesGood
<1>8. ASSUME NEW t \in Threads, Live(t), Executes(t), NEW n \in Uses[Top(Cur(t)).func]
      PROVE  /\ Good(Cur(t)) /\ Cur(t).frames # <<>> /\ Top(Cur(t)).func \in Functions
             /\ n \in 0 .. Drops[Top(Cur(t)).func] - 1
             /\ Good([Cur(t) EXCEPT !.flags = SetFlag(Cur(t), n),
                                    !.frames = Holding(Cur(t), Top(Cur(t)).holds \cup {n})])
             /\ Good(Dropped(Cur(t), n)) /\ Dropped(Cur(t), n).frames # <<>>
  <2>1. Good(Cur(t)) /\ Cur(t).frames # <<>>
    BY <1>8, CurGood DEF Executes
  <2>2. Top(Cur(t)).func \in Functions
    BY <2>1, TopGood DEF Frame
  <2>3. n \in 0 .. Drops[Top(Cur(t)).func] - 1
    BY <2>2, FunctionsAssumption
  <2> QED
    BY <2>1, <2>2, <2>3, SetGood, DroppedGood
<1>9. ASSUME NEW t \in Threads, Live(t), LocalInit(t)
      PROVE  PackedInv'
  <2>1. PICK n \in Uses[Top(Cur(t)).func] :
          Becomes(t, [Cur(t) EXCEPT !.flags = SetFlag(Cur(t), n),
                                    !.frames = Holding(Cur(t), Top(Cur(t)).holds \cup {n})])
    BY <1>9 DEF LocalInit
  <2>2. Executes(t)
    BY <1>9 DEF LocalInit
  <2> QED
    BY <1>8, <1>9, <2>1, <2>2, BecomesGood
<1>10. ASSUME NEW t \in Threads, Live(t), LocalMove(t)
       PROVE  PackedInv'
  <2>1. PICK n \in Top(Cur(t)).holds : Becomes(t, Dropped(Cur(t), n))
    BY <1>10 DEF LocalMove
  <2>2. Good(Cur(t)) /\ Cur(t).frames # <<>>
    BY <1>10, CurGood DEF LocalMove, Executes
  <2>3. n \in 0 .. Drops[Top(Cur(t)).func] - 1
    BY <2>2, TopGood
  <2>4. Good(Dropped(Cur(t), n))
    BY <2>2, <2>3, DroppedGood
  <2> QED
    BY <1>10, <2>1, <2>4, BecomesGood
<1>11. ASSUME NEW t \in Threads, Live(t), LocalDrop(t)
       PROVE  PackedInv'
  <2>1. PICK n \in Uses[Top(Cur(t)).func] : RunGlue(t, Dropped(Cur(t), n))
    BY <1>11 DEF LocalDrop
  <2>2. Executes(t)
    BY <1>11 DEF LocalDrop
  <2> QED
    BY <1>8, <1>11, <2>1, <2>2, RunGlueGood
<1>12. ASSUME NEW t \in Threads, Live(t), LocalDropInit(t)
       PROVE  PackedInv'
  <2>1. PICK n \in Uses[Top(Cur(t)).func] :
          \/ RunGlue(t, Cur(t))
          \/ Becomes(t, [Cur(t) EXCEPT !.flags = SetFlag(Cur(t), n),
                                       !.frames = Holding(Cur(t), Top(Cur(t)).holds \cup {n})])
    BY <1>12 DEF LocalDropInit
  <2>2. Executes(t)
    BY <1>12 DEF LocalDropInit
  <2> QED
    BY <1>8, <1>12, <2>1, <2>2, RunGlueGood, BecomesGood
<1>13. ASSUME NEW t \in Threads, Live(t), Return(t)
       PROVE  PackedInv'
  <2>1. Good(Cur(t)) /\ Cur(t).frames # <<>>
    BY <1>13, CurGood DEF Return, Executes
  <2>2. Drops[Top(Cur(t)).func] \in Nat
    BY <2>1, TopGood
  <2>3. Good([Cur(t) EXCEPT !.frames[Len(Cur(t).frames)].left = Drops[Top(Cur(t)).func]])
    BY <2>1, <2>2, LeftGood
  <2> QED
    BY <1>13, <2>3, BecomesGood DEF Return
<1>14. ASSUME NEW t \in Threads, Live(t), DropRest(t)
       PROVE  PackedInv'
  <2>1. Good(Cur(t)) /\ Cur(t).frames # <<>>
    BY <1>14, CurGood DEF DropRest, Returns
  <2>2. PICK n \in Due(Cur(t)) :
          RunGlue(t, [Dropped(Cur(t), n) EXCEPT !.frames[Len(Cur(t).frames)].left = n])
    BY <1>14 DEF DropRest
  <2>3. n \in 0 .. Drops[Top(Cur(t)).func] - 1
    <3>1. Top(Cur(t)).left <= Drops[Top(Cur(t)).func] /\ Top(Cur(t)).left \in Int
      BY <2>1, TopGood DEF Good, Packed, Agrees, Top, Frame
    <3>2. Drops[Top(Cur(t)).func] \in Nat /\ n \in 0 .. Top(Cur(t)).left - 1
      BY <2>1, TopGood DEF Due
    <3> QED
      BY <3>1, <3>2
  <2>4. /\ Good(Dropped(Cur(t), n)) /\ Dropped(Cur(t), n).frames # <<>>
        /\ Len(Dropped(Cur(t), n).frames) = Len(Cur(t).frames)
        /\ Top(Dropped(Cur(t), n)).func = Top(Cur(t)).func
    BY <2>1, <2>3, DroppedGood
  <2>5. n \in Int /\ n <= Drops[Top(Cur(t)).func]
    BY <2>1, <2>3, TopGood
  <2> DEFINE v == [Dropped(Cur(t), n) EXCEPT !.frames[Len(Cur(t).frames)].left = n]
  <2>6. Good(v)
    BY <2>4, <2>5, LeftGood
  <2>7. v.frames # <<>>
    <3>1. Dropped(Cur(t), n).frames \in Seq(Frame) /\ v.frames \in Seq(Frame)
      BY <2>4, <2>6 DEF Good, Packed, Frames
    <3>2. v.frames = [Dropped(Cur(t), n).frames EXCEPT ![Len(Cur(t).frames)].left = n]
      BY <2>4 DEF Good, VMThread
    <3>3. Len(v.frames) = Len(Cur(t).frames)
      BY <2>4, <3>1, <3>2
    <3> QED
      BY <2>4, <3>1, <3>3
  <2> HIDE DEF v
  <2> QED
    BY <1>14, <2>2, <2>6, <2>7, RunGlueGood DEF v
<1>15. ASSUME NEW t \in Threads, Live(t), Finish(t)
       PROVE  PackedInv'
  <2>1. Good(Cur(t)) /\ Cur(t).frames # <<>>
    BY <1>15, CurGood DEF Finish, Returns
  <2> QED
    BY <1>15, <2>1, LeaveGood, BecomesGood DEF Finish
<1>16. ASSUME NEW t \in Threads, Live(t), End(t)
       PROVE  PackedInv'
  <2> DEFINE vs == SubSeq(work[t], 1, Len(work[t]) - 1)
  <2>1. work[t] \in Seq(VMThread) /\ Len(work[t]) \in 1 .. Len(work[t])
    BY <1>16, CurGood
  <2>2. /\ vs \in Seq(VMThread) /\ Len(vs) = Len(work[t]) - 1
        /\ \A i \in 1 .. Len(work[t]) - 1 : vs[i] = work[t][i]
    <3>1. Len(work[t]) - 1 \in 0 .. Len(work[t])
      BY <2>1
    <3> QED
      BY <2>1, <3>1
  <2>3. AllGood(vs)
    BY <2>1, <2>2 DEF PackedInv, AllGood
  <2>4. work' = [work EXCEPT ![t] = vs]
    BY <1>16, <2>1 DEF End, PackedInv
  <2> QED
    BY <2>3, <2>4, WorkGood
<1> QED
  BY <1>1, <1>2, <1>3, <1>4, <1>5, <1>6, <1>7, <1>9, <1>10, <1>11, <1>12, <1>13, <1>14,
     <1>15, <1>16 DEF Next

LEMMA BytecodeNext ==
  ASSUME RuntimeInv, [Next]_vars
  PROVE  bytecode' \subseteq Functions
<1>1. ASSUME NEW t \in Threads, Live(t), Publish(t)
      PROVE  bytecode' \subseteq Functions
  <2>1. Good(Cur(t))
    BY <1>1, CurGood DEF RuntimeInv
  <2> QED
    BY <1>1, <2>1 DEF Publish, Good, RuntimeInv
<1> QED
  BY <1>1 DEF Next, Start, Fetch, Compile, Evaluate, CallFn, LocalInit, LocalMove, LocalDrop,
              LocalDropInit, Return, DropRest, Finish, End, vars, RuntimeInv

LEMMA PackedAgrees ==
  ASSUME RuntimeInv
  PROVE  FlagsAreFrames
<1> SUFFICES ASSUME NEW t \in Threads, NEW i \in 1 .. Len(work[t]),
                    NEW j \in 1 .. Len(work[t][i].frames),
                    NEW n \in 0 .. Drops[work[t][i].frames[j].func] - 1
             PROVE  /\ InBounds(work[t][i], work[t][i].frames[j], n)
                    /\ IsSet(work[t][i], work[t][i].frames[j], n) <=> n \in work[t][i].frames[j].holds
  BY DEF FlagsAreFrames
<1> DEFINE v == work[t][i]
           fr == work[t][i].frames[j]
<1>1. Packed(v.flags, v.frames)
  BY DEF RuntimeInv, PackedInv, AllGood, Good
<1>2. fr \in Frame /\ Len(v.flags) \in Nat
  BY <1>1 DEF Packed, Frames
<1>3. fr.func \in Functions /\ fr.base \in Nat
  BY <1>2 DEF Frame
<1>4. /\ fr.base + BytesFor(fr.func) <= Len(v.flags)
      /\ n % 8 \in v.flags[fr.base + (n \div 8) + 1] <=> n \in fr.holds
  BY <1>1 DEF Packed, Agrees
<1>5. n \div 8 \in Nat /\ n \div 8 < BytesFor(fr.func) /\ BytesFor(fr.func) \in Nat
  BY <1>3, ByteOfBit, BytesForNat
<1>6. fr.base + (n \div 8) + 1 <= Len(v.flags)
  <2> HIDE DEF v, fr
  <2> QED
    BY <1>2, <1>3, <1>4, <1>5
<1> QED
  BY <1>4, <1>6 DEF InBounds, IsSet, Place

(* No activation ever sees or changes a drop flag of another: what LocalInit,    *)
(* LocalMove and the drops of vm.rs find in the shared vector is what their own  *)
(* activation holds, for every number of bits and every depth of calls.          *)
THEOREM FlagsNeverShared == Spec => []FlagsAreFrames
<1>1. RuntimeInv /\ [Next]_vars => RuntimeInv'
  BY PackedNext, BytecodeNext DEF RuntimeInv
<1> QED
  BY <1>1, InitRuntimeInv, PackedAgrees, PTL DEF Spec

--------------------------------------------------------------------------------
(* Who owns a stack. *)

(* The stacks of each thread's VMThreads. *)
StacksOf(vs) == [i \in 1 .. Len(vs) |-> vs[i].stack]
Owned == [t \in Threads |-> StacksOf(work[t])]

(* Every stack made is in one place: with an owner or in the pool.              *)
Placed(owned, pooled, all) ==
  /\ owned \in [Threads -> Seq(all)] /\ pooled \in Seq(all) /\ all \subseteq Stacks
  /\ \A t, u \in Threads : \A i \in 1 .. Len(owned[t]) : \A k \in 1 .. Len(owned[u]) :
       owned[t][i] = owned[u][k] => t = u /\ i = k
  /\ \A i, k \in 1 .. Len(pooled) : pooled[i] = pooled[k] => i = k
  /\ \A t \in Threads : \A i \in 1 .. Len(owned[t]) : \A k \in 1 .. Len(pooled) : owned[t][i] # pooled[k]
  /\ \A s \in all : \/ \E t \in Threads : \E i \in 1 .. Len(owned[t]) : owned[t][i] = s
                    \/ \E k \in 1 .. Len(pooled) : pooled[k] = s

PlacedInv == Placed(Owned, pool, made)

--------------------------------------------------------------------------------
(* What happens to the stacks. *)

LEMMA AllButLast ==
  ASSUME NEW S, NEW s \in Seq(S), Len(s) > 0
  PROVE  /\ SubSeq(s, 1, Len(s) - 1) \in Seq(S) /\ Len(SubSeq(s, 1, Len(s) - 1)) = Len(s) - 1
         /\ \A i \in 1 .. Len(s) - 1 : SubSeq(s, 1, Len(s) - 1)[i] = s[i]
<1> DEFINE n == Len(s) - 1
<1>1. n \in Nat /\ \A i \in 1 .. n : s[i] \in S
  OBVIOUS
<1> HIDE DEF n
<1>2. /\ SubSeq(s, 1, n) \in Seq(S)
      /\ Len(SubSeq(s, 1, n)) = IF 1 <= n THEN n - 1 + 1 ELSE 0
      /\ \A i \in 1 .. n - 1 + 1 : SubSeq(s, 1, n)[i] = s[1 + i - 1]
  BY <1>1, SubSeqProperties
<1>3. /\ Len(SubSeq(s, 1, n)) = n
      /\ \A i \in 1 .. n : SubSeq(s, 1, n)[i] = s[i]
  BY <1>1, <1>2
<1> QED
  BY <1>2, <1>3 DEF n

(* make_thread takes the stack last put into the pool ... *)
LEMMA TakeFromPool ==
  ASSUME NEW owned, NEW pooled, NEW all, Placed(owned, pooled, all), pooled # <<>>, NEW t \in Threads
  PROVE  Placed([owned EXCEPT ![t] = Append(@, pooled[Len(pooled)])],
                SubSeq(pooled, 1, Len(pooled) - 1), all)
<1> DEFINE n == Len(pooled)
           s == pooled[n]
           new == [owned EXCEPT ![t] = Append(@, s)]
           rest == SubSeq(pooled, 1, n - 1)
<1>1. /\ owned \in [Threads -> Seq(all)] /\ pooled \in Seq(all) /\ all \subseteq Stacks
      /\ n \in Nat /\ n > 0 /\ s \in all
  BY DEF Placed
<1>2. /\ rest \in Seq(all) /\ Len(rest) = n - 1
      /\ \A k \in 1 .. n - 1 : rest[k] = pooled[k]
  BY <1>1, AllButLast
<1>3. /\ new \in [Threads -> Seq(all)]
      /\ \A u \in Threads : u # t => new[u] = owned[u]
      /\ Len(new[t]) = Len(owned[t]) + 1 /\ Len(owned[t]) \in Nat
      /\ \A i \in 1 .. Len(owned[t]) : new[t][i] = owned[t][i]
      /\ new[t][Len(owned[t]) + 1] = s
  BY <1>1
<1>4. \A u \in Threads : \A i \in 1 .. Len(new[u]) :
        \/ i \in 1 .. Len(owned[u]) /\ new[u][i] = owned[u][i] /\ new[u][i] # s
        \/ u = t /\ i = Len(owned[t]) + 1 /\ new[u][i] = s
  <2>1. \A u \in Threads : \A i \in 1 .. Len(owned[u]) : owned[u][i] # s
    BY <1>1 DEF Placed
  <2> HIDE DEF new, s
  <2>2. \A u \in Threads : Len(owned[u]) \in Nat
    BY <1>1
  <2> QED
    BY <1>3, <2>1, <2>2
<1> HIDE DEF new, rest
<1>5. \A u, w \in Threads : \A i \in 1 .. Len(new[u]) : \A k \in 1 .. Len(new[w]) :
        new[u][i] = new[w][k] => u = w /\ i = k
  <2>1. \A u, w \in Threads : \A i \in 1 .. Len(owned[u]) : \A k \in 1 .. Len(owned[w]) :
          owned[u][i] = owned[w][k] => u = w /\ i = k
    BY DEF Placed
  <2> SUFFICES ASSUME NEW u \in Threads, NEW w \in Threads, NEW i \in 1 .. Len(new[u]),
                      NEW k \in 1 .. Len(new[w]), new[u][i] = new[w][k]
               PROVE  u = w /\ i = k
    OBVIOUS
  <2>2. CASE new[u][i] = s
    BY <1>4, <2>2
  <2>3. CASE new[u][i] # s
    BY <1>4, <2>1, <2>3
  <2> QED
    BY <2>2, <2>3
<1>6. \A i, k \in 1 .. Len(rest) : rest[i] = rest[k] => i = k
  BY <1>1, <1>2 DEF Placed
<1>7. \A u \in Threads : \A i \in 1 .. Len(new[u]) : \A k \in 1 .. Len(rest) : new[u][i] # rest[k]
  <2>1. \A k \in 1 .. Len(rest) : k \in 1 .. n /\ rest[k] = pooled[k] /\ rest[k] # s
    BY <1>1, <1>2 DEF Placed
  <2>2. \A u \in Threads : \A i \in 1 .. Len(owned[u]) : \A k \in 1 .. n : owned[u][i] # pooled[k]
    BY DEF Placed
  <2> SUFFICES ASSUME NEW u \in Threads, NEW i \in 1 .. Len(new[u]), NEW k \in 1 .. Len(rest)
               PROVE  new[u][i] # rest[k]
    OBVIOUS
  <2>3. CASE new[u][i] = s
    BY <2>1, <2>3
  <2>4. CASE i \in 1 .. Len(owned[u]) /\ new[u][i] = owned[u][i]
    BY <2>1, <2>2, <2>4
  <2> QED
    BY <1>4, <2>3, <2>4
<1>8. \A x \in all : \/ \E u \in Threads : \E i \in 1 .. Len(new[u]) : new[u][i] = x
                     \/ \E k \in 1 .. Len(rest) : rest[k] = x
  <2> SUFFICES ASSUME NEW x \in all
               PROVE  \/ \E u \in Threads : \E i \in 1 .. Len(new[u]) : new[u][i] = x
                      \/ \E k \in 1 .. Len(rest) : rest[k] = x
    OBVIOUS
  <2>1. CASE \E u \in Threads : \E i \in 1 .. Len(owned[u]) : owned[u][i] = x
    <3>1. PICK u \in Threads : \E i \in 1 .. Len(owned[u]) : owned[u][i] = x
      BY <2>1
    <3>2. PICK i \in 1 .. Len(owned[u]) : owned[u][i] = x
      BY <3>1
    <3>3. i \in 1 .. Len(new[u]) /\ new[u][i] = x
      BY <1>1, <1>3, <3>2
    <3> QED
      BY <3>3
  <2>2. CASE \E k \in 1 .. Len(pooled) : pooled[k] = x
    <3>1. PICK k \in 1 .. Len(pooled) : pooled[k] = x
      BY <2>2
    <3>2. CASE k = n
      <4>1. Len(owned[t]) + 1 \in 1 .. Len(new[t]) /\ new[t][Len(owned[t]) + 1] = x
        BY <1>3, <3>1, <3>2
      <4> QED
        BY <4>1
    <3>3. CASE k # n
      <4>1. k \in 1 .. Len(rest) /\ rest[k] = x
        BY <1>1, <1>2, <3>1, <3>3
      <4> QED
        BY <4>1
    <3> QED
      BY <3>2, <3>3
  <2> QED
    BY <2>1, <2>2 DEF Placed
<1>9. Placed(new, rest, all)
  BY <1>1, <1>2, <1>3, <1>5, <1>6, <1>7, <1>8 DEF Placed
<1> QED
  BY <1>9 DEF new, rest

(* ... or, if that is empty, a new one. *)
LEMMA Allocate ==
  ASSUME NEW owned, NEW all, Placed(owned, <<>>, all), NEW t \in Threads, NEW s \in Stacks \ all
  PROVE  Placed([owned EXCEPT ![t] = Append(@, s)], <<>>, all \cup {s})
<1> DEFINE new == [owned EXCEPT ![t] = Append(@, s)]
<1>1. owned \in [Threads -> Seq(all)] /\ all \subseteq Stacks
  BY DEF Placed
<1>2. /\ new \in [Threads -> Seq(all \cup {s})]
      /\ \A u \in Threads : u # t => new[u] = owned[u]
      /\ Len(new[t]) = Len(owned[t]) + 1
      /\ \A i \in 1 .. Len(owned[t]) : new[t][i] = owned[t][i]
      /\ new[t][Len(owned[t]) + 1] = s
  <2>1. Seq(all) \subseteq Seq(all \cup {s})
    OBVIOUS
  <2> QED
    BY <1>1, <2>1
<1>3. \A u \in Threads : Len(owned[u]) \in Nat /\ \A i \in 1 .. Len(owned[u]) : owned[u][i] \in all
  BY <1>1
<1> HIDE DEF new
<1>4. \A u \in Threads : \A i \in 1 .. Len(new[u]) :
        \/ i \in 1 .. Len(owned[u]) /\ new[u][i] = owned[u][i] /\ new[u][i] # s
        \/ u = t /\ i = Len(owned[t]) + 1 /\ new[u][i] = s
  BY <1>2, <1>3
<1>5. \A u, w \in Threads : \A i \in 1 .. Len(new[u]) : \A k \in 1 .. Len(new[w]) :
        new[u][i] = new[w][k] => u = w /\ i = k
  <2>1. \A u, w \in Threads : \A i \in 1 .. Len(owned[u]) : \A k \in 1 .. Len(owned[w]) :
          owned[u][i] = owned[w][k] => u = w /\ i = k
    BY DEF Placed
  <2> SUFFICES ASSUME NEW u \in Threads, NEW w \in Threads, NEW i \in 1 .. Len(new[u]),
                      NEW k \in 1 .. Len(new[w]), new[u][i] = new[w][k]
               PROVE  u = w /\ i = k
    OBVIOUS
  <2>2. CASE new[u][i] = s
    BY <1>4, <2>2
  <2>3. CASE new[u][i] # s
    BY <1>4, <2>1, <2>3
  <2> QED
    BY <2>2, <2>3
<1>6. \A x \in all \cup {s} : \E u \in Threads : \E i \in 1 .. Len(new[u]) : new[u][i] = x
  <2> SUFFICES ASSUME NEW x \in all \cup {s}
               PROVE  \E u \in Threads : \E i \in 1 .. Len(new[u]) : new[u][i] = x
    OBVIOUS
  <2>1. CASE x = s
    <3>1. Len(owned[t]) + 1 \in 1 .. Len(new[t]) /\ new[t][Len(owned[t]) + 1] = x
      BY <1>2, <1>3, <2>1
    <3> QED
      BY <3>1
  <2>2. CASE x # s
    <3>1. PICK u \in Threads : \E i \in 1 .. Len(owned[u]) : owned[u][i] = x
      <4>1. x \in all /\ Len(<<>>) = 0
        BY <2>2
      <4> QED
        BY <4>1 DEF Placed
    <3>2. PICK i \in 1 .. Len(owned[u]) : owned[u][i] = x
      BY <3>1
    <3>3. i \in 1 .. Len(new[u]) /\ new[u][i] = x
      BY <1>2, <1>3, <3>2
    <3> QED
      BY <3>3
  <2> QED
    BY <2>1, <2>2
<1>7. <<>> \in Seq(all \cup {s}) /\ Len(<<>>) = 0 /\ all \cup {s} \subseteq Stacks
  BY <1>1
<1>8. Placed(new, <<>>, all \cup {s})
  <2>1. \A k \in 1 .. Len(<<>>) : FALSE
    BY <1>7
  <2> QED
    BY <1>2, <1>5, <1>6, <1>7, <2>1 DEF Placed
<1> QED
  BY <1>8 DEF new

(* A VMThread that ends puts its stack into the pool. *)
LEMMA GiveBack ==
  ASSUME NEW owned, NEW pooled, NEW all, Placed(owned, pooled, all), NEW t \in Threads, owned[t] # <<>>
  PROVE  Placed([owned EXCEPT ![t] = SubSeq(@, 1, Len(@) - 1)],
                Append(pooled, owned[t][Len(owned[t])]), all)
<1> DEFINE n == Len(owned[t])
           s == owned[t][n]
           new == [owned EXCEPT ![t] = SubSeq(@, 1, Len(@) - 1)]
           more == Append(pooled, s)
<1>1. /\ owned \in [Threads -> Seq(all)] /\ pooled \in Seq(all) /\ all \subseteq Stacks
      /\ n \in Nat /\ n > 0 /\ s \in all
  BY DEF Placed
<1>2. /\ more \in Seq(all) /\ Len(more) = Len(pooled) + 1 /\ Len(pooled) \in Nat
      /\ \A k \in 1 .. Len(pooled) : more[k] = pooled[k]
      /\ more[Len(pooled) + 1] = s
  BY <1>1
<1>3. /\ new \in [Threads -> Seq(all)]
      /\ \A u \in Threads : u # t => new[u] = owned[u]
      /\ Len(new[t]) = n - 1
      /\ \A i \in 1 .. n - 1 : new[t][i] = owned[t][i]
  <2>1. owned[t] \in Seq(all)
    BY <1>1
  <2>2. /\ SubSeq(owned[t], 1, n - 1) \in Seq(all)
        /\ Len(SubSeq(owned[t], 1, n - 1)) = n - 1
        /\ \A i \in 1 .. n - 1 : SubSeq(owned[t], 1, n - 1)[i] = owned[t][i]
    BY <1>1, <2>1, AllButLast
  <2>3. new[t] = SubSeq(owned[t], 1, n - 1)
    BY <1>1
  <2> QED
    BY <1>1, <2>2, <2>3
<1>4. \A u \in Threads : \A i \in 1 .. Len(new[u]) :
        i \in 1 .. Len(owned[u]) /\ new[u][i] = owned[u][i] /\ new[u][i] # s
  <2>1. \A u \in Threads : \A i \in 1 .. Len(owned[u]) : owned[u][i] = s => u = t /\ i = n
    BY <1>1 DEF Placed
  <2>2. \A u \in Threads : Len(owned[u]) \in Nat
    BY <1>1
  <2> HIDE DEF new, s, n
  <2> SUFFICES ASSUME NEW u \in Threads, NEW i \in 1 .. Len(new[u])
               PROVE  i \in 1 .. Len(owned[u]) /\ new[u][i] = owned[u][i] /\ new[u][i] # s
    OBVIOUS
  <2>3. CASE u = t
    <3>1. i \in 1 .. n - 1 /\ Len(owned[u]) = n
      BY <1>3, <2>3 DEF n
    <3>2. n \in Nat /\ i # n /\ i \in 1 .. n
      BY <1>1, <3>1
    <3>3. new[u][i] = owned[u][i] /\ owned[u][i] # s
      BY <1>3, <2>1, <2>3, <3>1, <3>2
    <3> QED
      BY <3>1, <3>2, <3>3
  <2>4. CASE u # t
    BY <1>3, <2>1, <2>4
  <2> QED
    BY <2>3, <2>4
<1> HIDE DEF new, more
<1>5. \A u, w \in Threads : \A i \in 1 .. Len(new[u]) : \A k \in 1 .. Len(new[w]) :
        new[u][i] = new[w][k] => u = w /\ i = k
  <2>1. \A u, w \in Threads : \A i \in 1 .. Len(owned[u]) : \A k \in 1 .. Len(owned[w]) :
          owned[u][i] = owned[w][k] => u = w /\ i = k
    BY DEF Placed
  <2> SUFFICES ASSUME NEW u \in Threads, NEW w \in Threads, NEW i \in 1 .. Len(new[u]),
                      NEW k \in 1 .. Len(new[w]), new[u][i] = new[w][k]
               PROVE  u = w /\ i = k
    OBVIOUS
  <2>2. CASE new[u][i] = s
    BY <1>4, <2>2
  <2>3. CASE new[u][i] # s
    BY SMTT(30), <1>4, <2>1, <2>3
  <2> QED
    BY <2>2, <2>3
<1>6. \A k \in 1 .. Len(more) : \/ k \in 1 .. Len(pooled) /\ more[k] = pooled[k] /\ more[k] # s
                                \/ k = Len(pooled) + 1 /\ more[k] = s
  <2>1. \A k \in 1 .. Len(pooled) : pooled[k] # s
    BY <1>1 DEF Placed
  <2> HIDE DEF s
  <2> QED
    BY <1>2, <2>1
<1>7. \A i, k \in 1 .. Len(more) : more[i] = more[k] => i = k
  BY <1>6 DEF Placed
<1>8. \A u \in Threads : \A i \in 1 .. Len(new[u]) : \A k \in 1 .. Len(more) : new[u][i] # more[k]
  BY <1>4, <1>6 DEF Placed
<1>9. \A x \in all : \/ \E u \in Threads : \E i \in 1 .. Len(new[u]) : new[u][i] = x
                     \/ \E k \in 1 .. Len(more) : more[k] = x
  <2> SUFFICES ASSUME NEW x \in all
               PROVE  \/ \E u \in Threads : \E i \in 1 .. Len(new[u]) : new[u][i] = x
                      \/ \E k \in 1 .. Len(more) : more[k] = x
    OBVIOUS
  <2>1. CASE x = s
    <3>1. Len(pooled) + 1 \in 1 .. Len(more) /\ more[Len(pooled) + 1] = x
      BY <1>2, <2>1
    <3> QED
      BY <3>1
  <2>2. CASE x # s /\ \E u \in Threads : \E i \in 1 .. Len(owned[u]) : owned[u][i] = x
    <3>1. PICK u \in Threads : \E i \in 1 .. Len(owned[u]) : owned[u][i] = x
      BY <2>2
    <3>2. PICK i \in 1 .. Len(owned[u]) : owned[u][i] = x
      BY <3>1
    <3>3. u # t \/ i # n
      BY <2>2, <3>2
    <3>4. i \in 1 .. Len(new[u]) /\ new[u][i] = x
      <4> HIDE DEF s
      <4> QED
        BY SMTT(30), <1>1, <1>3, <3>2, <3>3
    <3> QED
      BY <3>4
  <2>3. CASE \E k \in 1 .. Len(pooled) : pooled[k] = x
    <3>1. PICK k \in 1 .. Len(pooled) : pooled[k] = x
      BY <2>3
    <3>2. k \in 1 .. Len(more) /\ more[k] = x
      BY <1>2, <3>1
    <3> QED
      BY <3>2
  <2> QED
    BY <2>1, <2>2, <2>3 DEF Placed
<1>10. Placed(new, more, all)
  BY <1>1, <1>2, <1>3, <1>5, <1>7, <1>8, <1>9 DEF Placed
<1> QED
  BY <1>10 DEF new, more

--------------------------------------------------------------------------------
(* The steps. *)

(* The running VMThread goes on, on its stack. *)
LEMMA SameStacks ==
  ASSUME PackedInv, NEW t \in Threads, Live(t), NEW v, v.stack = Cur(t).stack
  PROVE  StacksOf(With(t, v)) = StacksOf(work[t])
<1>1. work[t] \in Seq(VMThread) /\ Len(work[t]) \in 1 .. Len(work[t])
  BY CurGood
<1>2. /\ Len(With(t, v)) = Len(work[t])
      /\ \A i \in 1 .. Len(work[t]) : With(t, v)[i].stack = work[t][i].stack
  BY <1>1 DEF With, Cur
<1> QED
  BY <1>2 DEF StacksOf

LEMMA BecomesPlaced ==
  ASSUME PackedInv, PlacedInv, NEW t \in Threads, Live(t), NEW v, v.stack = Cur(t).stack,
         Becomes(t, v), UNCHANGED <<pool, made>>
  PROVE  PlacedInv'
<1>1. StacksOf(With(t, v)) = StacksOf(work[t])
  BY SameStacks
<1>2. \A u \in Threads : StacksOf(work'[u]) = StacksOf(work[u])
  BY <1>1 DEF Becomes, PackedInv
<1>3. Owned' = Owned
  BY <1>2 DEF Owned
<1> QED
  BY <1>3 DEF PlacedInv

LEMMA NewIsVMThread ==
  ASSUME NEW v, Ready(v), NEW s \in Stacks
  PROVE  [v EXCEPT !.stack = s] \in VMThread
  BY DEF Ready, VMThread, Frames, Frame

LEMMA NestPlaced ==
  ASSUME PackedInv, PlacedInv, NEW t \in Threads, NEW vs \in Seq(VMThread), NEW v, Ready(v),
         StacksOf(vs) = StacksOf(work[t]), Nest(t, vs, v)
  PROVE  PlacedInv'
<1>1. PICK s \in Stacks : MakeThread(s) /\ work' = [work EXCEPT ![t] = Append(vs, [v EXCEPT !.stack = s])]
  BY DEF Nest
<1> DEFINE w == [v EXCEPT !.stack = s]
<1>2. w.stack = s
  BY DEF Ready
<1> HIDE DEF w
<1>3. StacksOf(Append(vs, w)) = Append(StacksOf(vs), s)
  <2>1. /\ Len(vs) \in Nat /\ Len(Append(vs, w)) = Len(vs) + 1
        /\ \A i \in 1 .. Len(vs) : Append(vs, w)[i] = vs[i]
        /\ Append(vs, w)[Len(vs) + 1] = w
    OBVIOUS
  <2>2. /\ Append(vs, w) \in Seq(VMThread)
        /\ \A i \in 1 .. Len(vs) + 1 : Append(vs, w)[i].stack \in Stacks
    <3>1. w \in VMThread
      BY NewIsVMThread DEF w
    <3>2. Append(vs, w) \in Seq(VMThread)
      BY <3>1
    <3>3. \A i \in 1 .. Len(vs) + 1 : Append(vs, w)[i] \in VMThread
      BY <2>1, <3>2
    <3>4. \A r \in VMThread : r.stack \in Stacks
      BY DEF VMThread
    <3> QED
      BY <3>2, <3>3, <3>4
  <2> DEFINE a == StacksOf(Append(vs, w))
             b == StacksOf(vs)
  <2>3. /\ a \in Seq(Stacks) /\ Len(a) = Len(vs) + 1
        /\ \A i \in 1 .. Len(vs) + 1 : a[i] = Append(vs, w)[i].stack
    BY <2>1, <2>2 DEF StacksOf
  <2>4. /\ b \in Seq(Stacks) /\ Len(b) = Len(vs)
        /\ \A i \in 1 .. Len(vs) : b[i] = vs[i].stack
    <3>1. \A r \in VMThread : r.stack \in Stacks
      BY DEF VMThread
    <3>2. \A i \in 1 .. Len(vs) : vs[i].stack \in Stacks
      BY <2>1, <3>1
    <3> QED
      BY <2>1, <3>2 DEF StacksOf
  <2> HIDE DEF a, b
  <2>5. /\ Append(b, s) \in Seq(Stacks) /\ Len(Append(b, s)) = Len(vs) + 1
        /\ \A i \in 1 .. Len(vs) : Append(b, s)[i] = vs[i].stack
        /\ Append(b, s)[Len(vs) + 1] = s
    BY <2>1, <2>4
  <2>6. \A i \in 1 .. Len(vs) + 1 : a[i] = Append(b, s)[i]
    <3> SUFFICES ASSUME NEW i \in 1 .. Len(vs) + 1
                 PROVE  a[i] = Append(b, s)[i]
      OBVIOUS
    <3>1. i \in 1 .. Len(vs) \/ i = Len(vs) + 1
      BY <2>1
    <3> QED
      BY <1>2, <2>1, <2>3, <2>5, <3>1
  <2> QED
    BY <2>3, <2>5, <2>6, SeqEqual DEF a, b
<1>4. Owned' = [Owned EXCEPT ![t] = Append(@, s)]
  BY <1>1, <1>3 DEF Owned, PackedInv, w
<1>5. CASE pool = <<>>
  <2>1. s \in Stacks \ made /\ made' = made \cup {s} /\ pool' = <<>>
    BY <1>1, <1>5 DEF MakeThread
  <2>2. Placed(Owned, <<>>, made)
    BY <1>5 DEF PlacedInv
  <2>3. Placed([Owned EXCEPT ![t] = Append(@, s)], <<>>, made \cup {s})
    BY <2>1, <2>2, Allocate
  <2> QED
    BY <1>4, <2>1, <2>3 DEF PlacedInv
<1>6. CASE pool # <<>>
  <2>1. s = pool[Len(pool)] /\ pool' = SubSeq(pool, 1, Len(pool) - 1) /\ made' = made
    BY <1>1, <1>6 DEF MakeThread
  <2>2. Placed([Owned EXCEPT ![t] = Append(@, pool[Len(pool)])], SubSeq(pool, 1, Len(pool) - 1), made)
    BY <1>6, TakeFromPool DEF PlacedInv
  <2> QED
    BY <1>4, <2>1, <2>2 DEF PlacedInv
<1> QED
  BY <1>5, <1>6

LEMMA RunGluePlaced ==
  ASSUME PackedInv, PlacedInv, NEW t \in Threads, Live(t), NEW v, Good(v), v.frames # <<>>,
         v.stack = Cur(t).stack, RunGlue(t, v)
  PROVE  PlacedInv'
<1>1. With(t, v) \in Seq(VMThread)
  BY WithGood DEF AllGood
<1>2. StacksOf(With(t, v)) = StacksOf(work[t])
  BY SameStacks
<1>3. Ready(Fresh(Glue[Top(v).func]))
  BY TopGood, FunctionsAssumption, FreshReady DEF Frame
<1> QED
  BY <1>1, <1>2, <1>3, NestPlaced DEF RunGlue

(* Every step keeps every stack in one place. *)
LEMMA InitPlaced == Init => PlacedInv
  BY DEF Init, PlacedInv, Placed, Owned, StacksOf

LEMMA EndPlaced ==
  ASSUME PackedInv, PlacedInv, NEW t \in Threads, Live(t), End(t)
  PROVE  PlacedInv'
<1> DEFINE vs == SubSeq(work[t], 1, Len(work[t]) - 1)
<1>1. work[t] \in Seq(VMThread) /\ Len(work[t]) \in 1 .. Len(work[t])
  BY CurGood
<1>2. Len(work[t]) > 0
  BY <1>1
<1>3. /\ vs \in Seq(VMThread) /\ Len(vs) = Len(work[t]) - 1
      /\ \A i \in 1 .. Len(work[t]) - 1 : vs[i] = work[t][i]
  BY <1>1, <1>2, AllButLast
<1>4. work' = [work EXCEPT ![t] = vs] /\ pool' = Append(pool, Cur(t).stack) /\ made' = made
  BY <1>1 DEF End, PackedInv
<1> HIDE DEF vs
<1>5. Owned[t] = StacksOf(work[t]) /\ Owned[t] \in Seq(made)
  BY DEF Owned, PlacedInv, Placed
<1>6. Len(Owned[t]) = Len(work[t]) /\ \A i \in 1 .. Len(work[t]) : Owned[t][i] = work[t][i].stack
  BY <1>1, <1>5 DEF StacksOf
<1>7. StacksOf(vs) = SubSeq(Owned[t], 1, Len(Owned[t]) - 1)
  <2> DEFINE a == StacksOf(vs)
             b == SubSeq(Owned[t], 1, Len(Owned[t]) - 1)
  <2>1. Len(Owned[t]) > 0
    BY <1>2, <1>6
  <2>2. /\ b \in Seq(made) /\ Len(b) = Len(Owned[t]) - 1
        /\ \A i \in 1 .. Len(Owned[t]) - 1 : b[i] = Owned[t][i]
    BY <1>5, <2>1, AllButLast
  <2>3. /\ Len(vs) \in Nat /\ DOMAIN a = 1 .. Len(vs) /\ \A i \in 1 .. Len(vs) : a[i] = vs[i].stack
    BY <1>3 DEF StacksOf
  <2>4. \A i \in 1 .. Len(vs) : a[i] \in made /\ a[i] = b[i]
    <3> SUFFICES ASSUME NEW i \in 1 .. Len(vs)
                 PROVE  a[i] \in made /\ a[i] = b[i]
      OBVIOUS
    <3>1. i \in 1 .. Len(work[t]) - 1 /\ i \in 1 .. Len(work[t])
      BY <1>1, <1>3
    <3>2. a[i] = Owned[t][i]
      BY <1>3, <1>6, <2>3, <3>1
    <3>3. b[i] = Owned[t][i]
      BY <1>6, <2>2, <3>1
    <3>4. Owned[t][i] \in made
      BY <1>5, <1>6, <3>1
    <3> QED
      BY <3>2, <3>3, <3>4
  <2>5. a \in Seq(made) /\ Len(a) = Len(vs)
    BY <2>3, <2>4 DEF StacksOf
  <2>6. Len(a) = Len(b)
    BY <1>3, <1>6, <2>2, <2>5
  <2> HIDE DEF a, b
  <2>7. a = b
    BY <2>2, <2>4, <2>5, <2>6, SeqEqual
  <2> QED
    BY <2>7 DEF a, b
<1>8. Owned' = [Owned EXCEPT ![t] = SubSeq(@, 1, Len(@) - 1)]
  BY <1>4, <1>7 DEF Owned, PackedInv
<1>9. Cur(t).stack = Owned[t][Len(Owned[t])] /\ Owned[t] # <<>>
  BY <1>1, <1>2, <1>6 DEF Cur
<1>10. Placed([Owned EXCEPT ![t] = SubSeq(@, 1, Len(@) - 1)],
              Append(pool, Owned[t][Len(Owned[t])]), made)
  BY <1>9, GiveBack DEF PlacedInv
<1> QED
  BY <1>4, <1>8, <1>9, <1>10 DEF PlacedInv

(* A VMThread that is a record keeps its stack in whatever else is changed. *)
LEMMA StackKept ==
  ASSUME NEW v \in VMThread
  PROVE  /\ \A f : Enter(v, f).stack = v.stack
         /\ Leave(v).stack = v.stack
         /\ \A b : [v EXCEPT !.compiling = b].stack = v.stack
         /\ \A f : [v EXCEPT !.call = f].stack = v.stack
         /\ \A n : Dropped(v, n).stack = v.stack
         /\ \A n : [v EXCEPT !.flags = SetFlag(v, n), !.frames = Holding(v, Top(v).holds \cup {n})].stack
                     = v.stack
         /\ \A k, l : [v EXCEPT !.frames[k].left = l].stack = v.stack
  BY DEF VMThread, Enter, Leave, Dropped

(* The loop of a return, which drops bit n. *)
LEMMA DueGood ==
  ASSUME NEW v, Good(v), v.frames # <<>>, NEW n \in Due(v)
  PROVE  /\ Good(Dropped(v, n))
         /\ Good([Dropped(v, n) EXCEPT !.frames[Len(v.frames)].left = n])
         /\ [Dropped(v, n) EXCEPT !.frames[Len(v.frames)].left = n].frames # <<>>
<1>1. n \in 0 .. Drops[Top(v).func] - 1
  <2>1. Top(v).left <= Drops[Top(v).func] /\ Top(v).left \in Int
    BY TopGood DEF Good, Packed, Agrees, Top, Frame
  <2>2. Drops[Top(v).func] \in Nat /\ n \in 0 .. Top(v).left - 1
    BY TopGood DEF Due
  <2> QED
    BY <2>1, <2>2
<1>2. /\ Good(Dropped(v, n)) /\ Dropped(v, n).frames # <<>>
      /\ Len(Dropped(v, n).frames) = Len(v.frames)
      /\ Top(Dropped(v, n)).func = Top(v).func
  BY <1>1, DroppedGood
<1>3. n \in Int /\ n <= Drops[Top(v).func]
  BY <1>1, TopGood
<1> DEFINE w == [Dropped(v, n) EXCEPT !.frames[Len(v.frames)].left = n]
<1>4. Good(w)
  BY <1>2, <1>3, LeftGood
<1>5. w.frames # <<>>
  <2>1. Dropped(v, n).frames \in Seq(Frame) /\ w.frames \in Seq(Frame)
    BY <1>2, <1>4 DEF Good, Packed, Frames
  <2>2. w.frames = [Dropped(v, n).frames EXCEPT ![Len(v.frames)].left = n]
    BY <1>2 DEF Good, VMThread
  <2>3. Len(w.frames) = Len(v.frames)
    BY <1>2, <2>1, <2>2
  <2> QED
    BY <1>2, <2>1, <2>3
<1> QED
  BY <1>2, <1>4, <1>5

LEMMA PlacedNext ==
  ASSUME RuntimeInv, PlacedInv, [Next]_vars
  PROVE  PlacedInv'
<1>1. PackedInv
  BY DEF RuntimeInv
<1>2. CASE UNCHANGED vars
  BY <1>2 DEF vars, PlacedInv, Owned, StacksOf
<1>3. ASSUME NEW t \in Threads, Start(t)
      PROVE  PlacedInv'
  <2>1. work[t] \in Seq(VMThread)
    BY <1>1 DEF PackedInv
  <2>2. PICK v : Ready(v) /\ Nest(t, work[t], v)
    <3>1. CASE \E f \in Roots[t] : Nest(t, work[t], Fresh(f))
      BY <3>1, FreshReady, FunctionsAssumption
    <3>2. CASE \E c \in Evals[t] : Nest(t, work[t], Enter(Fresh(None), c))
      BY <3>2, EnterReady, FunctionsAssumption
    <3> QED
      BY <1>3, <3>1, <3>2 DEF Start
  <2> QED
    BY <1>1, <2>1, <2>2, NestPlaced
<1>4. ASSUME NEW t \in Threads, Live(t), Evaluate(t)
      PROVE  PlacedInv'
  <2>1. Good(Cur(t)) /\ work[t] \in Seq(VMThread)
    BY <1>1, <1>4, CurGood
  <2>2. PICK c \in Consts[Cur(t).call] : Nest(t, work[t], Enter(Fresh(None), c))
    BY <1>4 DEF Evaluate
  <2>3. Cur(t).call \in Functions
    BY <1>4, <2>1 DEF Evaluate, Good
  <2>4. c \in Functions
    BY <2>2, <2>3, FunctionsAssumption
  <2> QED
    BY <1>1, <2>1, <2>2, <2>4, EnterReady, NestPlaced
<1>5. ASSUME NEW t \in Threads, Live(t), Fetch(t) \/ Compile(t) \/ Publish(t) \/ CallFn(t)
      PROVE  PlacedInv'
  <2>1. Cur(t) \in VMThread
    BY <1>1, <1>5, CurGood DEF Good
  <2>2. UNCHANGED <<pool, made>>
    BY <1>5 DEF Fetch, Compile, Publish, CallFn
  <2>3. PICK v : Becomes(t, v) /\ v.stack = Cur(t).stack
    <3>1. CASE Fetch(t)
      <4>1. Becomes(t, Enter(Cur(t), Cur(t).call))
        BY <3>1 DEF Fetch
      <4>2. Enter(Cur(t), Cur(t).call).stack = Cur(t).stack
        BY <2>1, StackKept
      <4> QED
        BY <4>1, <4>2
    <3>2. CASE Compile(t)
      <4>1. Becomes(t, [Cur(t) EXCEPT !.compiling = TRUE])
        BY <3>2 DEF Compile
      <4>2. [Cur(t) EXCEPT !.compiling = TRUE].stack = Cur(t).stack
        BY <2>1, StackKept
      <4> QED
        BY <4>1, <4>2
    <3>3. CASE Publish(t)
      <4>1. Becomes(t, [Cur(t) EXCEPT !.compiling = FALSE])
        BY <3>3 DEF Publish
      <4>2. [Cur(t) EXCEPT !.compiling = FALSE].stack = Cur(t).stack
        BY <2>1, StackKept
      <4> QED
        BY <4>1, <4>2
    <3>4. CASE CallFn(t)
      <4>1. PICK g : Becomes(t, [Cur(t) EXCEPT !.call = g])
        BY <3>4 DEF CallFn
      <4>2. [Cur(t) EXCEPT !.call = g].stack = Cur(t).stack
        BY <2>1, StackKept
      <4> QED
        BY <4>1, <4>2
    <3> QED
      BY <1>5, <3>1, <3>2, <3>3, <3>4
  <2> QED
    BY <1>1, <1>5, <2>2, <2>3, BecomesPlaced
<1>6. ASSUME NEW t \in Threads, Live(t), LocalInit(t) \/ LocalMove(t) \/ Return(t) \/ Finish(t)
      PROVE  PlacedInv'
  <2>1. Cur(t) \in VMThread
    BY <1>1, <1>6, CurGood DEF Good
  <2>2. UNCHANGED <<pool, made>>
    BY <1>6 DEF LocalInit, LocalMove, Return, Finish
  <2>3. PICK v : Becomes(t, v) /\ v.stack = Cur(t).stack
    <3>1. CASE LocalInit(t)
      <4>1. PICK n : Becomes(t, [Cur(t) EXCEPT !.flags = SetFlag(Cur(t), n), !.frames = Holding(Cur(t), Top(Cur(t)).holds \cup {n})])
        BY <3>1 DEF LocalInit
      <4>2. [Cur(t) EXCEPT !.flags = SetFlag(Cur(t), n), !.frames = Holding(Cur(t), Top(Cur(t)).holds \cup {n})].stack = Cur(t).stack
        BY <2>1, StackKept
      <4> QED
        BY <4>1, <4>2
    <3>2. CASE LocalMove(t)
      <4>1. PICK n : Becomes(t, Dropped(Cur(t), n))
        BY <3>2 DEF LocalMove
      <4>2. Dropped(Cur(t), n).stack = Cur(t).stack
        BY <2>1, StackKept
      <4> QED
        BY <4>1, <4>2
    <3>3. CASE Return(t)
      <4>1. Becomes(t, [Cur(t) EXCEPT !.frames[Len(Cur(t).frames)].left = Drops[Top(Cur(t)).func]])
        BY <3>3 DEF Return
      <4>2. [Cur(t) EXCEPT !.frames[Len(Cur(t).frames)].left = Drops[Top(Cur(t)).func]].stack = Cur(t).stack
        BY <2>1, StackKept
      <4> QED
        BY <4>1, <4>2
    <3>4. CASE Finish(t)
      <4>1. Becomes(t, Leave(Cur(t)))
        BY <3>4 DEF Finish
      <4>2. Leave(Cur(t)).stack = Cur(t).stack
        BY <2>1, StackKept
      <4> QED
        BY <4>1, <4>2
    <3> QED
      BY <1>6, <3>1, <3>2, <3>3, <3>4
  <2> QED
    BY <1>1, <1>6, <2>2, <2>3, BecomesPlaced

(* What a drop leaves behind is a good VMThread on the same stack. *)
<1>7. ASSUME NEW t \in Threads, Live(t), Executes(t), NEW n \in Uses[Top(Cur(t)).func]
      PROVE  /\ Good(Cur(t)) /\ Cur(t).frames # <<>>
             /\ Good(Dropped(Cur(t), n)) /\ Dropped(Cur(t), n).frames # <<>>
             /\ Dropped(Cur(t), n).stack = Cur(t).stack
  <2>1. Good(Cur(t)) /\ Cur(t).frames # <<>>
    BY <1>1, <1>7, CurGood DEF Executes
  <2>2. n \in 0 .. Drops[Top(Cur(t)).func] - 1
    BY <2>1, TopGood, FunctionsAssumption DEF Frame
  <2> QED
    BY <2>1, <2>2, DroppedGood, StackKept DEF Good
<1>8. ASSUME NEW t \in Threads, Live(t), LocalDrop(t)
      PROVE  PlacedInv'
  <2>1. PICK n \in Uses[Top(Cur(t)).func] : RunGlue(t, Dropped(Cur(t), n))
    BY <1>8 DEF LocalDrop
  <2>2. Executes(t)
    BY <1>8 DEF LocalDrop
  <2> QED
    BY <1>1, <1>7, <1>8, <2>1, <2>2, RunGluePlaced
<1>9. ASSUME NEW t \in Threads, Live(t), LocalDropInit(t)
      PROVE  PlacedInv'
  <2>1. Executes(t)
    BY <1>9 DEF LocalDropInit
  <2>2. PICK n \in Uses[Top(Cur(t)).func] :
          \/ RunGlue(t, Cur(t))
          \/ /\ Becomes(t, [Cur(t) EXCEPT !.flags = SetFlag(Cur(t), n),
                                          !.frames = Holding(Cur(t), Top(Cur(t)).holds \cup {n})])
             /\ UNCHANGED <<pool, made>>
    BY <1>9 DEF LocalDropInit
  <2>3. Good(Cur(t)) /\ Cur(t).frames # <<>>
    BY <1>7, <1>9, <2>1
  <2>4. Cur(t) \in VMThread
    BY <2>3 DEF Good
  <2> QED
    BY <1>1, <1>9, <2>2, <2>3, <2>4, StackKept, RunGluePlaced, BecomesPlaced
<1>10. ASSUME NEW t \in Threads, Live(t), DropRest(t)
       PROVE  PlacedInv'
  <2>1. Good(Cur(t)) /\ Cur(t).frames # <<>>
    BY <1>1, <1>10, CurGood DEF DropRest, Returns
  <2>2. PICK n \in Due(Cur(t)) :
          RunGlue(t, [Dropped(Cur(t), n) EXCEPT !.frames[Len(Cur(t).frames)].left = n])
    BY <1>10 DEF DropRest
  <2> DEFINE v == [Dropped(Cur(t), n) EXCEPT !.frames[Len(Cur(t).frames)].left = n]
  <2>3. Good(v) /\ v.frames # <<>>
    BY <2>1, DueGood
  <2>4. v.stack = Cur(t).stack
    <3>1. Cur(t) \in VMThread /\ Dropped(Cur(t), n) \in VMThread
      BY <2>1, DueGood DEF Good
    <3> QED
      BY <3>1, StackKept
  <2> HIDE DEF v
  <2> QED
    BY <1>1, <1>10, <2>2, <2>3, <2>4, RunGluePlaced DEF v
<1> QED
  BY <1>2, <1>3, <1>4, <1>5, <1>6, <1>8, <1>9, <1>10, EndPlaced, <1>1 DEF Next

--------------------------------------------------------------------------------
(* What follows. *)

LEMMA PlacedExclusive ==
  ASSUME PackedInv, PlacedInv
  PROVE  StacksExclusive
<1> SUFFICES ASSUME NEW s \in made
             PROVE  Cardinality(Owners(s)) + Cardinality(Pooled(s)) = 1
  BY DEF StacksExclusive
<1>1. \A t \in Threads : /\ Len(Owned[t]) = Len(work[t])
                         /\ \A i \in 1 .. Len(work[t]) : Owned[t][i] = work[t][i].stack
  BY DEF PackedInv, Owned, StacksOf
<1>2. Owners(s) = {x \in UNION {{<<t, i>> : i \in 1 .. Len(work[t])} : t \in Threads} :
                     \E t \in Threads : \E i \in 1 .. Len(work[t]) : x = <<t, i>> /\ Owned[t][i] = s}
  BY <1>1 DEF Owners
<1>3. CASE \E t \in Threads : \E i \in 1 .. Len(Owned[t]) : Owned[t][i] = s
  <2>1. PICK t \in Threads : \E i \in 1 .. Len(Owned[t]) : Owned[t][i] = s
    BY <1>3
  <2>2. PICK i \in 1 .. Len(Owned[t]) : Owned[t][i] = s
    BY <2>1
  <2>3. \A u \in Threads : \A k \in 1 .. Len(Owned[u]) : Owned[u][k] = s => u = t /\ k = i
    BY <2>2 DEF PlacedInv, Placed
  <2>4. Owners(s) = {<<t, i>>}
    BY <1>1, <1>2, <2>2, <2>3
  <2>5. Pooled(s) = {}
    BY <2>2 DEF PlacedInv, Placed, Pooled
  <2>6. Cardinality({<<t, i>>}) = 1 /\ Cardinality({}) = 0
    BY FS_Singleton, FS_EmptySet
  <2> QED
    BY <2>4, <2>5, <2>6
<1>4. CASE ~ \E t \in Threads : \E i \in 1 .. Len(Owned[t]) : Owned[t][i] = s
  <2>1. Owners(s) = {}
    BY <1>1, <1>2, <1>4
  <2>2. PICK k \in 1 .. Len(pool) : pool[k] = s
    BY <1>4 DEF PlacedInv, Placed
  <2>3. Pooled(s) = {k}
    BY <2>2 DEF PlacedInv, Placed, Pooled
  <2>4. Cardinality({k}) = 1 /\ Cardinality({}) = 0
    BY FS_Singleton, FS_EmptySet
  <2> QED
    BY <2>1, <2>3, <2>4
<1> QED
  BY <1>3, <1>4

(* make_thread never hands out a stack that another VMThread still runs on, and *)
(* Drop for VMThread never loses one, for any number of threads and stacks.     *)
THEOREM StacksHaveOneOwner == Spec => []StacksExclusive
<1>1. Init => RuntimeInv /\ PlacedInv
  BY InitRuntimeInv, InitPlaced
<1>2. RuntimeInv /\ PlacedInv /\ [Next]_vars => (RuntimeInv /\ PlacedInv)'
  BY PackedNext, BytecodeNext, PlacedNext DEF RuntimeInv
<1>3. RuntimeInv /\ PlacedInv => StacksExclusive
  BY PlacedExclusive DEF RuntimeInv
<1> QED
  BY <1>1, <1>2, <1>3, PTL DEF Spec

(* The variables of the runtime keep their types. *)
THEOREM RuntimeTypeCorrect == Spec => []TypeOK
<1> DEFINE Inv == RuntimeInv /\ PlacedInv /\ compiles \in [Functions -> Nat]
<1>1. Init => Inv
  BY InitRuntimeInv, InitPlaced DEF Init
<1>2. Inv /\ [Next]_vars => Inv'
  <2> SUFFICES ASSUME Inv, [Next]_vars
               PROVE  compiles' \in [Functions -> Nat]
    BY PackedNext, BytecodeNext, PlacedNext DEF RuntimeInv
  <2>1. ASSUME NEW t \in Threads, Live(t), Publish(t)
        PROVE  compiles' \in [Functions -> Nat]
    <3>1. Good(Cur(t))
      BY <2>1, CurGood DEF RuntimeInv
    <3> QED
      BY <2>1, <3>1 DEF Publish, Good
  <2> QED
    BY <2>1 DEF Next, Start, Fetch, Compile, Evaluate, CallFn, LocalInit, LocalMove, LocalDrop,
                LocalDropInit, Return, DropRest, Finish, End, vars
<1>3. Inv => TypeOK
  BY DEF TypeOK, RuntimeInv, PackedInv, PlacedInv, Placed
<1> QED
  BY <1>1, <1>2, <1>3, PTL DEF Spec

--------------------------------------------------------------------------------
(* Who compiles what. *)

(* All that v runs or calls is in W. *)
Within(v, W) ==
  /\ v.call \in W \cup {None}
  /\ \A k \in 1 .. Len(v.frames) : v.frames[k].func \in W

(* Whatever runs above the compilation of a function serves its constants. *)
Serves(vs) ==
  \A i, j \in 1 .. Len(vs) : i < j /\ vs[i].compiling =>
    \A W \in SUBSET Functions : Consts[vs[i].call] \subseteq W /\ SelfContained(W) => Within(vs[j], W)

Compiles(vs, f) == \E i \in 1 .. Len(vs) : vs[i].compiling /\ vs[i].call = f
Compilers(f) == {t \in Threads : Compiles(work[t], f)}

CompileInv ==
  /\ compiles \in [Functions -> Nat]
  /\ \A t \in Threads : Serves(work[t])
  /\ \A f \in Functions : /\ f \notin bytecode => compiles[f] = 0
                          /\ compiles[f] + Cardinality(Compilers(f)) <= Cardinality(Threads)

(* No thread compiles a function while it compiles that function. *)
LEMMA CompilesOnce ==
  ASSUME NEW vs, AllGood(vs), Serves(vs), NEW i \in 1 .. Len(vs), NEW j \in 1 .. Len(vs),
         vs[i].compiling, vs[j].compiling, vs[i].call = vs[j].call
  PROVE  i = j
<1>1. SUFFICES ASSUME NEW m \in 1 .. Len(vs), NEW n \in 1 .. Len(vs), m < n,
                      vs[m].compiling, vs[n].compiling, vs[m].call = vs[n].call
               PROVE  FALSE
  OBVIOUS
<1>2. vs[m].call \in Functions
  BY <1>1 DEF AllGood, Good
<1>3. PICK W \in SUBSET Functions : Consts[vs[m].call] \subseteq W /\ SelfContained(W) /\ vs[m].call \notin W
  BY <1>2, ConstsAssumption
<1>4. vs[n].call \in W \cup {None}
  BY <1>1, <1>3 DEF Serves, Within
<1> QED
  BY <1>1, <1>2, <1>3, <1>4, FunctionsAssumption

(* The running VMThread goes on. *)
LEMMA ServesWith ==
  ASSUME PackedInv, NEW t \in Threads, Live(t), Serves(work[t]), NEW v, Good(v),
         \A W \in SUBSET Functions : SelfContained(W) /\ Within(Cur(t), W) => Within(v, W)
  PROVE  Serves(With(t, v))
<1>1. work[t] \in Seq(VMThread) /\ Len(work[t]) \in 1 .. Len(work[t]) /\ v \in VMThread
  BY CurGood DEF Good
<1>2. /\ Len(With(t, v)) = Len(work[t])
      /\ \A i \in 1 .. Len(work[t]) : With(t, v)[i] = IF i = Len(work[t]) THEN v ELSE work[t][i]
  BY <1>1 DEF With
<1> SUFFICES ASSUME NEW i \in 1 .. Len(work[t]), NEW j \in 1 .. Len(work[t]), i < j,
                    With(t, v)[i].compiling, NEW W \in SUBSET Functions,
                    Consts[With(t, v)[i].call] \subseteq W, SelfContained(W)
             PROVE  Within(With(t, v)[j], W)
  BY <1>2 DEF Serves
<1>3. i # Len(work[t]) /\ With(t, v)[i] = work[t][i]
  BY <1>1, <1>2
<1>4. Within(work[t][j], W)
  BY <1>3 DEF Serves
<1> QED
  BY <1>1, <1>2, <1>4 DEF Cur

(* One more VMThread: it serves what the running one serves, and the constants   *)
(* of what that one compiles.                                                    *)
LEMMA ServesAppend ==
  ASSUME NEW vs, AllGood(vs), Serves(vs), NEW v,
         vs # <<>> =>
           \A W \in SUBSET Functions :
             /\ SelfContained(W)
             /\ \/ Within(vs[Len(vs)], W)
                \/ vs[Len(vs)].compiling /\ Consts[vs[Len(vs)].call] \subseteq W
             => Within(v, W)
  PROVE  Serves(Append(vs, v))
<1>1. /\ vs \in Seq(VMThread) /\ Len(vs) \in Nat /\ (Len(vs) > 0 => vs # <<>>)
  BY DEF AllGood
<1>2. /\ Len(Append(vs, v)) = Len(vs) + 1
      /\ \A i \in 1 .. Len(vs) : Append(vs, v)[i] = vs[i]
      /\ Append(vs, v)[Len(vs) + 1] = v
  BY <1>1
<1> SUFFICES ASSUME NEW i \in 1 .. Len(vs) + 1, NEW j \in 1 .. Len(vs) + 1, i < j,
                    Append(vs, v)[i].compiling, NEW W \in SUBSET Functions,
                    Consts[Append(vs, v)[i].call] \subseteq W, SelfContained(W)
             PROVE  Within(Append(vs, v)[j], W)
  BY <1>2 DEF Serves
<1>3. i \in 1 .. Len(vs) /\ Append(vs, v)[i] = vs[i]
  BY <1>1, <1>2
<1>4. CASE j # Len(vs) + 1
  BY <1>1, <1>2, <1>3, <1>4 DEF Serves
<1>5. CASE j = Len(vs) + 1
  <2>1. Len(vs) \in 1 .. Len(vs) /\ vs # <<>>
    BY <1>1, <1>3
  <2>2. \/ Within(vs[Len(vs)], W)
        \/ vs[Len(vs)].compiling /\ Consts[vs[Len(vs)].call] \subseteq W
    <3>1. CASE i = Len(vs)
      BY <1>3, <3>1
    <3>2. CASE i # Len(vs)
      BY <1>1, <1>3, <2>1, <3>2 DEF Serves
    <3> QED
      BY <3>1, <3>2
  <2> QED
    BY <1>2, <1>5, <2>1, <2>2
<1> QED
  BY <1>4, <1>5

(* Thread t compiles no more than before: the counts still fit. *)
LEMMA CountsKept ==
  ASSUME CompileInv, NEW t \in Threads, NEW vs, work' = [work EXCEPT ![t] = vs],
         work \in [Threads -> Seq(VMThread)], Serves(vs),
         \A f \in Functions : Compiles(vs, f) => Compiles(work[t], f),
         UNCHANGED <<bytecode, compiles>>
  PROVE  CompileInv'
<1>1. \A u \in Threads : work'[u] = IF u = t THEN vs ELSE work[u]
  OBVIOUS
<1>2. \A u \in Threads : Serves(work'[u])
  BY <1>1 DEF CompileInv
<1>3. ASSUME NEW f \in Functions
      PROVE  Cardinality(Compilers(f)') <= Cardinality(Compilers(f)) /\ Cardinality(Compilers(f)') \in Nat
                /\ Cardinality(Compilers(f)) \in Nat
  <2>1. Compilers(f)' \subseteq Compilers(f) /\ Compilers(f) \subseteq Threads
    BY <1>1 DEF Compilers
  <2> QED
    BY <2>1, ThreadsAssumption, FS_Subset, FS_CardinalityType
<1>4. Cardinality(Threads) \in Nat
  BY ThreadsAssumption, FS_CardinalityType
<1> QED
  BY <1>2, <1>3, <1>4 DEF CompileInv

LEMMA InitCompileInv == Init => CompileInv
<1> SUFFICES ASSUME Init
             PROVE  CompileInv
  OBVIOUS
<1>1. \A t \in Threads : Serves(work[t])
  BY DEF Init, Serves
<1>2. \A f \in Functions : Compilers(f) = {}
  BY DEF Init, Compilers, Compiles
<1>3. Cardinality({}) = 0 /\ Cardinality(Threads) \in Nat
  BY ThreadsAssumption, FS_EmptySet, FS_CardinalityType
<1>4. compiles = [f \in Functions |-> 0]
  BY DEF Init
<1>5. \A f \in Functions : compiles[f] + Cardinality(Compilers(f)) <= Cardinality(Threads)
  BY <1>2, <1>3, <1>4
<1> QED
  BY <1>1, <1>4, <1>5 DEF CompileInv

(* The running VMThread becomes v, which compiles nothing new. *)
LEMMA BecomesServes ==
  ASSUME PackedInv, CompileInv, NEW t \in Threads, Live(t), NEW v, Good(v),
         v.compiling => Cur(t).compiling /\ v.call = Cur(t).call,
         \A W \in SUBSET Functions : SelfContained(W) /\ Within(Cur(t), W) => Within(v, W)
  PROVE  Serves(With(t, v)) /\ \A f \in Functions : Compiles(With(t, v), f) => Compiles(work[t], f)
<1>1. Serves(With(t, v))
  BY ServesWith DEF CompileInv
<1>2. work[t] \in Seq(VMThread) /\ Len(work[t]) \in 1 .. Len(work[t]) /\ v \in VMThread
  BY CurGood DEF Good
<1>3. /\ Len(With(t, v)) = Len(work[t])
      /\ \A i \in 1 .. Len(work[t]) : With(t, v)[i] = IF i = Len(work[t]) THEN v ELSE work[t][i]
  BY <1>2 DEF With
<1> QED
  BY <1>1, <1>2, <1>3 DEF Compiles, Cur

LEMMA BecomesKept ==
  ASSUME PackedInv, CompileInv, NEW t \in Threads, Live(t), NEW v, Good(v), Becomes(t, v),
         v.compiling => Cur(t).compiling /\ v.call = Cur(t).call,
         \A W \in SUBSET Functions : SelfContained(W) /\ Within(Cur(t), W) => Within(v, W),
         UNCHANGED <<bytecode, compiles>>
  PROVE  CompileInv'
<1>1. Serves(With(t, v)) /\ \A f \in Functions : Compiles(With(t, v), f) => Compiles(work[t], f)
  BY BecomesServes
<1> QED
  BY <1>1, CountsKept DEF Becomes, PackedInv

LEMMA NestKept ==
  ASSUME PackedInv, CompileInv, NEW t \in Threads, NEW vs, AllGood(vs), Serves(vs),
         \A f \in Functions : Compiles(vs, f) => Compiles(work[t], f),
         NEW v, v \in [stack : Stacks \cup {None}, flags : Seq(SUBSET Byte), call : Functions \cup {None},
                       compiling : {FALSE}, frames : Frames],
         vs # <<>> =>
           \A W \in SUBSET Functions :
             /\ SelfContained(W)
             /\ \/ Within(vs[Len(vs)], W)
                \/ vs[Len(vs)].compiling /\ Consts[vs[Len(vs)].call] \subseteq W
             => Within(v, W),
         Nest(t, vs, v), UNCHANGED <<bytecode, compiles>>
  PROVE  CompileInv'
<1>1. PICK s \in Stacks : work' = [work EXCEPT ![t] = Append(vs, [v EXCEPT !.stack = s])]
  BY DEF Nest
<1> DEFINE w == [v EXCEPT !.stack = s]
<1>2. w.call = v.call /\ w.frames = v.frames /\ ~w.compiling
  OBVIOUS
<1> HIDE DEF w
<1>3. \A W : Within(w, W) <=> Within(v, W)
  BY <1>2 DEF Within
<1>4. Serves(Append(vs, w))
  BY <1>3, ServesAppend
<1>5. /\ Len(Append(vs, w)) = Len(vs) + 1 /\ Len(vs) \in Nat
      /\ \A i \in 1 .. Len(vs) : Append(vs, w)[i] = vs[i]
      /\ Append(vs, w)[Len(vs) + 1] = w
  BY DEF AllGood
<1>6. \A f \in Functions : Compiles(Append(vs, w), f) => Compiles(vs, f)
  BY <1>2, <1>5 DEF Compiles
<1> QED
  BY <1>1, <1>4, <1>6, CountsKept DEF PackedInv, w

LEMMA FreshWithin ==
  ASSUME NEW f, NEW W, f \in W \cup {None}
  PROVE  Within(Fresh(f), W)
  BY DEF Within, Fresh

LEMMA EnterWithin ==
  ASSUME NEW v, Good(v) \/ Ready(v), NEW W, NEW f \in W, Within(v, W)
  PROVE  Within(Enter(v, f), W)
<1>1. v.frames \in Frames /\ StartsIn(f, Len(v.flags)).func = f
  BY DEF Good, Ready, Packed, StartsIn
<1>2. Enter(v, f).call = None /\ Enter(v, f).frames = Append(v.frames, StartsIn(f, Len(v.flags)))
  BY DEF Enter, Good, Ready, VMThread
<1> QED
  BY <1>1, <1>2 DEF Within, Frames

(* Dropping a value runs the glue of the running activation. *)
LEMMA RunGlueKept ==
  ASSUME PackedInv, CompileInv, NEW t \in Threads, Live(t), NEW v, Good(v), v.frames # <<>>,
         ~v.compiling, Drops[Top(v).func] > 0,
         \A W \in SUBSET Functions : SelfContained(W) /\ Within(Cur(t), W) => Within(v, W),
         RunGlue(t, v), UNCHANGED <<bytecode, compiles>>
  PROVE  CompileInv'
<1>1. Serves(With(t, v)) /\ \A f \in Functions : Compiles(With(t, v), f) => Compiles(work[t], f)
  BY BecomesServes
<1>2. AllGood(With(t, v))
  BY WithGood
<1> DEFINE g == Glue[Top(v).func]
<1>3. Top(v).func \in Functions /\ g \in Functions /\ Len(v.frames) \in 1 .. Len(v.frames)
  BY TopGood, FunctionsAssumption DEF Frame
<1>4. /\ Len(With(t, v)) = Len(work[t]) /\ With(t, v)[Len(With(t, v))] = v
  <2>1. work[t] \in Seq(VMThread) /\ Len(work[t]) \in 1 .. Len(work[t]) /\ v \in VMThread
    BY CurGood DEF Good
  <2> QED
    BY <2>1 DEF With
<1>5. Fresh(g) \in [stack : Stacks \cup {None}, flags : Seq(SUBSET Byte), call : Functions \cup {None},
                    compiling : {FALSE}, frames : Frames]
  BY <1>3, FreshReady DEF Ready
<1>6. ASSUME NEW W \in SUBSET Functions, SelfContained(W), Within(v, W)
      PROVE  Within(Fresh(g), W)
  <2>1. Top(v).func \in W
    BY <1>3, <1>6 DEF Within, Top
  <2>2. g \in W
    BY <1>6, <2>1 DEF SelfContained
  <2> QED
    BY <2>2, FreshWithin
<1> QED
  BY <1>1, <1>2, <1>4, <1>5, <1>6, NestKept DEF RunGlue

(* Nothing changes for a VMThread of which only flags and locals change. *)
LEMMA SameWithin ==
  ASSUME NEW v, NEW w, w.call = v.call, Len(w.frames) = Len(v.frames),
         \A k \in 1 .. Len(v.frames) : w.frames[k].func = v.frames[k].func, NEW W
  PROVE  Within(w, W) <=> Within(v, W)
  BY DEF Within

(* Two states of a VMThread that run the same functions. *)
Alike(v, w) ==
  /\ w.call = v.call /\ w.compiling = v.compiling /\ Len(w.frames) = Len(v.frames)
  /\ \A k \in 1 .. Len(v.frames) : w.frames[k].func = v.frames[k].func

Holds(v, n) == [v EXCEPT !.flags = SetFlag(v, n), !.frames = Holding(v, Top(v).holds \cup {n})]

LEMMA HoldsAlike ==
  ASSUME NEW v, Good(v), v.frames # <<>>, NEW n
  PROVE  Alike(v, Holds(v, n))
<1>1. /\ v.frames \in Seq(Frame) /\ Len(v.frames) \in 1 .. Len(v.frames) /\ Top(v) \in Frame
      /\ Holds(v, n).frames = [v.frames EXCEPT ![Len(v.frames)].holds = Top(v).holds \cup {n}]
      /\ Holds(v, n).call = v.call /\ Holds(v, n).compiling = v.compiling
  BY TopGood DEF Good, VMThread, Holds, Holding
<1> QED
  BY <1>1 DEF Alike, Frame

LEMMA DroppedAlike ==
  ASSUME NEW v, Good(v), v.frames # <<>>, NEW n
  PROVE  Alike(v, Dropped(v, n))
<1>1. /\ v.frames \in Seq(Frame) /\ Len(v.frames) \in 1 .. Len(v.frames) /\ Top(v) \in Frame
      /\ Dropped(v, n).frames = [v.frames EXCEPT ![Len(v.frames)].holds = Top(v).holds \ {n}]
      /\ Dropped(v, n).call = v.call /\ Dropped(v, n).compiling = v.compiling
  BY TopGood DEF Good, VMThread, Dropped, Holding
<1> QED
  BY <1>1 DEF Alike, Frame

LEMMA LeftAlike ==
  ASSUME NEW v, Good(v), v.frames # <<>>, NEW l
  PROVE  Alike(v, [v EXCEPT !.frames[Len(v.frames)].left = l])
<1> DEFINE w == [v EXCEPT !.frames[Len(v.frames)].left = l]
<1>1. /\ v.frames \in Seq(Frame) /\ Len(v.frames) \in 1 .. Len(v.frames)
      /\ w.frames = [v.frames EXCEPT ![Len(v.frames)].left = l]
      /\ w.call = v.call /\ w.compiling = v.compiling
  BY TopGood DEF Good, VMThread
<1> HIDE DEF w
<1>2. Alike(v, w)
  BY <1>1 DEF Alike, Frame
<1> QED
  BY <1>2 DEF w

LEMMA AlikeKept ==
  ASSUME PackedInv, CompileInv, NEW t \in Threads, Live(t), ~Cur(t).compiling, NEW v, Good(v), Alike(Cur(t), v),
         Becomes(t, v), UNCHANGED <<bytecode, compiles>>
  PROVE  CompileInv'
<1>1. ~v.compiling /\ \A W : Within(Cur(t), W) => Within(v, W)
  BY SameWithin DEF Alike
<1> QED
  BY <1>1, BecomesKept

LEMMA GlueKept ==
  ASSUME PackedInv, CompileInv, NEW t \in Threads, Live(t), ~Cur(t).compiling, Cur(t).frames # <<>>,
         NEW v, Good(v), Alike(Cur(t), v), v.frames # <<>>, Drops[Top(Cur(t)).func] > 0,
         RunGlue(t, v), UNCHANGED <<bytecode, compiles>>
  PROVE  CompileInv'
<1>1. ~v.compiling /\ \A W : Within(Cur(t), W) => Within(v, W)
  BY SameWithin DEF Alike
<1>2. Top(v).func = Top(Cur(t)).func
  <2>1. Len(v.frames) \in 1 .. Len(v.frames)
    BY TopGood
  <2> QED
    BY <2>1 DEF Alike, Top
<1> QED
  BY <1>1, <1>2, RunGlueKept

LEMMA CompileKept ==
  ASSUME PackedInv, CompileInv, NEW t \in Threads, Live(t), Compile(t)
  PROVE  CompileInv'
<1> DEFINE v == [Cur(t) EXCEPT !.compiling = TRUE]
           f == Cur(t).call
<1>1. Good(Cur(t)) /\ f \in Functions \ bytecode
  BY CurGood DEF Compile
<1>2. Good(v)
  BY <1>1, CallGood
<1>3. v.call = f /\ v.frames = Cur(t).frames
  BY <1>1 DEF Good, VMThread
<1>4. Serves(With(t, v))
  <2> HIDE DEF v
  <2>1. \A W : Within(Cur(t), W) => Within(v, W)
    BY <1>3, SameWithin
  <2> QED
    BY <1>2, <2>1, ServesWith DEF CompileInv
<1>5. /\ work' = [work EXCEPT ![t] = With(t, v)] /\ work \in [Threads -> Seq(VMThread)]
      /\ UNCHANGED <<bytecode, compiles>>
  BY DEF Compile, Becomes, PackedInv
<1>6. \A u \in Threads : Serves(work'[u])
  BY <1>4, <1>5 DEF CompileInv
<1>7. ASSUME NEW g \in Functions, g # f
      PROVE  Compilers(g)' \subseteq Compilers(g)
  <2>1. work[t] \in Seq(VMThread) /\ Len(work[t]) \in 1 .. Len(work[t]) /\ v \in VMThread
    BY <1>2, CurGood DEF Good
  <2> HIDE DEF v
  <2>2. /\ Len(With(t, v)) = Len(work[t])
        /\ \A i \in 1 .. Len(work[t]) : With(t, v)[i] = IF i = Len(work[t]) THEN v ELSE work[t][i]
    BY <2>1 DEF With
  <2>3. Compiles(With(t, v), g) => Compiles(work[t], g)
    BY <1>3, <1>7, <2>1, <2>2 DEF Compiles
  <2> QED
    BY <1>5, <2>3 DEF Compilers
<1>8. \A g : Compilers(g)' \subseteq Threads /\ Compilers(g) \subseteq Threads
  BY DEF Compilers
<1>9. /\ Cardinality(Threads) \in Nat
      /\ \A S \in SUBSET Threads : IsFiniteSet(S) /\ Cardinality(S) \in Nat /\ Cardinality(S) <= Cardinality(Threads)
  BY ThreadsAssumption, FS_CardinalityType, FS_Subset
<1>10. \A g \in Functions : g # f => Cardinality(Compilers(g)') <= Cardinality(Compilers(g))
  BY <1>7, <1>8, <1>9, FS_Subset
<1>11. compiles[f] = 0
  BY <1>1 DEF CompileInv
<1> HIDE DEF v, f
<1>12. ASSUME NEW g \in Functions
       PROVE  compiles[g] + Cardinality(Compilers(g)') <= Cardinality(Threads)
  <2>1. Cardinality(Compilers(g)') \in Nat /\ Cardinality(Compilers(g)) \in Nat
        /\ Cardinality(Compilers(g)') <= Cardinality(Threads)
    BY <1>8, <1>9
  <2> QED
    BY <1>9, <1>10, <1>11, <2>1 DEF CompileInv
<1> QED
  BY <1>5, <1>6, <1>12 DEF CompileInv

LEMMA PublishKept ==
  ASSUME PackedInv, CompileInv, NEW t \in Threads, Live(t), Publish(t),
         NEW f \in Functions, Cur(t).call = f
  PROVE  CompileInv'
<1> DEFINE v == [Cur(t) EXCEPT !.compiling = FALSE]
<1>1. Good(Cur(t)) /\ f \in Functions /\ Cur(t).compiling
  BY CurGood DEF Publish, Good
<1>2. Good(v) /\ ~v.compiling
  BY <1>1 DEF Good, VMThread
<1>3. v.call = f /\ v.frames = Cur(t).frames
  BY <1>1 DEF Good, VMThread
<1>4. /\ work' = [work EXCEPT ![t] = With(t, v)] /\ work \in [Threads -> Seq(VMThread)]
      /\ bytecode' = bytecode \cup {f}
      /\ compiles' = IF f \in Raw THEN compiles ELSE [compiles EXCEPT ![f] = @ + 1]
      /\ compiles \in [Functions -> Nat]
  BY DEF Publish, Becomes, PackedInv, CompileInv
<1> HIDE DEF v
<1>5. /\ Serves(With(t, v)) /\ \A g \in Functions : Compiles(With(t, v), g) => Compiles(work[t], g)
  <2>1. \A W : Within(Cur(t), W) => Within(v, W)
    BY <1>3, SameWithin
  <2> QED
    BY <1>2, <2>1, BecomesServes
<1>6. \A u \in Threads : Serves(work'[u])
  BY <1>4, <1>5 DEF CompileInv
<1>7. \A g \in Functions : Compilers(g)' \subseteq Compilers(g) /\ Compilers(g) \subseteq Threads
  BY <1>4, <1>5 DEF Compilers
<1>8. t \in Compilers(f) /\ t \notin Compilers(f)'
  <2>1. work[t] \in Seq(VMThread) /\ Len(work[t]) \in 1 .. Len(work[t]) /\ v \in VMThread
    BY <1>2, CurGood DEF Good
  <2>2. /\ Len(With(t, v)) = Len(work[t])
        /\ \A i \in 1 .. Len(work[t]) : With(t, v)[i] = IF i = Len(work[t]) THEN v ELSE work[t][i]
    BY <2>1 DEF With
  <2>3. Compiles(work[t], f)
    BY <1>1, <2>1 DEF Compiles, Cur
  <2>4. ASSUME Compiles(With(t, v), f)
        PROVE  FALSE
    <3>1. PICK i \in 1 .. Len(work[t]) : With(t, v)[i].compiling /\ With(t, v)[i].call = f
      BY <2>2, <2>4 DEF Compiles
    <3>2. i # Len(work[t]) /\ work[t][i].compiling /\ work[t][i].call = f
      BY <1>2, <2>2, <3>1
    <3>3. AllGood(work[t]) /\ Serves(work[t])
      BY DEF PackedInv, CompileInv
    <3> QED
      BY <1>1, <2>1, <3>2, <3>3, CompilesOnce DEF Cur
  <2> QED
    BY <1>4, <2>3, <2>4 DEF Compilers
<1>9. \A g \in Functions : /\ IsFiniteSet(Compilers(g)) /\ IsFiniteSet(Compilers(g)')
                           /\ Cardinality(Compilers(g)) \in Nat /\ Cardinality(Compilers(g)') \in Nat
                           /\ Cardinality(Compilers(g)') <= Cardinality(Compilers(g))
  <2> SUFFICES ASSUME NEW g \in Functions
               PROVE  /\ IsFiniteSet(Compilers(g)) /\ IsFiniteSet(Compilers(g)')
                      /\ Cardinality(Compilers(g)) \in Nat /\ Cardinality(Compilers(g)') \in Nat
                      /\ Cardinality(Compilers(g)') <= Cardinality(Compilers(g))
    OBVIOUS
  <2>1. IsFiniteSet(Compilers(g)) /\ IsFiniteSet(Compilers(g)')
    BY <1>7, ThreadsAssumption, FS_Subset
  <2> QED
    BY <1>7, <2>1, FS_Subset, FS_CardinalityType
<1>10. Cardinality(Compilers(f)') + 1 <= Cardinality(Compilers(f))
  <2>1. Compilers(f)' \subseteq Compilers(f) \ {t}
    BY <1>1, <1>7, <1>8
  <2>2. Cardinality(Compilers(f) \ {t}) = Cardinality(Compilers(f)) - 1 /\ IsFiniteSet(Compilers(f) \ {t})
    BY <1>1, <1>8, <1>9, FS_RemoveElement
  <2>3. Cardinality(Compilers(f)') <= Cardinality(Compilers(f) \ {t})
    BY <2>1, <2>2, FS_Subset
  <2> QED
    BY <1>1, <1>9, <2>2, <2>3
<1>11. Cardinality(Threads) \in Nat
  BY ThreadsAssumption, FS_CardinalityType
<1>12. ASSUME NEW g \in Functions
       PROVE  /\ g \notin bytecode' => compiles'[g] = 0
              /\ compiles'[g] + Cardinality(Compilers(g)') <= Cardinality(Threads)
  <2>1. CASE g = f
    BY <1>4, <1>9, <1>10, <1>11, <2>1 DEF CompileInv
  <2>2. CASE g # f
    <3>1. compiles'[g] = compiles[g]
      BY <1>4, <2>2
    <3> QED
      BY <1>4, <1>9, <1>11, <2>2, <3>1 DEF CompileInv
  <2> QED
    BY <2>1, <2>2
<1> QED
  BY <1>1, <1>4, <1>6, <1>12 DEF CompileInv

LEMMA CompileInvNext ==
  ASSUME RuntimeInv, CompileInv, [Next]_vars
  PROVE  CompileInv'
<1>1. PackedInv
  BY DEF RuntimeInv
<1>2. CASE UNCHANGED vars
  <2>1. UNCHANGED <<work, bytecode, compiles>>
    BY <1>2 DEF vars
  <2>2. \A f \in Functions : Compilers(f)' = Compilers(f)
    BY <2>1 DEF Compilers
  <2>3. \A t \in Threads : Serves(work[t])'
    BY <2>1 DEF CompileInv
  <2> QED
    BY <2>1, <2>2, <2>3 DEF CompileInv
<1>3. ASSUME NEW t \in Threads, Start(t)
      PROVE  CompileInv'
  <2>1. /\ AllGood(work[t]) /\ Serves(work[t]) /\ work[t] = <<>>
        /\ \A f \in Functions : Compiles(work[t], f) => Compiles(work[t], f)
        /\ UNCHANGED <<bytecode, compiles>>
    BY <1>1, <1>3 DEF PackedInv, CompileInv, Start
  <2>2. ASSUME NEW f \in Functions
        PROVE  Ready(Fresh(f)) /\ Ready(Enter(Fresh(None), f))
    BY <2>2, FreshReady, EnterReady
  <2>3. \A f \in Roots[t] \cup Evals[t] : f \in Functions
    BY FunctionsAssumption
  <2>4. PICK v : Ready(v) /\ Nest(t, work[t], v)
    BY <1>3, <2>2, <2>3 DEF Start
  <2> QED
    BY <1>1, <2>1, <2>4, NestKept DEF Ready
<1>4. ASSUME NEW t \in Threads, Live(t), Fetch(t)
      PROVE  CompileInv'
  <2>1. Good(Cur(t)) /\ Cur(t).call \in Functions /\ ~Cur(t).compiling
    BY <1>1, <1>4, CurGood DEF Fetch, RuntimeInv
  <2>2. Good(Enter(Cur(t), Cur(t).call)) /\ ~Enter(Cur(t), Cur(t).call).compiling
    BY <2>1, EnterGood DEF Enter, Good, VMThread
  <2>3. ASSUME NEW W \in SUBSET Functions, Within(Cur(t), W)
        PROVE  Within(Enter(Cur(t), Cur(t).call), W)
    <3>1. Cur(t).call \in W
      BY <2>1, <2>3, FunctionsAssumption DEF Within
    <3> QED
      BY <2>1, <2>3, <3>1, EnterWithin
  <2> QED
    BY <1>1, <1>4, <2>2, <2>3, BecomesKept DEF Fetch
<1>5. ASSUME NEW t \in Threads, Live(t), Evaluate(t)
      PROVE  CompileInv'
  <2>1. /\ AllGood(work[t]) /\ Serves(work[t]) /\ Good(Cur(t)) /\ Cur(t).compiling
        /\ \A f \in Functions : Compiles(work[t], f) => Compiles(work[t], f)
    BY <1>1, <1>5, CurGood DEF PackedInv, CompileInv, Evaluate
  <2>2. PICK c \in Consts[Cur(t).call] : Nest(t, work[t], Enter(Fresh(None), c))
    BY <1>5 DEF Evaluate
  <2>3. Cur(t).call \in Functions /\ c \in Functions
    BY <2>1, <2>2, FunctionsAssumption DEF Good
  <2>4. Ready(Enter(Fresh(None), c)) /\ Ready(Fresh(None))
    BY <2>3, EnterReady, FreshReady
  <2>5. ASSUME NEW W \in SUBSET Functions, SelfContained(W),
               Within(Cur(t), W) \/ Consts[Cur(t).call] \subseteq W
        PROVE  Within(Enter(Fresh(None), c), W)
    <3>1. c \in W
      BY <2>2, <2>3, <2>5, FunctionsAssumption DEF SelfContained, Within
    <3> QED
      BY <2>4, <3>1, FreshWithin, EnterWithin
  <2>6. work[t][Len(work[t])] = Cur(t) /\ UNCHANGED <<bytecode, compiles>>
    BY <1>5 DEF Cur, Evaluate
  <2> HIDE DEF Cur
  <2> QED
    BY <1>1, <2>1, <2>2, <2>4, <2>5, <2>6, NestKept DEF Ready
<1>6. ASSUME NEW t \in Threads, Live(t), CallFn(t)
      PROVE  CompileInv'
  <2>1. Good(Cur(t)) /\ Cur(t).frames # <<>> /\ Cur(t).call = None
    BY <1>1, <1>6, CurGood DEF CallFn, Executes
  <2>2. PICK g \in Calls[Top(Cur(t)).func] : Becomes(t, [Cur(t) EXCEPT !.call = g])
    BY <1>6 DEF CallFn
  <2>3. Top(Cur(t)).func \in Functions /\ Len(Cur(t).frames) \in 1 .. Len(Cur(t).frames)
    BY <2>1, TopGood DEF Frame
  <2>4. g \in Functions /\ ~Cur(t).compiling
    BY <2>1, <2>3, FunctionsAssumption DEF Good
  <2> DEFINE v == [Cur(t) EXCEPT !.call = g]
  <2>5. Good(v) /\ v.call = g /\ v.frames = Cur(t).frames /\ ~v.compiling
    BY <2>1, <2>4, CallGood DEF Good, VMThread
  <2>6. ASSUME NEW W \in SUBSET Functions, SelfContained(W), Within(Cur(t), W)
        PROVE  Within(v, W)
    <3>1. g \in W
      BY <2>2, <2>3, <2>6 DEF Within, SelfContained, Top
    <3> QED
      BY <2>5, <2>6, <3>1 DEF Within
  <2> HIDE DEF v
  <2> QED
    BY <1>1, <1>6, <2>2, <2>5, <2>6, BecomesKept DEF CallFn, v
<1>7. ASSUME NEW t \in Threads, Live(t), Executes(t) \/ Returns(t)
      PROVE  Good(Cur(t)) /\ Cur(t).frames # <<>> /\ ~Cur(t).compiling
  BY <1>1, <1>7, CurGood, FunctionsAssumption DEF Executes, Returns, Good
<1>8. ASSUME NEW t \in Threads, Live(t), Executes(t), NEW n \in Uses[Top(Cur(t)).func]
      PROVE  /\ n \in 0 .. Drops[Top(Cur(t)).func] - 1 /\ Drops[Top(Cur(t)).func] > 0
             /\ Good(Holds(Cur(t), n)) /\ Alike(Cur(t), Holds(Cur(t), n))
             /\ Good(Dropped(Cur(t), n)) /\ Alike(Cur(t), Dropped(Cur(t), n)) /\ Dropped(Cur(t), n).frames # <<>>
  <2>1. Good(Cur(t)) /\ Cur(t).frames # <<>>
    BY <1>7, <1>8
  <2>2. Top(Cur(t)).func \in Functions /\ Drops[Top(Cur(t)).func] \in Nat
    BY <2>1, TopGood DEF Frame
  <2>3. n \in 0 .. Drops[Top(Cur(t)).func] - 1
    BY <2>2, FunctionsAssumption
  <2> QED
    <3>1. Good(Holds(Cur(t), n))
      BY <2>1, <2>3, SetGood DEF Holds
    <3>2. Drops[Top(Cur(t)).func] > 0
      BY <2>2, <2>3
    <3> QED
      BY <2>1, <2>3, <3>1, <3>2, HoldsAlike, DroppedAlike, DroppedGood
<1>9. ASSUME NEW t \in Threads, Live(t), LocalInit(t)
      PROVE  CompileInv'
  <2>1. PICK n \in Uses[Top(Cur(t)).func] : Becomes(t, Holds(Cur(t), n))
    BY <1>9 DEF LocalInit, Holds
  <2>2. Executes(t) /\ UNCHANGED <<bytecode, compiles>>
    BY <1>9 DEF LocalInit
  <2> QED
    BY <1>1, <1>7, <1>8, <1>9, <2>1, <2>2, AlikeKept
<1>10. ASSUME NEW t \in Threads, Live(t), LocalMove(t)
       PROVE  CompileInv'
  <2>1. PICK n \in Top(Cur(t)).holds : Becomes(t, Dropped(Cur(t), n))
    BY <1>10 DEF LocalMove
  <2>2. Executes(t) /\ UNCHANGED <<bytecode, compiles>>
    BY <1>10 DEF LocalMove
  <2>3. Good(Cur(t)) /\ Cur(t).frames # <<>> /\ ~Cur(t).compiling
    BY <1>7, <1>10, <2>2
  <2>4. n \in 0 .. Drops[Top(Cur(t)).func] - 1
    BY <2>3, TopGood
  <2>5. Good(Dropped(Cur(t), n)) /\ Alike(Cur(t), Dropped(Cur(t), n))
    BY <2>3, <2>4, DroppedGood, DroppedAlike
  <2> QED
    BY <1>1, <1>10, <2>1, <2>2, <2>3, <2>5, AlikeKept
<1>11. ASSUME NEW t \in Threads, Live(t), LocalDrop(t)
       PROVE  CompileInv'
  <2>1. PICK n \in Uses[Top(Cur(t)).func] : RunGlue(t, Dropped(Cur(t), n))
    BY <1>11 DEF LocalDrop
  <2>2. Executes(t) /\ UNCHANGED <<bytecode, compiles>>
    BY <1>11 DEF LocalDrop
  <2> QED
    BY <1>1, <1>7, <1>8, <1>11, <2>1, <2>2, GlueKept
<1>12. ASSUME NEW t \in Threads, Live(t), LocalDropInit(t)
       PROVE  CompileInv'
  <2>1. PICK n \in Uses[Top(Cur(t)).func] : RunGlue(t, Cur(t)) \/ Becomes(t, Holds(Cur(t), n))
    BY <1>12 DEF LocalDropInit, Holds
  <2>2. Executes(t) /\ UNCHANGED <<bytecode, compiles>>
    BY <1>12 DEF LocalDropInit
  <2>3. Alike(Cur(t), Cur(t))
    BY DEF Alike
  <2> QED
    BY <1>1, <1>7, <1>8, <1>12, <2>1, <2>2, <2>3, AlikeKept, GlueKept
<1>13. ASSUME NEW t \in Threads, Live(t), Return(t)
       PROVE  CompileInv'
  <2>1. Good(Cur(t)) /\ Cur(t).frames # <<>> /\ ~Cur(t).compiling
    BY <1>7, <1>13 DEF Return
  <2> DEFINE v == [Cur(t) EXCEPT !.frames[Len(Cur(t).frames)].left = Drops[Top(Cur(t)).func]]
  <2>2. Drops[Top(Cur(t)).func] \in Nat
    BY <2>1, TopGood
  <2>3. Good(v) /\ Alike(Cur(t), v)
    <3>1. Good(v)
      BY <2>1, <2>2, LeftGood
    <3>2. Alike(Cur(t), v)
      BY <2>1, LeftAlike
    <3> QED
      BY <3>1, <3>2
  <2>4. Becomes(t, v) /\ UNCHANGED <<bytecode, compiles>>
    BY <1>13 DEF Return
  <2> HIDE DEF v
  <2> QED
    BY <1>1, <1>13, <2>1, <2>3, <2>4, AlikeKept
<1>14. ASSUME NEW t \in Threads, Live(t), DropRest(t)
       PROVE  CompileInv'
  <2>1. Good(Cur(t)) /\ Cur(t).frames # <<>> /\ ~Cur(t).compiling
    BY <1>7, <1>14 DEF DropRest
  <2>2. PICK n \in Due(Cur(t)) :
          RunGlue(t, [Dropped(Cur(t), n) EXCEPT !.frames[Len(Cur(t).frames)].left = n])
    BY <1>14 DEF DropRest
  <2> DEFINE d == Dropped(Cur(t), n)
             v == [d EXCEPT !.frames[Len(Cur(t).frames)].left = n]
  <2>3. Good(v) /\ v.frames # <<>> /\ Good(d)
    BY <2>1, DueGood
  <2>4. n \in 0 .. Drops[Top(Cur(t)).func] - 1 /\ Drops[Top(Cur(t)).func] > 0
    <3>1. Top(Cur(t)).left <= Drops[Top(Cur(t)).func] /\ Top(Cur(t)).left \in Int
      BY <2>1, TopGood DEF Good, Packed, Agrees, Top, Frame
    <3>2. Drops[Top(Cur(t)).func] \in Nat /\ n \in 0 .. Top(Cur(t)).left - 1
      BY <2>1, TopGood DEF Due
    <3> QED
      BY <3>1, <3>2
  <2>5. Alike(Cur(t), d) /\ d.frames # <<>> /\ Len(d.frames) = Len(Cur(t).frames)
    BY <2>1, <2>4, DroppedAlike, DroppedGood
  <2> HIDE DEF d
  <2>6. Alike(d, v)
    BY <2>3, <2>5, LeftAlike
  <2> HIDE DEF v
  <2>7. Alike(Cur(t), v)
    BY <2>5, <2>6 DEF Alike
  <2>8. RunGlue(t, v) /\ UNCHANGED <<bytecode, compiles>>
    BY <1>14, <2>2 DEF DropRest, v, d
  <2> QED
    BY <1>1, <1>14, <2>1, <2>3, <2>4, <2>7, <2>8, GlueKept
<1>15. ASSUME NEW t \in Threads, Live(t), Finish(t)
       PROVE  CompileInv'
  <2>1. Good(Cur(t)) /\ Cur(t).frames # <<>> /\ ~Cur(t).compiling
    BY <1>7, <1>15 DEF Finish
  <2>2. Good(Leave(Cur(t)))
    BY <2>1, LeaveGood
  <2>3. /\ Leave(Cur(t)).call = Cur(t).call /\ ~Leave(Cur(t)).compiling
        /\ Leave(Cur(t)).frames = SubSeq(Cur(t).frames, 1, Len(Cur(t).frames) - 1)
    BY <2>1 DEF Leave, Good, VMThread
  <2>4. Cur(t).frames \in Seq(Frame) /\ Len(Cur(t).frames) > 0 /\ Len(Cur(t).frames) \in Nat
    BY <2>1, TopGood
  <2>5. /\ Len(Leave(Cur(t)).frames) = Len(Cur(t).frames) - 1
        /\ \A k \in 1 .. Len(Cur(t).frames) - 1 : Leave(Cur(t)).frames[k] = Cur(t).frames[k]
    BY <2>3, <2>4, AllButLast
  <2>6. \A W : Within(Cur(t), W) => Within(Leave(Cur(t)), W)
    BY <2>3, <2>4, <2>5 DEF Within
  <2>7. Becomes(t, Leave(Cur(t))) /\ UNCHANGED <<bytecode, compiles>>
    BY <1>15 DEF Finish
  <2> QED
    BY <1>1, <1>15, <2>2, <2>3, <2>6, <2>7, BecomesKept
<1>16. ASSUME NEW t \in Threads, Live(t), End(t)
       PROVE  CompileInv'
  <2> DEFINE vs == SubSeq(work[t], 1, Len(work[t]) - 1)
  <2>1. work[t] \in Seq(VMThread) /\ Len(work[t]) \in Nat /\ Len(work[t]) > 0
    BY <1>1, <1>16, CurGood
  <2>2. /\ Len(vs) = Len(work[t]) - 1
        /\ \A i \in 1 .. Len(work[t]) - 1 : vs[i] = work[t][i]
    BY <2>1, AllButLast
  <2>3. work' = [work EXCEPT ![t] = vs] /\ UNCHANGED <<bytecode, compiles>>
    BY <1>1, <1>16 DEF End, PackedInv
  <2> HIDE DEF vs
  <2>4. Serves(work[t])
    BY DEF CompileInv
  <2>5. Serves(vs)
    <3>1. \A i \in 1 .. Len(vs) : i \in 1 .. Len(work[t]) /\ vs[i] = work[t][i]
      BY <2>1, <2>2
    <3> HIDE DEF vs
    <3> QED
      BY <2>4, <3>1 DEF Serves
  <2>6. \A f \in Functions : Compiles(vs, f) => Compiles(work[t], f)
    BY <2>1, <2>2 DEF Compiles
  <2> QED
    BY <1>1, <2>3, <2>5, <2>6, CountsKept DEF PackedInv
<1>17. ASSUME NEW t \in Threads, Live(t), Publish(t)
       PROVE  CompileInv'
  <2>1. Cur(t).call \in Functions
    BY <1>1, <1>17, CurGood DEF Publish, Good
  <2> QED
    BY <1>1, <1>17, <2>1, PublishKept
<1> QED
  BY <1>1, <1>2, <1>3, <1>4, <1>5, <1>6, <1>9, <1>10, <1>11, <1>12, <1>13, <1>14, <1>15, <1>16,
     <1>17, CompileKept DEF Next

(* A function is compiled at most once by each thread, however they race and    *)
(* whatever constants their compilations evaluate: Function::bytecode, which     *)
(* takes no lock, wastes no more than that.                                      *)
THEOREM CompilesBounded == Spec => []CompiledOncePerThread
<1>1. Init => RuntimeInv /\ CompileInv
  BY InitRuntimeInv, InitCompileInv
<1>2. RuntimeInv /\ CompileInv /\ [Next]_vars => (RuntimeInv /\ CompileInv)'
  BY PackedNext, BytecodeNext, CompileInvNext DEF RuntimeInv
<1>3. CompileInv => CompiledOncePerThread
  <2> SUFFICES ASSUME CompileInv, NEW f \in Functions
               PROVE  compiles[f] <= Cardinality(Threads)
    BY DEF CompiledOncePerThread
  <2>1. Cardinality(Compilers(f)) \in Nat /\ Cardinality(Threads) \in Nat
    <3>1. Compilers(f) \subseteq Threads
      BY DEF Compilers
    <3> QED
      BY <3>1, ThreadsAssumption, FS_Subset, FS_CardinalityType
  <2> QED
    BY <2>1 DEF CompileInv
<1> QED
  BY <1>1, <1>2, <1>3, PTL DEF Spec
================================================================================
