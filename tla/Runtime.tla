-------------------------------- MODULE Runtime --------------------------------
(* The interpreter's threads as they share one VM: activations of a VMThread    *)
(* keep their drop flags in one vector of bytes, each new VMThread takes its    *)
(* stack from a pool, and a Function is compiled by whoever first calls it.     *)
(* A thread of the process (the VM's, or a rustc worker's) runs a stack of      *)
(* VMThreads: dropping a value and evaluating a constant each make a new one.   *)
(* Bodies are open: an activation may do anything its compiled code may, which  *)
(* is to initialise what it does not hold and to move what it holds.            *)
EXTENDS Integers, Sequences, FiniteSets

CONSTANTS
  Threads,    \* threads of the process that run bytecode
  Functions,  \* Function objects, drop glue and the bodies of constants among them
  Raw,        \* those made from raw bytecode: drop glue
  Drops,      \* f: length of FunctionBytecode::drops
  Uses,       \* f: the drop bits its code touches
  Glue,       \* f: the glue of its drop bits
  Calls,      \* f: the functions its code may call
  Consts,     \* f: the constants evaluated while f is compiled
  Roots,      \* t: functions it calls from outside: main
  Evals,      \* t: constants it evaluates from outside: discriminants
  Stacks,     \* bound: stacks that can be allocated
  MaxFrames,  \* bound: activations of one VMThread
  MaxNested,  \* t: bound, VMThreads that it runs at once
  None        \* no function

ASSUME FunctionsAssumption ==
  /\ Raw \subseteq Functions /\ None \notin Functions
  /\ Roots \in [Threads -> SUBSET Functions] /\ Evals \in [Threads -> SUBSET Functions]
  /\ Drops \in [Functions -> Nat]
  /\ \A f \in Functions : Uses[f] \subseteq 0 .. Drops[f] - 1
  /\ Glue \in [Functions -> Functions]
  /\ Calls \in [Functions -> SUBSET Functions] /\ Consts \in [Functions -> SUBSET Functions]
  /\ \A f \in Raw : Drops[f] = 0 /\ Consts[f] = {}

(* All that code of W may run in its thread is in W.                            *)
SelfContained(W) ==
  \A f \in W : Calls[f] \cup Consts[f] \cup (IF Drops[f] > 0 THEN {Glue[f]} ELSE {}) \subseteq W

(* rustc rejects a constant whose value depends on itself.                      *)
ASSUME ConstsAssumption ==
  \A f \in Functions : \E W \in SUBSET Functions :
    Consts[f] \subseteq W /\ SelfContained(W) /\ f \notin W

ASSUME ThreadsAssumption == IsFiniteSet(Threads)

ASSUME BoundsAssumption == MaxFrames \in Nat /\ MaxNested \in [Threads -> Nat]

VARIABLES
  work,      \* thread: its VMThreads, the last one running
  pool,      \* VM::stack_pool
  made,      \* stacks allocated so far
  bytecode,  \* the functions whose bytecode pointer is set
  compiles   \* history: how often a function has been compiled

vars == <<work, pool, made, bytecode, compiles>>

Byte == 0 .. 7

(* call is a function being entered, and compiling that its code is being made; *)
(* flags is drop_flags; frames are the activations of run_bytecode.             *)
VMThread == [stack : Stacks, flags : Seq(SUBSET Byte), call : Functions \cup {None},
             compiling : BOOLEAN, frames : Seq([func : Functions, base : Nat,
                                               holds : SUBSET Nat, left : Int])]

(* An activation that executes its code; afterwards left counts its drops down. *)
Running == -1

--------------------------------------------------------------------------------
(* The flags. *)

(* Mutant: the last byte is only counted when it is full. *)
BytesForRoundedDown(f) == Drops[f] \div 8
BytesFor(f) == IF Drops[f] > 0 THEN ((Drops[f] - 1) \div 8) + 1 ELSE 0

Place(fr, n) == fr.base + (n \div 8) + 1
InBounds(v, fr, n) == Place(fr, n) <= Len(v.flags)
IsSet(v, fr, n) == n % 8 \in v.flags[Place(fr, n)]

Top(v) == v.frames[Len(v.frames)]
(* Mutant: the bit is not taken modulo the byte. *)
SetFlagUnmasked(v, n) == [v.flags EXCEPT ![Place(Top(v), n)] = @ \cup {n}]
SetFlag(v, n) == [v.flags EXCEPT ![Place(Top(v), n)] = @ \cup {n % 8}]
ClearFlag(v, n) == [v.flags EXCEPT ![Place(Top(v), n)] = @ \ {n % 8}]

(* The running activation now holds these locals. *)
Holding(v, locals) == [v.frames EXCEPT ![Len(v.frames)].holds = locals]

--------------------------------------------------------------------------------
(* Making and dropping VMThreads. *)

Fresh(f) ==
  [stack |-> None, flags |-> <<>>, call |-> f, compiling |-> FALSE, frames |-> <<>>]

(* Mutant: the stack stays in the pool. *)
MakeThreadKeepingPool(stack) ==
  IF pool = <<>> THEN /\ stack \in Stacks \ made
                      /\ made' = made \cup {stack} /\ UNCHANGED pool
  ELSE stack = pool[Len(pool)] /\ UNCHANGED <<pool, made>>

(* make_thread: the stack last put into the pool, or a new one. *)
MakeThread(stack) ==
  IF pool = <<>> THEN /\ stack \in Stacks \ made
                      /\ made' = made \cup {stack} /\ UNCHANGED pool
  ELSE /\ stack = pool[Len(pool)]
       /\ pool' = SubSeq(pool, 1, Len(pool) - 1) /\ UNCHANGED made

(* The innermost VMThread of t. *)
Live(t) == work[t] # <<>>
Cur(t) == work[t][Len(work[t])]
With(t, v) == [work[t] EXCEPT ![Len(work[t])] = v]
Becomes(t, v) == work' = [work EXCEPT ![t] = With(t, v)]

(* t goes on with the new VMThread v, and later with vs. *)
Nest(t, vs, v) ==
  /\ Len(vs) < MaxNested[t]
  /\ \E s \in Stacks : MakeThread(s) /\ work' = [work EXCEPT ![t] = Append(vs, [v EXCEPT !.stack = s])]

StartsIn(f, base) == [func |-> f, base |-> base, holds |-> {}, left |-> Running]
Zeros(f) == [i \in 1 .. BytesFor(f) |-> {}]

(* run_bytecode makes room for the activation's flags behind its caller's. *)
Enter(v, f) ==
  [v EXCEPT !.call = None, !.frames = Append(@, StartsIn(f, Len(v.flags))),
            !.flags = @ \o Zeros(f)]

Leave(v) ==
  [v EXCEPT !.frames = SubSeq(@, 1, Len(@) - 1), !.flags = SubSeq(@, 1, Top(v).base)]

--------------------------------------------------------------------------------
Init ==
  /\ work = [t \in Threads |-> <<>>]
  /\ pool = <<>> /\ made = {}
  /\ bytecode = {} /\ compiles = [f \in Functions |-> 0]

(* main.rs makes a VMThread for the main function; a worker that needs a        *)
(* discriminant compiles and runs it on the spot.                               *)
Start(t) ==
  /\ work[t] = <<>>
  /\ \/ \E f \in Roots[t] : Nest(t, work[t], Fresh(f))
     \/ \E c \in Evals[t] : Nest(t, work[t], Enter(Fresh(None), c))
  /\ UNCHANGED <<bytecode, compiles>>

(* Function::bytecode, the pointer is set: the call goes on with what it finds. *)
Fetch(t) ==
  /\ Cur(t).call \in bytecode /\ ~Cur(t).compiling
  /\ Becomes(t, Enter(Cur(t), Cur(t).call))
  /\ UNCHANGED <<pool, made, bytecode, compiles>>

(* Mutant: the pointer is not looked at. *)
CompileAlways(t) ==
  /\ Cur(t).call \in Functions /\ ~Cur(t).compiling
  /\ Becomes(t, [Cur(t) EXCEPT !.compiling = TRUE])
  /\ UNCHANGED <<pool, made, bytecode, compiles>>

(* ... it is null: the function is compiled, without a lock. *)
Compile(t) ==
  /\ Cur(t).call \in Functions \ bytecode /\ ~Cur(t).compiling
  /\ Becomes(t, [Cur(t) EXCEPT !.compiling = TRUE])
  /\ UNCHANGED <<pool, made, bytecode, compiles>>

(* A constant that is met is compiled and run on the spot, in a VMThread of its *)
(* own; its bytecode is not published.                                          *)
Evaluate(t) ==
  /\ Cur(t).compiling
  /\ \E c \in Consts[Cur(t).call] :
       Nest(t, work[t], Enter(Fresh(None), c))
  /\ UNCHANGED <<bytecode, compiles>>

(* The finished code is published, over another thread's if that was faster;    *)
(* then the loop looks again.                                                   *)
Publish(t) ==
  /\ Cur(t).compiling
  /\ bytecode' = bytecode \cup {Cur(t).call}
  /\ compiles' = IF Cur(t).call \in Raw THEN compiles ELSE [compiles EXCEPT ![Cur(t).call] = @ + 1]
  /\ Becomes(t, [Cur(t) EXCEPT !.compiling = FALSE])
  /\ UNCHANGED <<pool, made>>

--------------------------------------------------------------------------------
(* Instructions of the running activation. *)

Executes(t) == Cur(t).call = None /\ Cur(t).frames # <<>> /\ Top(Cur(t)).left = Running

CallFn(t) ==
  /\ Executes(t) /\ Len(Cur(t).frames) < MaxFrames
  /\ \E g \in Calls[Top(Cur(t)).func] : Becomes(t, [Cur(t) EXCEPT !.call = g])
  /\ UNCHANGED <<pool, made, bytecode, compiles>>

(* The running activation does not hold n any more. *)
Dropped(v, n) ==
  [v EXCEPT !.flags = ClearFlag(v, n), !.frames = Holding(v, Top(v).holds \ {n})]

(* local_init asserts that the flag is clear, local_move that it is set, and     *)
(* every access is bounds-checked: the process ends where one of these fails.   *)
LocalInit(t) ==
  LET v == Cur(t)
      fr == Top(v)
  IN  /\ Executes(t)
      /\ \E n \in Uses[fr.func] \ fr.holds :
           /\ InBounds(v, fr, n) /\ ~IsSet(v, fr, n)
           /\ Becomes(t, [v EXCEPT !.flags = SetFlag(v, n),
                                   !.frames = Holding(v, fr.holds \cup {n})])
      /\ UNCHANGED <<pool, made, bytecode, compiles>>

LocalMove(t) ==
  LET v == Cur(t)
      fr == Top(v)
  IN  /\ Executes(t)
      /\ \E n \in fr.holds :
           /\ InBounds(v, fr, n) /\ IsSet(v, fr, n)
           /\ Becomes(t, Dropped(v, n))
      /\ UNCHANGED <<pool, made, bytecode, compiles>>

RunGlue(t, v) ==
  Nest(t, With(t, v), Fresh(Glue[Top(v).func]))

(* The value is gone before its glue starts. *)
LocalDrop(t) ==
  LET v == Cur(t)
  IN  /\ Executes(t)
      /\ \E n \in Uses[Top(v).func] :
           InBounds(v, Top(v), n) /\ IsSet(v, Top(v), n) /\ RunGlue(t, Dropped(v, n))
      /\ UNCHANGED <<bytecode, compiles>>

(* The old value is dropped, or the flag is set: either way a new value follows. *)
LocalDropInit(t) ==
  LET v == Cur(t)
      fr == Top(v)
  IN  /\ Executes(t)
      /\ \E n \in Uses[fr.func] :
           /\ InBounds(v, fr, n)
           /\ \/ IsSet(v, fr, n) /\ RunGlue(t, v)
              \/ /\ ~IsSet(v, fr, n)
                 /\ Becomes(t, [v EXCEPT !.flags = SetFlag(v, n),
                                         !.frames = Holding(v, fr.holds \cup {n})])
                 /\ UNCHANGED <<pool, made>>
      /\ UNCHANGED <<bytecode, compiles>>

--------------------------------------------------------------------------------
(* The end of an activation. *)

Return(t) ==
  /\ Executes(t)
  /\ Becomes(t, [Cur(t) EXCEPT !.frames[Len(Cur(t).frames)].left = Drops[Top(Cur(t)).func]])
  /\ UNCHANGED <<pool, made, bytecode, compiles>>

Returns(t) == Cur(t).call = None /\ Cur(t).frames # <<>> /\ Top(Cur(t)).left # Running

(* The loop over all drop bits, the last one first, up to the next one that is  *)
(* set: local_drop does nothing for the others.                                 *)
Due(v) == {n \in 0 .. Top(v).left - 1 : InBounds(v, Top(v), n) /\ IsSet(v, Top(v), n)}

DropRest(t) ==
  LET v == Cur(t)
  IN  /\ Returns(t)
      /\ \E n \in Due(v) :
           /\ \A k \in Due(v) : k <= n
           /\ RunGlue(t, [Dropped(v, n) EXCEPT !.frames[Len(v.frames)].left = n])
      /\ UNCHANGED <<bytecode, compiles>>

(* drop_flags is cut back to the caller's. *)
Finish(t) ==
  /\ Returns(t) /\ Due(Cur(t)) = {}
  /\ Becomes(t, Leave(Cur(t)))
  /\ UNCHANGED <<pool, made, bytecode, compiles>>

(* Drop for VMThread: the result has been copied, the stack goes to the pool.   *)
End(t) ==
  /\ Cur(t).call = None /\ Cur(t).frames = <<>>
  /\ work' = [work EXCEPT ![t] = SubSeq(@, 1, Len(@) - 1)]
  /\ pool' = Append(pool, Cur(t).stack)
  /\ UNCHANGED <<made, bytecode, compiles>>

Next ==
  \E t \in Threads :
    \/ Start(t)
    \/ Live(t) /\ \/ Fetch(t) \/ Compile(t) \/ Evaluate(t) \/ Publish(t)
                  \/ CallFn(t) \/ LocalInit(t) \/ LocalMove(t) \/ LocalDrop(t)
                  \/ LocalDropInit(t) \/ Return(t) \/ DropRest(t) \/ Finish(t) \/ End(t)

Spec == Init /\ [][Next]_vars

--------------------------------------------------------------------------------
(* Every variable keeps its type, and every activation drops only bits it has.  *)
TypeOK ==
  /\ work \in [Threads -> Seq(VMThread)]
  /\ pool \in Seq(made) /\ made \subseteq Stacks
  /\ bytecode \subseteq Functions /\ compiles \in [Functions -> Nat]

(* A flag is set exactly while its own activation holds the local, for every    *)
(* activation of every VMThread that is open, however deep the calls and drops  *)
(* are nested; so the assertions of local_init and local_move never fail.       *)
FlagsAreFrames ==
  \A t \in Threads : \A i \in 1 .. Len(work[t]) : \A j \in 1 .. Len(work[t][i].frames) :
    \A n \in 0 .. Drops[work[t][i].frames[j].func] - 1 :
      /\ InBounds(work[t][i], work[t][i].frames[j], n)
      /\ IsSet(work[t][i], work[t][i].frames[j], n) <=> n \in work[t][i].frames[j].holds

(* A stack is used by one VMThread or waits in the pool, once; none is lost.    *)
Owners(s) ==
  UNION {{<<t, i>> : i \in {k \in 1 .. Len(work[t]) : work[t][k].stack = s}} : t \in Threads}
Pooled(s) == {i \in 1 .. Len(pool) : pool[i] = s}
StacksExclusive ==
  /\ \A s \in made : Cardinality(Owners(s)) + Cardinality(Pooled(s)) = 1

(* A race to compile a function is lost at most once by each other thread: what *)
(* has been published is never compiled again.                                  *)
CompiledOncePerThread == \A f \in Functions : compiles[f] <= Cardinality(Threads)
================================================================================
