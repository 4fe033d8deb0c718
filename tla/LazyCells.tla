------------------------------- MODULE LazyCells --------------------------------
(* What the interpreter computes on demand and keeps: constants, statics,       *)
(* discriminants, vtables, drop glue, layouts, the IR of items, the fields of   *)
(* ADTs, and the entries of a crate cache's lazy tables.  Each such value is a  *)
(* cell.  Computing one needs others, mostly with a lock held: the Mutex of an  *)
(* item's `ir` or `mono_values`, of the VM's vtables, or a OnceLock inside its  *)
(* initialiser.  Two kinds of threads ask: the interpreter, and the workers of  *)
(* RustcWorker, which build the IR of their crate's items for it.               *)
(*                                                                              *)
(* What a value is, and which of the cells it might use it does use, is left    *)
(* open.  What each kind of cell can ask for comes from the code.  That cells   *)
(* of one kind do not use each other in a circle is assumed by a rank: rustc    *)
(* has rejected constants, layouts and discriminants that depend on themselves. *)
(* It accepts three kinds of circles all the same, see `Circular`.              *)
EXTENDS Integers, Sequences, FiniteSets

CONSTANTS
  Interpreter, Workers,  \* the threads
  Cells,
  Family,    \* what each cell is
  Lock,      \* the lock it is computed under: constants of one item share theirs
  Rank,      \* of the locks: a value is made of values of lower rank
  Server,    \* the worker that builds an IR, or None (a cached crate, no IR)
  None,
  Cycles     \* families that may use their own: {"const", "static", "drop"} in the code

Threads == Workers \cup {Interpreter}
Families ==
  {"const", "static", "disc", "vtable", "drop", "layout", "ir", "adt", "type", "item"}

(* Entries of the tables: "item" is read without any other cell; "type" stands  *)
(* for those that hold types, the tables of types and of impls.                 *)
Entries == {"type", "item"}

(* What a worker asks for, at start-up and in build_ir. *)
WorkerUses == {"adt"} \cup Entries

(* Mutant: reading an item at once reads the types it mentions. *)
UsesOfEager(family) ==
  CASE family \in {"type", "item"} -> Entries
    [] OTHER -> Families

(* What the computation of each kind may ask for.  Evaluation compiles and runs *)
(* any code, Type::sub may look for the IR behind an opaque type.               *)
UsesOf(family) ==
  CASE family \in {"const", "static", "disc"} -> Families
    [] family = "vtable" -> {"layout", "ir"} \cup WorkerUses
    [] family = "drop"   -> {"drop", "disc", "layout", "ir"} \cup WorkerUses
    [] family = "layout" -> {"layout", "ir"} \cup WorkerUses
    [] family = "ir"     -> WorkerUses
    [] family = "adt"    -> Entries
    [] family = "type"   -> Entries
    [] family = "item"   -> {}

ASSUME CellsAssumption ==
  /\ Interpreter \notin Workers /\ None \notin Threads \cup Cells
  /\ Family \in [Cells -> Families]
  /\ \A c, d \in Cells : Lock[c] = Lock[d] => Family[c] = Family[d]
  /\ Rank \in [{Lock[c] : c \in Cells} -> Nat]
  /\ Server \in [Cells -> Workers \cup {None}]
  /\ \A c \in Cells : Server[c] # None => Family[c] = "ir"
  /\ Cycles \subseteq {"const", "static", "drop"}

(* A Mutex is taken to read a value, too; a OnceLock only to set it; adt_info   *)
(* computes without a lock, and the first result is kept.                       *)
Mutexed(c) == Family[c] \in {"const", "vtable", "ir"}
Unlocked(c) == Family[c] = "adt"

(* The circles rustc accepts: a constant of a trait that uses the same constant *)
(* of another type, statics that hold each other's address, and types that own  *)
(* themselves through a Box.                                                    *)
Circular(c, d) ==
  /\ Family[c] \in Cycles /\ Family[d] = Family[c]
  /\ Family[c] = "const" => c # d /\ Lock[c] = Lock[d]

(* Kinds that use each other, or their own. *)
Values == {"const", "static", "disc", "drop"}
Related(c, d) ==
  \E K \in {Values, {"layout"}, {"type"}} : Family[c] \in K /\ Family[d] \in K

MayUse(c, d) ==
  /\ Family[d] \in UsesOf(Family[c])
  /\ Related(c, d) => Rank[Lock[d]] < Rank[Lock[c]] \/ Circular(c, d)

--------------------------------------------------------------------------------
VARIABLES
  value,    \* the thread that computed each cell, or None
  stack,    \* the cells each thread is computing, the innermost first
  want,     \* the cell each thread asks for, or None
  serving,  \* the IR each worker builds for the interpreter, or None
  given     \* history: for each cell, whose results callers have been given

vars == <<value, stack, want, serving, given>>

Init ==
  /\ value = [c \in Cells |-> None]
  /\ stack = [t \in Threads |-> <<>>]
  /\ want = [t \in Threads |-> None]
  /\ serving = [w \in Workers |-> None]
  /\ given = [c \in Cells |-> {}]

Computing(t) == {stack[t][i] : i \in DOMAIN stack[t]}
Held(t) == {Lock[c] : c \in {d \in Computing(t) : ~Unlocked(d)}}
Free(c) == \A t \in Threads : Lock[c] \notin Held(t)

(* The IR that a thread waits for its worker to build. *)
Delegated(t) == stack[t] # <<>> /\ Server[Head(stack[t])] # None

(* A thread asks for a cell: the innermost computation for one it uses, and     *)
(* outside of any, the interpreter for any and a worker for what it reads.      *)
MayAsk(t, c) ==
  IF stack[t] # <<>> THEN ~Delegated(t) /\ MayUse(Head(stack[t]), c)
  ELSE t = Interpreter \/ Family[c] \in WorkerUses

Ask(t) ==
  /\ want[t] = None
  /\ \E c \in Cells : MayAsk(t, c) /\ want' = [want EXCEPT ![t] = c]
  /\ UNCHANGED <<value, stack, serving, given>>

Give(c, result) == given' = [given EXCEPT ![c] = @ \cup {result}]

(* The value is there. *)
Read(t) ==
  LET c == want[t]
  IN  /\ c # None /\ value[c] # None
      /\ Mutexed(c) => Free(c)
      /\ want' = [want EXCEPT ![t] = None]
      /\ Give(c, value[c])
      /\ UNCHANGED <<value, stack, serving>>

(* Mutant: a check and then an initialisation, with no lock between them. *)
BeginUnlocked(t) ==
  LET c == want[t]
  IN  /\ c # None /\ value[c] = None
      /\ stack' = [stack EXCEPT ![t] = <<c>> \o @]
      /\ want' = [want EXCEPT ![t] = None]
      /\ UNCHANGED <<value, serving, given>>

(* It is not: compute it, under its lock. *)
Begin(t) ==
  LET c == want[t]
  IN  /\ c # None /\ value[c] = None
      /\ Unlocked(c) \/ Free(c)
      /\ stack' = [stack EXCEPT ![t] = <<c>> \o @]
      /\ want' = [want EXCEPT ![t] = None]
      /\ UNCHANGED <<value, serving, given>>

(* Mutant: adt_info returns what it has built itself. *)
StoreOwn(c, t) ==
  /\ value' = [value EXCEPT ![c] = IF @ = None THEN t ELSE @]
  /\ Give(c, t)

(* Mutant: the later result replaces the earlier one. *)
StoreLast(c, t) ==
  /\ value' = [value EXCEPT ![c] = t]
  /\ Give(c, t)

(* Mutant: adt_info reads the cell before it is set. *)
StoreAfterRead(c, t) ==
  /\ value' = [value EXCEPT ![c] = IF @ = None THEN t ELSE @]
  /\ Give(c, value[c])

(* The first result is kept, and given to every caller. *)
Store(c, t) ==
  /\ value' = [value EXCEPT ![c] = IF @ = None THEN t ELSE @]
  /\ Give(c, value'[c])

Finish(t) ==
  /\ stack[t] # <<>> /\ want[t] = None /\ ~Delegated(t)
  /\ Store(Head(stack[t]), t)
  /\ stack' = [stack EXCEPT ![t] = Tail(@)]
  /\ UNCHANGED <<want, serving>>

(* A worker takes the command to build an IR, and answers it. *)
Serve(w) ==
  /\ serving[w] = None /\ stack[w] = <<>> /\ want[w] = None
  /\ \E t \in Threads : /\ Delegated(t) /\ Server[Head(stack[t])] = w
                        /\ serving' = [serving EXCEPT ![w] = Head(stack[t])]
  /\ UNCHANGED <<value, stack, want, given>>

(* Mutant: the worker goes on without an answer. *)
ReplyNothing(w) ==
  /\ serving[w] # None /\ stack[w] = <<>> /\ want[w] = None
  /\ serving' = [serving EXCEPT ![w] = None]
  /\ UNCHANGED <<value, stack, want, given>>

Reply(w) ==
  /\ serving[w] # None /\ stack[w] = <<>> /\ want[w] = None
  /\ \E t \in Threads :
       /\ stack[t] # <<>> /\ Head(stack[t]) = serving[w]
       /\ stack' = [stack EXCEPT ![t] = Tail(@)]
  /\ Store(serving[w], w)
  /\ serving' = [serving EXCEPT ![w] = None]
  /\ UNCHANGED want

Next ==
  \/ \E t \in Threads : Ask(t) \/ Read(t) \/ Begin(t) \/ Finish(t)
  \/ \E w \in Workers : Serve(w) \/ Reply(w)

Safe == Init /\ [][Next]_vars

(* Threads run, and a computation asks for finitely many cells (it ends in      *)
(* rustc, or evaluates what rustc has evaluated), hence strong fairness of its  *)
(* end, and of a worker coming back to its channel.                             *)
Spec ==
  /\ Safe
  /\ \A t \in Threads : WF_vars(Read(t)) /\ WF_vars(Begin(t)) /\ SF_vars(Finish(t))
  /\ \A w \in Workers : SF_vars(Serve(w)) /\ SF_vars(Reply(w))

--------------------------------------------------------------------------------
(* Properties. *)

TypeOK ==
  /\ value \in [Cells -> Threads \cup {None}]
  /\ stack \in [Threads -> Seq(Cells)]
  /\ want \in [Threads -> Cells \cup {None}]
  /\ serving \in [Workers -> Cells \cup {None}]
  /\ given \in [Cells -> SUBSET Threads]

(* The threads that must move before t can: those that hold the lock it wants,  *)
(* itself included, or the worker that builds its IR.                           *)
Blocked(t) ==
  want[t] # None /\ ~Unlocked(want[t]) /\ (Mutexed(want[t]) \/ value[want[t]] = None)
WaitsFor(t) ==
  {u \in Threads : \/ Blocked(t) /\ Lock[want[t]] \in Held(u)
                   \/ want[t] = None /\ Delegated(t) /\ Server[Head(stack[t])] = u}

(* No set of threads, nor one alone, waits in a circle through the locks of     *)
(* items.rs, drop.rs, vm.rs and the lazy tables, and the workers' channels.     *)
NoCircularWait ==
  \A T \in (SUBSET Threads) \ {{}} : \E t \in T : WaitsFor(t) \cap T = {}

(* All callers are given one value, also of an AdtInfo that several threads     *)
(* built at the same time.                                                      *)
AnswersAgree == \A c \in Cells : \A v \in given[c] : v = value[c]

(* Except for the fields of ADTs, nothing is computed twice: const_value and    *)
(* static_value allocate, and an address that has been given out is the address.*)
ComputedOnce ==
  \A t, u \in Threads : \A i \in 1 .. Len(stack[t]), j \in 1 .. Len(stack[u]) :
    ~Unlocked(stack[t][i]) =>
      /\ value[stack[t][i]] = None
      /\ stack[t][i] = stack[u][j] => t = u /\ i = j

(* The cells implement Memo. *)
Promise == INSTANCE Memo
MemoSpec == Promise!Spec

(* A request ends. *)
RequestsEnd ==
  \A t \in Threads : want[t] # None ~> want[t] = None /\ stack[t] = <<>>

(* "Constants ... are evaluated greedily when encountered in IR and converted   *)
(* directly to values" (items.rs, ItemKind::Constant): the thread that          *)
(* encounters one never has its `mono_values` locked already.                   *)
EvaluatedWhenEncountered ==
  \A t \in Threads : want[t] # None /\ Family[want[t]] = "const" => Lock[want[t]] \notin Held(t)
================================================================================
