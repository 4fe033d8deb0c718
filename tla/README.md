# A TLA+ model of Skitter

Skitter interprets Rust: rustc is its front end, its own compiler turns rustc's
THIR into a register bytecode, and a VM executes it. This directory holds TLA+
modules that model the parts of it with state and control worth checking, TLC
configurations that check them on small instances, and proofs for TLAPS.

Source paths below are relative to the repository's `src/` (`vm/vm.rs` is
`src/vm/vm.rs`).

## 1. The system

| Component | State | Operations | Talks to |
|---|---|---|---|
| Process (`main.rs`, `cli.rs`) | the list of crates to load | register core, alloc and the program, find `main`, run it; `--save`; a panic handler that exits | VM |
| VM (`vm/vm.rs`) | `crates: RwLock<Vec<provider>>`, `stack_pool`, vtables, the bytecode pointer of every `Function` | `add_provider_auto`, `crate_provider`, `make_thread`, `Function::bytecode`, `find_vtable` | providers, items, compiler |
| Crate providers (`crate_provider.rs`) | none; a trait | `item_by_id`, `item_by_path`, `build_ir`, `build_adt`, `trait_impl`, `inherent_impl` | VM |
| rustc workers (`rustc_worker.rs`) | a thread per crate, an mpsc channel, `items: OnceLock`, per call a `WorkerResult` with a two-party barrier | `call`, `items`, `RustCContext::new`, the command loop, `save` | VM thread, other workers |
| Crate cache (`cache_provider.rs`, `persist*.rs`, `lazy_collections.rs`) | a file per crate; lazy arrays and hash tables over its bytes | save, validate, read, get | VM, items |
| Items (`items.rs`, `variants.rs`) | per item: `ir`, `mono_values`, `adt_info`, `static_value`, children | lazy getters that ask the provider or run the VM | providers, VM |
| Impl tables (`impls.rs`) | per crate: impls by trait and by key | search by types, matching of parameters, checking of bounds | items, providers, types |
| Types (`types/`) | interning tables, per type layout and drop info | intern, substitute, layout, drop glue | items |
| Bytecode compiler (`bytecode_compiler.rs`, `bytecode_select.rs`, `builtins.rs`) | `out_bc`, `CompilerStack`, locals, loops | one lowering per IR node | items, types |
| Interpreter (`vm/vm.rs`, `vm/instr.rs`, `build.rs`) | pc, stack, `drop_flags` of the thread | one action per instruction | drop glue |
| JIT (`simple_jit.rs`) | machine code under construction | one translation per instruction | compiler, VM |
| Closures, profiler, test runner, printers | | | |

What is hard in it:

* **Drop flags.** Whether a local is dropped at a scope's end is decided at run
  time by one bit per droppable leaf. Bits are assigned by the compiler's stack
  allocator, switched by `LocalInit`/`LocalMove`/`LocalDrop`/`LocalDropInit`, and
  whatever is left is dropped at `Return`. Slots are reused as soon as a scope is
  popped, so a wrong range or a jump past a `LocalDrop` turns into a drop of an
  unrelated value much later. All activations of a thread keep their bits in one
  vector of bytes, and a drop in the middle of one runs code of its own.
* **Code without types.** Bytecode addresses bytes of the stack. A slot that is
  too low, a jump that is off by one or an instruction of the wrong width is
  right for most programs. Patterns patch their jumps after the fact.
* **Threads.** Each uncached crate has a worker thread that asks *other* crates
  while it starts up, and while it answers. A worker is started while the list
  of crates is still locked for writing.
* **Laziness under locks.** Items, tables and bytecode are initialised on first
  use, by whichever thread comes first, sometimes with a lock held while another
  provider, or the interpreter itself, is entered.
* **Searches.** Which impl applies depends on keys, on the crates that are
  visited and on bounds that are themselves searches.
* **Files.** A cache is trusted if its header matches; it is written in place.

The properties wanted of each component, in one line each:

* compiler stack: live slots never overlap; a drop bit is covered by exactly one
  `LocalDrop`, when its local is freed;
* drop scopes, glue and flags: every value with a destructor is dropped or given
  away exactly once, in Rust's order, and in time; no assertion fires;
* lowering, selection, interpreter, JIT: a program does what Rust says it does;
* workers: a request is answered, once, by the right crate with its own answer;
  nobody waits in a circle; no table is seen half-filled;
* items: each value is computed once and the same for all threads; no lock is
  held by a thread that waits for itself;
* impl tables: a search finds the impl that Rust selects;
* cache: what is read is what was saved, for the files on disk; a table finds
  its keys.

## 2. Modules

| Module | Models |
|---|---|
| `CompilerStack` | operators: the `CompilerStack` of the bytecode compiler |
| `StackDiscipline` | that stack under any well-nested sequence of its operations |
| `Ownership` | abstract: every value is dropped or given away exactly once |
| `DropScopes` | compilation of bodies to bytecode and its execution, as far as it concerns drops; implements `Ownership` |
| `Types`, `IR` | types and their layout; the forms of the IR |
| `Instructions` | what each bytecode instruction does to memory |
| `Selection` | `bytecode_select.rs`: the instruction for an operator on a type |
| `Emission`, `Intrinsics`, `Lowering` | the bytecode compiler for expressions, places, patterns, calls and intrinsics |
| `RustSemantics` | reference: what Rust says the same IR means |
| `SimpleJit` | the machine code for each instruction |
| `Interpreter` | the loop of `run_bytecode`: any bytecode running, compared with the JIT |
| `Execution` | what `Lowering` compiled running in it, compared with the reference |
| `DropGlue` | the glue that `types/drop.rs` builds, running, with Rust's drop order as reference |
| `Runtime` | activations and VMThreads that share drop flags, stacks and bytecode pointers |
| `CrateProvider` | abstract: requests answered correctly by complete tables |
| `RustcWorker` | registration, worker threads, channels, barriers; implements `CrateProvider` |
| `Memo` | abstract: a value is computed once and is the same for every caller |
| `LazyCells` | what is computed on demand, under which locks, by which threads; implements `Memo` |
| `LazyTable` | the perfect hash of a cache: its construction and its lookup |
| `TraitFacts` | types as the search sees them; reference: what a program's impls derive |
| `ImplLookup` | the search for an impl; extends both |
| `CrateCache` | cache files, the processes that save and load them, edits and crashes |

`*Proofs` modules hold the theorems of the module they are named after;
`BytecodeProofs` holds those about `StackDiscipline`, `Instructions`, `SimpleJit` and
`Interpreter`, and `DropOutlines` is the first half of `DropScopesProofs`. `MC*`
modules only give values to the constants. Operators whose comment starts with
"Mutant" are wrong variants of the definition below them: each property is known
to fail when the definition is replaced by its variant.

The compiler appears twice, with different data. `DropScopes` looks at slots,
jumps and bits and knows nothing about the values: it takes *every* body of a
bounded size. `Lowering` knows every form and every byte but no destructors: it
takes a list of programs and all boundary inputs. `Runtime` in turn lets an
activation do anything compiled code may do, and looks at how the bits are kept;
`DropGlue` is what `DropScopes` and `Runtime` take for one step.

### 2.1 CompilerStack and StackDiscipline

State: the record `stk` has the fields of the Rust struct (`top`, `entries`,
`drop_leafs`, `first_drop`) and two histories (the bits an entry registered, the
bits already covered by a `LocalDrop`); `scopes` holds the `StackScope`s that
were pushed and not yet popped. Actions are the methods: `Push`, `Pop`,
`AllocLocal`, `AllocScratch`, `AlignForCall`. Lowering is recursive over the IR,
so its use of the stack is some well-nested sequence of them, and the module
allows every such sequence. The widths of `u32` are not modelled: a stack is one
MiB and offsets stay far below 2^32.

### 2.2 DropScopes

In phase "compile" an action lowers one statement form, chosen freely, so
the reachable states contain *every* body of at most `MaxStmts` statements that
the borrow checker accepts; in phase "run" an action executes one instruction.
The borrow checker is external: `flow` carries the sets of bits initialised on
every path and on some path, which is what decides acceptance.

A value is an id and a slot has size one; a local is one value or a pair of
them. Drop glue runs on a thread of its own and returns, so a drop is one step.
Branch conditions are free at run time except for the constant test of a
wildcard arm. `Families` says which statement forms and widths occur together.

Four statement forms are lowered wrongly by the code (section 4). They are part
of the model, switched on by the constant `Hazards`; the passing runs leave them
out to show that everything else is right. A guarded arm is among the forms that
every run has: its variable is bound before the guard, so that from the guard on
`flow` lets its flag be set although the source no longer owns the value there.

### 2.3 Lowering, Interpreter and Execution

`Emission`'s compiler record has the fields of `BytecodeCompiler`; an operator
of `Lowering` is one arm of `lower_expr`, `expr_to_place` or
`match_pattern_internal` and returns the compiler after it. `Interpreter` starts
with any bytecode and memory that it is given (the constants `Programs` and
`RunsOf`), and its one action `Step` executes one instruction, `Enter`, `Leave` and
`Finish` being `Call`, `Return` and the end; an access outside the memory is a
segmentation fault. `Execution` gives it the bytecode of a program, one input and a
fill of the memory. A byte has `ByteBits` bits, so that boundary values
of every width can be enumerated: with two bits an `i32` has eight and wraps at
127. All widths of the code are byte counts and stay as they are.

`RustSemantics` evaluates the IR by structural recursion over values and places,
with none of the compiler's notions; `Represent` and `Represented` relate its
values to bytes. `MachineOK` is the interpreter's own invariant: where the program
counters are, how frames lie, what memory holds. `JitAgrees` compares, in every reachable state of a function the
JIT would accept, what the machine code for the next instruction does with what
the interpreter does.

### 2.4 DropGlue

`Glue(ty)` is the bytecode of `DropInfo`'s function for a type, made as
`GlueBuilder` makes it, and the actions execute it. A user's `Drop::drop` is
external: it writes over its frame, may store another variant into its own
value, and that of `Box` writes over what it frees. `log` is the sequence of impls
that ran with the address of their value; the reference computes the sequence
that Rust prescribes.

### 2.5 Runtime

A thread of the process runs a stack of VMThreads: `RunGlue` (a drop), `Evaluate`
(a constant met while compiling) and `Start` make one, `End` returns its stack to
the pool. A VMThread has a stack of activations (`CallFn`, `Return`, `Finish`)
whose bits lie in `flags`, a sequence of bytes. `Fetch`, `Compile` and `Publish` are
`Function::bytecode`: load the pointer, compile, store it. `LocalInit`,
`LocalMove`, `LocalDrop`, `LocalDropInit` and `DropRest` are the instructions on bits;
`DropRest` is one turn of the loop at `Return`, interrupted by glue. `holds` is what
an activation really owns; the compiled code is assumed to know that, which is
what `DropScopes` shows.

### 2.6 RustcWorker

Threads are the VM thread and one worker per crate. A request goes through the
program counters of `VM::crate_provider` (waits while `crates` is locked),
`RustCWorker::items` (one initialiser, the others wait for the `OnceLock`),
`call` (push to the channel), `WorkerResult::wait` (barrier, then take). A worker
goes "new" (in `RustCContext::new`, where it fills its ADTs and asks extern
crates), "recv", "exec", "wait" (at the barrier).

Assumed: rustc itself ends, and a crate names only items of crates registered
before it. The latter is what rules out circular waiting: a worker whose command
asked its own crate would wait for itself.

### 2.7 LazyCells

A cell is a value computed on first use. Its family says where it lives and
which lock is held while it is computed:

| Family | In the code | Lock |
|---|---|---|
| const | `Item::const_value` | the item's Mutex `mono_values`; all constants of an item share it |
| static | `Item::static_value` | the item's OnceLock |
| disc | `AdtInfo::variant_discriminants` | OnceLock |
| vtable | `VM::find_vtable` | the Mutex `map_vtables` |
| drop, layout | `Type::drop_info`, `Type::layout` | OnceLock |
| ir | `Item::ir`, the lookup of an item's own code | the item's Mutex `ir` |
| adt | `Item::adt_info` | none: it is built, and the first one set is kept |
| type, item | entries of a cache's lazy tables | OnceLock |

`Ask` starts a request, `Read` ends it with a value that is there, `Begin` starts
the computation, `Finish` stores its result. `stack` holds the computations of a
thread, since each may ask for more. `UsesOf` says, per family, what the code of
the computation can ask for. An IR of an uncached crate is built by a worker
(`Serve`, `Reply`), during which the asking thread waits with the `ir` Mutex held.

Two assumptions come from rustc. Cells of related families do not depend on
themselves (`Rank`), because rustc rejects such constants and layouts. It does
accept three kinds of circles, and `Cycles` names which of them a run allows:
a constant of a trait that uses the same constant of another type, statics that
hold each other's address, and the drop glue of a type that owns itself through
a `Box`. Each of them re-enters a lock its own thread holds.

Left out are locks under which nothing else is asked for (`TypeContext::table`,
`mono_instances`, closures, `map_paths`), and the branches of `Item::ir` for
constructors and virtual calls, which take no lock.

### 2.8 LazyTable and ImplLookup

`Write` takes the buckets of `LazyTable::write` one at a time, largest first, and
tries one seed after the other; `Get` is `LazyTable::get`. The hash function is a
constant, any function from seeds and keys to a small range. The run takes ten of
them and two orders of the keys: every list of bucket sizes that four keys can have is
among them. `TableFindsItsKeys` proves the rest.

`ImplLookup` extends it: one crate is cached and finds its impls by such a table,
while the others keep theirs in maps. `FindTraitImpl` is `Item::find_trait_impl`
(with the builtin traits, the crates in turn and `dyn Trait`), `Candidates` is
`ImplTable::find_trait`, `MatchTypes` and `CheckBounds` are `ImplBounds`, `FindInherent`
and `InherentOfCrates` the search for inherent members, `ResolveAssociatedTy` and
`ResolveFunction` what callers make of the result. A type is its structure:
interning makes two types the same object exactly if they are equal.

The reference, `TraitFacts!Facts`, is the least set of facts of the form "these
types implement this trait through this impl" that is closed under the impls of
all crates. It substitutes first and looks bounds up afterwards, where the code
matches patterns and binds parameters on the way.

### 2.9 CrateCache

A file is two parts, the head with the versions of the source files and the tail
with the contents. A process reads the head and the rest, validates and uses the
cache, or starts a worker that parses the source when it comes to it; with
`--save` it looks at the files again once all IR is made, truncates the file and
writes both parts. `End` kills a process at any moment, `Edit` changes a source.
`disturbed` is a history of the three cases in which a wrong file is left or
loaded, and the property speaks of all the others.

Assumed: two edits never leave the same size and time; one version stands for
all files of a crate; files are read and written in two parts; the path of a
cache identifies that of the source (it is a hash of it, and the header's first
file is compared); all processes are one build of Skitter.

## 3. Runs

| Run | Bounds | Distinct states | Shows |
|---|---|---|---|
| `stack_discipline` | two layouts (a plain byte; a padded pair with two leaves), 4 bits, 3 live entries, 3 scopes | 590 093 | the invariants of the stack |
| `drop_bodies` | all bodies of 4 statements, 3 values: plain locals through branches, matches, early returns and value breaks; pairs moved and assigned field by field under conditions | 3 300 008 | no panic, bits own distinct values, refinement of `Ownership` |
| `drop_loops` | all bodies of 5 statements, 3 values: nested loops with break and continue to each of them | 3 090 915 | the same, and that a scope's values are gone when it is left |
| `drop_glue` | every kind of type, each variant, boxed slices of up to 2, nested arrays, two fills of memory | 1 588 | glue runs the impls that Rust runs, in that order, and all of them |
| `runtime` | 2 threads, 5 functions, the longest with 9 bits (two bytes), 2 activations, 3 nested VMThreads, 5 stacks | 97 211 | flags are those of their activation, stacks have one owner, a race compiles once per thread |
| `lowering` | operators on the boundary values of every width, casts, intrinsics with boundary operands, and programs for each form of place, pattern, branch, loop and call; two fills of memory | 18 642 | what runs is what Rust says, jitted or interpreted, and it ends |
| `rustc_worker` | 3 crates, 2 ADTs each, 1 item, 3 requests of the VM thread, 2 nested | 102 391 | safety, refinement and liveness of the workers |
| `lazy_cells` | 2 constants that share a lock, an IR, an ADT, a type and an item; the interpreter and one worker; no circles | 34 792 | no circular wait, one value for all, no second computation, every request ends, refinement of `Memo` |
| `impl_lookup` | 3 crates, 24 impls, about 450 questions, 4 cached keys, ten hash functions and two orders | 6 738 | the table finds its keys, and each answer is Rust's |
| `crate_cache` | 2 processes that restart at will, one user crate with two edits, core and alloc | 1 170 507 | what runs is as recent as the process |
| `drop_break`, `or_pattern` | the least programs that show it | | section 4 |

Why these bounds: three scopes are needed for a scope that is neither innermost
nor outermost; a stack bug needs an allocation before, in and after a scope,
which is three entries. Bytes of two bits have all the sign, carry and truncation
cases at each width, and both fills of memory tell a byte that is never written
from one that is; the proofs hold for bytes of any width and any memory. A drop bug needs a value, a jump or branch around its
drop, and a later allocation that reuses its slot: four or five statements. Nine
bits spill into a second byte whose other seven are unused, which is where the
next activation could be misplaced; three nested VMThreads are a drop within a
drop, or in a constant's evaluation. Three crates give a worker that is asked and
asks at the same time, and the VM thread as a third party at both. Six cells
have one of each way of being locked: a shared Mutex, a Mutex held across a
worker's answer, no lock, a OnceLock whose initialiser asks further, and one whose
initialiser does not. Four keys have buckets of one, two and three, and one
bucket can take the slot another needs. Two processes that restart are as many
as a file can tell apart: one that writes and one that writes or reads, each
leaving a file behind for the next; two edits give a version before, during and
after a save.

Fairness: `RustcWorker!Spec` has weak fairness of each thread's own steps in a
request or a command: the operating system schedules every thread, a channel and a
barrier wake whoever is ready. Nothing is assumed about a thread *starting* a
request, about panics or about the process finishing. `LazyCells!Spec` has weak
fairness of `Read` and `Begin`, and strong fairness of `Finish`, `Serve` and
`Reply`: a computation goes in and out of waiting for others, but asks finitely
often, since it ends in rustc or evaluates code that rustc has evaluated. For
`Serve` and `Reply` that is the worker returning to its channel. The other modules
are safety only; that compiled programs and glue end is the invariants `Halts` and
`EverythingDropped`, since they are deterministic and must end within a bound.
Deadlock checking is off where a run may end (a returned function, an answered
question, an exited process) and on for `stack_discipline`, `lazy_cells`, `runtime`
and `crate_cache`.

## 4. What was found

Two runs show that the code does not do what the repository says:

* `drop_break`: `break` jumps over the `LocalDrop`s of the scopes it leaves while
  their slots are handed out again; a value is dropped at the function's return
  only, and if the slot was reused, another value is dropped twice.
* `or_pattern`: for `2 | _` the result slot is written for the first alternative
  and the pattern is then reported irrefutable, where the comment promises that
  an irrefutable pattern leaves the slot alone.

Setting the constants `Hazards`, `Forward` and `Cycles` to other values makes the
same modules show these (no run is kept for each):

* `continue` has the gap of `break`: the next iteration stops at "drop flag was
  initialized twice" (`continue_live` in `Hazards`);
* a by-value match binding is moved before the arm's guard is evaluated
  (`guarded_move`); its flag stays set if the guard is false, so that a later arm's
  `continue` or `break` meets the two gaps above as well;
* `x = x` drops `x` before copying it (`self_assign`);
* an explicit discriminant that matches on an ADT defined later asks for an
  `AdtInfo` that is not filled yet (`Forward`, `rustc_worker.rs:239`);
* the three circles of section 2.7 wait for themselves.

Further divergences were met while modelling and are kept out of the programs
and inputs of the runs:

* Compiler: `&*p` with offset 0 and no destination aliases the slot of `p`
  (`bytecode_compiler.rs:785`); in `x + { x = 5; x }` the first operand is read
  after the assignment (356); `[v; 0]` writes one element (1011); an index is
  lowered before the place that is indexed (1329); the end of a slice pattern
  underflows for a short slice (2266).
* Instructions: `MIN / -1` wraps in the interpreter, panics in Rust and traps in
  the JIT; `MovPS2N` has no arm (`build.rs:439`); `PopCount` writes 4 bytes whatever the
  type (217); `cttz_nonzero` is not implemented; bulk moves have a 16-bit offset
  and count (`vm/instr.rs:283`); discriminants are truncated to `i32`
  (`rustc_worker.rs:599`).
* JIT, stated as `JitDiffers`: `I32` `Eq` and `NotEq` test instead of compare
  (`simple_jit.rs:154`), `I64_U_Lt` compares a register with itself (225), `MovSPN`
  adds its offset to the destination (306, 319).
* Drop glue: array elements of size zero are never dropped (`types/drop.rs:356`), a
  union's own `Drop` is not run (99), `Box<dyn>` and `Box<str>` have no glue.
* Cache: a file that ends too soon panics (`persist.rs:122`) where `vm/vm.rs:342`
  promises to fall back to rustc; the build id is a constant
  (`persist_header.rs:10`); a rebuilt dependency is not noticed; the caches of core
  and alloc list no files and are always valid (`rustc_worker.rs:838`); a source
  edited between parsing and saving is accepted as saved (the TODO at 834), and
  overlapping saves, or a save under a reader, may mix two versions. The most
  negative integer of a type cannot be encoded (`persist.rs:247`); `get` on an
  empty table divides by zero (`lazy_collections.rs:253`).
* Impl search: an impl of a user crate for `Box<Local>` or `Pin<Local>` is not
  searched (`impls.rs:79`); a nested tuple in an impl matched against an array, or
  `[u8; 2]` against another length, panics (618, 640); a projection bound that
  does not hold panics instead of excluding the impl (465); so does a bound on a
  parameter that no earlier bound has determined; inherent impls are matched with
  as many parameters as the type that is asked for has (480); const generics that
  precede types are misnumbered (`types/subs.rs:108`).

## 5. Proofs

Everything below is checked by TLAPS for all values of the constants that
satisfy the named assumptions, which TLC evaluates for every run.

**StackDiscipline.** `IInv` is the conjunction of the type invariant, the three
invariants and `ScopesNested`. Without `ScopesNested` they are not inductive:
nothing would say that what `pop_scope` restores is a prefix of the present
stack, nor that the bits from `first_drop` up are those of the entries it frees.
`ScopesNested` says both of every open scope. `GrowStep` is the one lemma behind
both allocations: an entry that is added above `top` with fresh bits keeps
`IInv`.

**Instructions and Interpreter.** `InstructionExecutes` says of every instruction and every
operand in memory what its arm can come to: the same frame with bytes in
memory and the next instruction, a jump by its offset, a call, or one of the ways to
stop. No arm needs a case of its own later on; the interpreter's invariant
`MachineOK` is inductive as it stands. `MachineIsOK` takes one hypothesis,
`RunsLoadable`: the runs that are loaded hold instructions of the enum, jump to
instructions of their function, name functions that exist, call at aligned slots,
and start with memory full of bytes. That is what the compiler owes the
interpreter, not what the interpreter does, so it is no assumption on a constant but
the left-hand side of the theorem; `MachineOK` repeats it of `code` and `machine`, so the
run `lowering` checks it of everything `Lowering` compiles, in the initial states.

**SimpleJit.** `JitDoesAgree` proves `JitAgrees` from `MachineIsOK` and `InstructionAgrees`,
which is about one instruction: for all operands, any memory and bytes of any number
of bits, the machine code leaves exactly the machine that the interpreter's arm
leaves. It excludes what `JitDiffers` names, nearly all of it the defects of section 4,
and instructions the JIT refuses. The interpreter reads signed or unsigned operands as
the type says and the JIT zero-extends nearly all of them, so most cases come down to
`PutAgrees`: what is written is the same if the numbers are congruent modulo the
operand's width. The rest is where flags, shifts and division come in: `SignedFlags`
(`setl` after `sub` is the signed order, through overflow), `QuotientFits` (only the least
number divided by -1 leaves the range, where `idiv` traps), and the sign extension to 16
bytes in two halves (`WidensAgree`).

Numbers here are sums of bytes, and bytes are remainders of quotients by powers of
two, all defined by recursion. The library's induction theorems cannot be used with
the provers at hand, since they take the property as an operator; `Induction` proves
the rule for a *set* from well-foundedness of the naturals, `Recursion` that a recursive
function satisfies its equations, and everything about sums, powers, and reading back
what was written follows from the two.

**RustcWorker.** `IInv` is made of eight parts, each about one piece of the
protocol: the types, the registry (a worker exists only for a registered crate
or the one being added), the requests (a thread asks below itself), the
initialiser of `items`, the queues (a command in a queue belongs to a thread
that waits for that crate, and no thread has two), the current command, the
waiting threads, and the tables. From it follow `LookupInBounds`,
`TakesItsAnswer`, `NoLostCall`, `TablesComplete` and the refinement
`ProvidersImplementTrait`: every step of the threads is a step of
`CrateProvider` or a stutter.

**LazyCells.** `IInv` is the type invariant, `AnswersAgree`, `ComputedOnce` and
three parts about the stacks: `Descending` (a computation is below the one that
asked for it, by the level of its family and then by rank), `WorkersBelow` (a
worker computes only what a worker may ask for) and `Delegation` (a thread that
waits for an IR asks for nothing else, and the worker of that IR's crate builds
it). `OneComputation`, `CallersAgree` and the refinement `CellsImplementMemo`
hold for every `Cycles`. `NoDeadlock` assumes `Cycles = {}`: of the threads that wait for
each other, take one that wants a cell of the least level, and of these of the
least rank; whoever holds that lock wants something still lower, so the set was
not a circle.

**Runtime.** `FlagsNeverShared` proves `FlagsAreFrames`. `PackedInv` says of every VMThread,
the suspended ones too, that the bytes of its activations follow one another and
fill the vector (`Tiled`), and that each activation's bits are those it holds
(`Agrees`). `Tiled` is what makes `Return` cut off exactly the bytes of the
activation that ends; two bits of one activation differ in byte or in position
(`BitsDiffer`). A drop suspends a VMThread as it is and runs another, so the
invariant of the suspended one is untouched. `StacksHaveOneOwner` proves
`StacksExclusive`: `PlacedInv` looks only at the sequences of stacks, one per thread
and one for the pool, in which every stack made occurs once; the three lemmas
`TakeFromPool`, `Allocate` and `GiveBack` are all that ever happens to them.
`CompilesBounded` proves `CompiledOncePerThread`. It assumes, as rustc guarantees,
that no constant depends on itself (`ConstsAssumption`): the functions that the
evaluation of a constant may reach (`SelfContained`) do not include the one being
compiled. `CompileInv` says that whatever runs above a compilation only serves its
constants (`Serves`), so no thread begins a function that it is compiling already;
and that the compilations published and those under way are together no more
than the threads: until the first is published there is one under way per thread at
most, and after it none begins.

**DropScopes.** Six theorems hold for bodies of any length, any number of values
and all families: `DropTypeCorrect`, `NeverPanics`, `FlagsOwnValues`, `ScopesDropped`,
`NoDoubleDrop`, and the refinement of `Ownership`, `CodeImplementsOwnership`. Each
assumes `Hazards = {}`, the bodies that do not use one of the four forms the
compiler is known to lower wrongly; for those the statements are false (section 4).

The difficulty is that the invariant of the run is a fact about emitted code,
with jumps that are patched when later statements are lowered. It is stated by an
*outline*: a function R from positions of the code to sets of abstract states,
that is, of pairs of the flags that are set and the slots that hold a live value.
R is an outline of the code if the instruction at each position is safe in every
state of its set (`Safe`: no double initialisation, clean flags at every call and
branch, ...) and takes it into the sets of the positions that may come next.

* `Compiling`, while the compiler works: some R is an outline of the code emitted
  so far; at its end only states that agree with `flow` arrive (the set flags lie
  between `must` and `may`, and the slots owned are those of the set flags); and
  each jump that is open may lead wherever its block will make it lead (`HoleOk`).
  `Scoped` relates the stack, the named locals and the open blocks: which bits and
  slots belong to which block. Every action of the compiler appends code that
  leads from the states of the old `flow` to those of the new one (`Steps`), opens a
  block, or closes one and so fills the holes of its jumps. A loop is where an
  outline earns its keep: the backward jump arrives in the set that was fixed when
  the loop began.
* `Ready`, when `EndBody` has emitted the return: an outline without a hole.
* `Runner`, while the code runs: the concrete flags, memory and fates are
  described by one state of R at `pc`. Each instruction goes along the outline.
* `Room`: a body of n statements needs at most 4n + 4 slots (2n + 4 without pairs),
  the bound of `TypeOK`.

`DropInv` is `Compiling`, `Ready` or the end, by phase. It is not an invariant TLC can
evaluate, since it says that an outline exists; what it implies are the
invariants of the runs. The proof also found what the runs' bounds had left out: for
a `continue` or `break` out of the second arm of a guarded match, inside a loop, the
flag of the guard's variable is still set and the invariant failed. `flow` now
accounts for that flag, so that those bodies count among `continue_live` and
`break_live`.

Only model-checked: `ResultIsRusts`, `DropGlue` and `ImplIsRusts`, whose modules have
RECURSIVE operators over types, expressions and impls, which tlapm does not accept;
`Halts`, which is about the steps that the programs of the run take and is no theorem of
the interpreter; and the liveness `RequestsAnswered` and `RequestsEnd`, since TLAPS does not
reach liveness under fairness or ENABLED.

## 6. Not modelled

* The conversion of THIR to IR (`ir/converter.rs`): node for node, no state beyond
  the IR under construction; `LazyCells` has what it asks for.
* Codecs (`persist.rs`, `types/type_persist.rs`): straight-line, written and read by
  one macro; and the interning of types.
* Floats, atomics, allocation, unwinding and libc calls of `builtins.rs` and
  `vm/externs.rs`, function pointers, trait objects, constants and statics in
  `Lowering`; values with destructors there (they are in `DropScopes`).
* Builtin traits other than `Sized` and `Tuple`, closures as types, auto traits.
* Closures (`closure.rs`): their signature and IR are set once, before the closure's
  expression exists.
* `compile_native` (`--jit`) as a race between threads, and native externs: `Runtime` is the
  interpreter. It also takes no constant whose evaluation calls the function that
  is being compiled.
* The test runner: its workers share a queue and two counters under one mutex.
* The derive macro, the string handling of `build.rs`, profiling, printing and
  the command line.
