------------------------------ MODULE RustcWorker ------------------------------
(* The crates of a run and who answers for them: the VM thread registers one    *)
(* provider per crate (main.rs, VM::add_provider_auto), each a crate cache or a *)
(* RustCWorker, a thread that runs rustc on the crate (rustc_worker.rs).  The   *)
(* worker first collects its crate's items (RustCContext::new), then executes   *)
(* one command at a time; a caller sends a command through the channel and      *)
(* meets the worker at the barrier of the command's WorkerResult.               *)
(*                                                                              *)
(* Crates are numbered from 1 in the order they are registered, so that the     *)
(* extern crates of a crate are below it; crate N is the program.  Worker c is  *)
(* thread c and the VM thread is N + 1.                                         *)
(*                                                                              *)
(* rustc is external: that it ends, and that a crate only names items of its    *)
(* extern crates, is assumed.  What a crate cache does is left to its own       *)
(* component; here a cached crate answers at once.                              *)
EXTENDS Integers, Sequences, FiniteSets

CONSTANTS
  N,           \* crates
  NAdts,       \* ADTs per crate
  Items,       \* items per crate whose IR can be asked for
  MaxAsks,     \* requests of the VM thread
  MaxNested,   \* lookups of a worker during start-up, and during a command
  Forward      \* an enum discriminant may match on an ADT defined after the enum

ASSUME WorkerAssumption ==
  /\ N \in Nat \ {0} /\ NAdts \in Nat /\ MaxAsks \in Nat /\ MaxNested \in Nat
  /\ Items \subseteq Nat /\ Forward \in BOOLEAN

VARIABLES
  outcome,  \* "running", or how the process ended
  saving,   \* --save: the program's worker writes the cache and exits
  adding,   \* VM.crates is locked for writing, by add_provider_auto
  added,    \* VM.crates.len()
  cached,   \* registered crates whose provider is a CacheProvider
  worker,   \* "none", "new" (in RustCContext::new), "recv", "exec", "wait"
  adts,     \* ADTs whose AdtInfo is set
  queue,    \* each worker's channel
  current,  \* the command each worker executes
  items,    \* crates whose RustCWorker::items is set
  init,     \* the thread inside the get_or_init of that OnceLock, or Nobody
  pc,       \* where each thread is in a request: "idle", "provider", "items", "wait", "take"
  req,      \* the request
  result,   \* WorkerResult::value of the command it sent last
  got,      \* the latest answer
  asks      \* requests it may still make

registry == <<outcome, saving, adding, added, cached>>
workers == <<worker, adts, queue, current>>
callers == <<items, init, pc, req, result, got, asks>>
vars == <<registry, workers, callers>>

Crates == 1 .. N
VM == N + 1
Threads == 1 .. N + 1
Nobody == 0

(* Requests to a provider: "lookup" is item_by_id, item_by_path, trait_impl or  *)
(* inherent_impl.                                                               *)
Lookup(c) == [op |-> "lookup", crate |-> c, item |-> 0]
BuildIr(c, i) == [op |-> "ir", crate |-> c, item |-> i]
Requests == {Lookup(c) : c \in Crates} \cup {BuildIr(c, i) : c \in Crates, i \in Items}
NoRequest == [op |-> "none", crate |-> 0, item |-> 0]

(* What a provider computes. *)
Table(c) == [what |-> "table", of |-> c, item |-> 0]
Ir(c, i) == [what |-> "ir", of |-> c, item |-> i]
NoAnswer == [what |-> "none", of |-> 0, item |-> 0]
AnswerTo(r) == IF r.op = "ir" THEN Ir(r.crate, r.item) ELSE Table(r.crate)
Answers == {Table(c) : c \in Crates} \cup {Ir(c, i) : c \in Crates, i \in Items}

(* A command is what to compute, and whose WorkerResult to put it in. *)
Command(t, answer) == [from |-> t, answer |-> answer]
NoCommand == Command(Nobody, NoAnswer)
Commands == [from : Threads, answer : Answers]

Init ==
  /\ outcome = "running" /\ saving \in BOOLEAN
  /\ adding = FALSE /\ added = 0 /\ cached = {}
  /\ worker = [c \in Crates |-> "none"]
  /\ adts = [c \in Crates |-> 0]
  /\ queue = [c \in Crates |-> <<>>]
  /\ current = [c \in Crates |-> NoCommand]
  /\ items = {}
  /\ init = [c \in Crates |-> Nobody]
  /\ pc = [t \in Threads |-> "idle"]
  /\ req = [t \in Threads |-> NoRequest]
  /\ result = [t \in Threads |-> NoAnswer]
  /\ got = [t \in Threads |-> NoAnswer]
  /\ asks = [t \in Threads |-> IF t = VM THEN MaxAsks ELSE MaxNested]

Running == outcome = "running"
Exit(how) == outcome' = how /\ UNCHANGED <<saving, adding, added, cached>>

--------------------------------------------------------------------------------
(* Registration: run, get_lib and add_provider_auto on the VM thread. *)

BeginAdd ==
  /\ Running /\ ~adding /\ added < N
  /\ adding' = TRUE
  /\ UNCHANGED <<outcome, saving, added, cached, workers, callers>>

(* CacheProvider::new succeeded. *)
AddCached ==
  /\ Running /\ adding /\ worker[added + 1] = "none"
  /\ ~(saving /\ added + 1 = N)
  /\ cached' = cached \cup {added + 1}
  /\ added' = added + 1 /\ adding' = FALSE
  /\ UNCHANGED <<outcome, saving, workers, callers>>

(* RustCWorker::new: the thread starts while the lock is still held. *)
Spawn ==
  /\ Running /\ adding /\ worker[added + 1] = "none"
  /\ worker' = [worker EXCEPT ![added + 1] = "new"]
  /\ UNCHANGED <<registry, adts, queue, current, callers>>

Push ==
  /\ Running /\ adding /\ worker[added + 1] # "none"
  /\ added' = added + 1 /\ adding' = FALSE
  /\ UNCHANGED <<outcome, saving, cached, workers, callers>>

Registered == added = N /\ ~adding

(* main returns, whatever the workers are doing. *)
Finish ==
  /\ Running /\ Registered /\ pc[VM] = "idle" /\ asks[VM] < MaxAsks
  /\ Exit("finished")
  /\ UNCHANGED <<workers, callers>>

--------------------------------------------------------------------------------
(* Requests. *)

Ask(t, r) ==
  /\ asks[t] > 0 /\ pc[t] = "idle"
  /\ asks' = [asks EXCEPT ![t] = @ - 1]
  /\ req' = [req EXCEPT ![t] = r]
  /\ pc' = [pc EXCEPT ![t] = "provider"]
  /\ got' = [got EXCEPT ![t] = NoAnswer]
  /\ UNCHANGED <<registry, workers, items, init, result>>

(* The VM thread looks for `main` first, and then for whatever it runs. *)
VMAsk ==
  /\ Running /\ Registered
  /\ \E r \in Requests :
       /\ asks[VM] = MaxAsks => r = Lookup(N)
       /\ Ask(VM, r)

(* Mutants: a crate that may name itself, or one registered after it. *)
WorkerAskUpTo(c, last) ==
  /\ Running
  /\ worker[c] = "new" \/ (worker[c] = "exec" /\ current[c].answer.what = "ir")
  /\ \E d \in 1 .. last : Ask(c, Lookup(d))
WorkerAskItself(c) == WorkerAskUpTo(c, c)
WorkerAskLater(c) == WorkerAskUpTo(c, N)

(* RustCContext::new and build_ir look up items of extern crates.  The command  *)
(* behind items() only clones an Arc.                                           *)
WorkerAsk(c) ==
  /\ Running
  /\ worker[c] = "new" \/ (worker[c] = "exec" /\ current[c].answer.what = "ir")
  /\ \E d \in Crates : d < c /\ Ask(c, Lookup(d))

Answered(t, answer) ==
  /\ got' = [got EXCEPT ![t] = answer]
  /\ req' = [req EXCEPT ![t] = NoRequest]
  /\ pc' = [pc EXCEPT ![t] = "idle"]

(* VM::crate_provider, which waits while the list of crates is locked. *)
GetProvider(t) ==
  /\ Running /\ pc[t] = "provider" /\ ~adding
  /\ IF req[t].crate \in cached
     THEN Answered(t, AnswerTo(req[t]))
     ELSE pc' = [pc EXCEPT ![t] = "items"] /\ UNCHANGED <<req, got>>
  /\ UNCHANGED <<registry, workers, items, init, result, asks>>

(* RustCWorker::call.  Each command has a WorkerResult of its own. *)
Send(t, answer) ==
  /\ LET c == req[t].crate
     IN  queue' = [queue EXCEPT ![c] = Append(@, Command(t, answer))]
  /\ result' = [result EXCEPT ![t] = NoAnswer]
  /\ pc' = [pc EXCEPT ![t] = "wait"]

(* Mutant: a check followed by an initialisation. *)
InitItemsUnlocked(t) ==
  LET c == req[t].crate
  IN  /\ Running /\ pc[t] = "items" /\ c \notin items
      /\ init' = [init EXCEPT ![c] = t]
      /\ Send(t, Table(c))
      /\ UNCHANGED <<registry, worker, adts, current, items, req, got, asks>>

(* items(): the first caller initialises the OnceLock, the others wait for it. *)
InitItems(t) ==
  LET c == req[t].crate
  IN  /\ Running /\ pc[t] = "items" /\ c \notin items /\ init[c] = Nobody
      /\ init' = [init EXCEPT ![c] = t]
      /\ Send(t, Table(c))
      /\ UNCHANGED <<registry, worker, adts, current, items, req, got, asks>>

(* With the table at hand a lookup is answered, and build_ir asks the worker. *)
UseItems(t) ==
  /\ Running /\ pc[t] = "items" /\ req[t].crate \in items
  /\ IF req[t].op = "lookup"
     THEN Answered(t, Table(req[t].crate)) /\ UNCHANGED <<queue, result>>
     ELSE Send(t, AnswerTo(req[t])) /\ UNCHANGED <<req, got>>
  /\ UNCHANGED <<registry, worker, adts, current, items, init, asks>>

(* WorkerResult::wait after the barrier. *)
Take(t) ==
  LET c == req[t].crate
  IN  /\ Running /\ pc[t] = "take"
      /\ IF init[c] = t
         THEN /\ items' = items \cup {c}
              /\ init' = [init EXCEPT ![c] = Nobody]
              /\ pc' = [pc EXCEPT ![t] = "items"]
              /\ UNCHANGED <<req, got>>
         ELSE Answered(t, result[t]) /\ UNCHANGED <<items, init>>
      /\ UNCHANGED <<registry, workers, result, asks>>

--------------------------------------------------------------------------------
(* Workers. *)

(* Mutant: one ADT too many. *)
FillAdtPastEnd(c) ==
  /\ Running /\ worker[c] = "new" /\ pc[c] = "idle" /\ adts[c] <= NAdts
  /\ adts' = [adts EXCEPT ![c] = @ + 1]
  /\ UNCHANGED <<registry, worker, queue, current, callers>>

(* RustCContext::new fills the fields of the next ADT.  The IR of an explicit   *)
(* discriminant is built at once, and converting its patterns reads the AdtInfo *)
(* of the ADTs they match on (`uses`); for one that is not set Item::adt_info   *)
(* turns to the crate's provider, whose build_adt panics.                       *)
FillAdt(c) ==
  /\ Running /\ worker[c] = "new" /\ pc[c] = "idle" /\ adts[c] < NAdts
  /\ \E uses \in SUBSET (1 .. NAdts \ {adts[c] + 1}) :
       /\ Forward \/ uses \subseteq 1 .. adts[c]
       /\ IF uses \subseteq 1 .. adts[c]
          THEN adts' = [adts EXCEPT ![c] = @ + 1] /\ UNCHANGED registry
          ELSE ~adding /\ Exit("no AdtInfo") /\ UNCHANGED adts
  /\ UNCHANGED <<worker, queue, current, callers>>

(* Mutant: the worker takes commands before the fields are filled. *)
StartEarly(c) ==
  /\ Running /\ worker[c] = "new" /\ pc[c] = "idle"
  /\ worker' = [worker EXCEPT ![c] = "recv"]
  /\ UNCHANGED <<registry, adts, queue, current, callers>>

(* The end of RustCContext::new: the impls are set.  With --save the program's  *)
(* worker writes the cache and exits the process.                               *)
Start(c) ==
  /\ Running /\ worker[c] = "new" /\ pc[c] = "idle" /\ adts[c] = NAdts
  /\ IF saving /\ c = N
     THEN Exit("saved") /\ UNCHANGED worker
     ELSE worker' = [worker EXCEPT ![c] = "recv"] /\ UNCHANGED registry
  /\ UNCHANGED <<adts, queue, current, callers>>

Recv(c) ==
  /\ Running /\ worker[c] = "recv" /\ queue[c] # <<>>
  /\ current' = [current EXCEPT ![c] = Head(queue[c])]
  /\ queue' = [queue EXCEPT ![c] = Tail(@)]
  /\ worker' = [worker EXCEPT ![c] = "exec"]
  /\ asks' = [asks EXCEPT ![c] = MaxNested]
  /\ UNCHANGED <<registry, adts, items, init, pc, req, result, got>>

(* Mutant: the worker comes to the barrier before it has stored the value. *)
StoreLate(c) ==
  /\ Running /\ worker[c] = "exec" /\ pc[c] = "idle"
  /\ worker' = [worker EXCEPT ![c] = "wait"]
  /\ UNCHANGED <<registry, adts, queue, current, callers>>

(* WorkerCommand::call: store the value, then come to the barrier. *)
Store(c) ==
  /\ Running /\ worker[c] = "exec" /\ pc[c] = "idle"
  /\ result' = [result EXCEPT ![current[c].from] = current[c].answer]
  /\ worker' = [worker EXCEPT ![c] = "wait"]
  /\ UNCHANGED <<registry, adts, queue, current, items, init, pc, req, got, asks>>

(* Both parties are at the barrier. *)
Meet(c) ==
  LET t == current[c].from
  IN  /\ Running /\ worker[c] = "wait" /\ pc[t] = "wait"
      /\ pc' = [pc EXCEPT ![t] = "take"]
      /\ worker' = [worker EXCEPT ![c] = "recv"]
      /\ current' = [current EXCEPT ![c] = NoCommand]
      /\ UNCHANGED <<registry, adts, queue, items, init, req, result, got, asks>>

(* Mutant: the panic ends the worker's thread only. *)
PanicInThread(c) ==
  /\ Running /\ worker[c] \in {"new", "exec"} /\ pc[c] = "idle"
  /\ worker' = [worker EXCEPT ![c] = "none"]
  /\ UNCHANGED <<registry, adts, queue, current, callers>>

(* A panic on any thread closes the process (set_panic_handler). *)
Panic(c) ==
  /\ Running /\ worker[c] \in {"new", "exec"} /\ pc[c] = "idle"
  /\ Exit("panicked")
  /\ UNCHANGED <<workers, callers>>

--------------------------------------------------------------------------------
Register == BeginAdd \/ AddCached \/ Spawn \/ Push
Proceed(t) == GetProvider(t) \/ InitItems(t) \/ UseItems(t) \/ Take(t)
Serve(c) == FillAdt(c) \/ Start(c) \/ Recv(c) \/ Store(c) \/ Meet(c)

Next ==
  \/ Register \/ VMAsk \/ Finish
  \/ \E t \in Threads : Proceed(t)
  \/ \E c \in Crates : Serve(c) \/ WorkerAsk(c) \/ Panic(c)

Safe == Init /\ [][Next]_vars

(* Every thread keeps running.  Nothing makes a thread ask, panic or finish. *)
Spec == Safe /\ WF_vars(Register)
             /\ \A t \in Threads : WF_vars(Proceed(t))
             /\ \A c \in Crates : WF_vars(Serve(c))

--------------------------------------------------------------------------------
(* Properties. *)

TypeOK ==
  /\ outcome \in {"running", "finished", "saved", "panicked", "no AdtInfo"}
  /\ saving \in BOOLEAN /\ adding \in BOOLEAN /\ added \in 0 .. N /\ cached \subseteq Crates
  /\ worker \in [Crates -> {"none", "new", "recv", "exec", "wait"}]
  /\ adts \in [Crates -> 0 .. NAdts]
  /\ queue \in [Crates -> Seq(Commands)]
  /\ current \in [Crates -> Commands \cup {NoCommand}]
  /\ items \subseteq Crates
  /\ init \in [Crates -> Threads \cup {Nobody}]
  /\ pc \in [Threads -> {"idle", "provider", "items", "wait", "take"}]
  /\ req \in [Threads -> Requests \cup {NoRequest}]
  /\ result \in [Threads -> Answers \cup {NoAnswer}]
  /\ got \in [Threads -> Answers \cup {NoAnswer}]
  /\ asks \in [Threads -> Nat]

(* VM::crate_provider never indexes past the registered crates, although a      *)
(* worker runs before its own provider is pushed.                               *)
LookupInBounds ==
  \A t \in Threads : pc[t] = "provider" /\ ~adding => req[t].crate \in 1 .. added

(* What WorkerResult::wait waits for: the value of the request, or the table    *)
(* for a thread that initialises `items`.                                       *)
Expected(t) == IF init[req[t].crate] = t THEN Table(req[t].crate) ELSE AnswerTo(req[t])

(* WorkerResult::wait never unwraps an empty value, nor one of another command. *)
TakesItsAnswer == \A t \in Threads : pc[t] = "take" => result[t] = Expected(t)

(* The command of a waiting thread is in one place: in the channel of the crate *)
(* it asked, or in that worker's hands.  The crate is below the thread, so no   *)
(* two threads wait for each other.                                             *)
NoLostCall ==
  \A t \in Threads : pc[t] = "wait" =>
    LET c == req[t].crate
        queued == {i \in DOMAIN queue[c] : queue[c][i].from = t}
    IN  /\ c < t /\ worker[c] # "none"
        /\ IF current[c].from = t THEN queued = {} ELSE \E i \in DOMAIN queue[c] : queued = {i}

(* A thread that found the table of a crate finds all its AdtInfo set. *)
TablesComplete == \A c \in items : adts[c] = NAdts /\ worker[c] \notin {"none", "new"}

(* "rustc worker should create all adt info eagerly" (build_adt) never fires.   *)
AdtInfoEager == outcome # "no AdtInfo"

(* Every request is answered unless the process ends first. *)
RequestsAnswered ==
  \A t \in Threads : pc[t] # "idle" ~> (pc[t] = "idle" \/ outcome # "running")

(* The providers implement CrateProvider. *)
Promise == INSTANCE CrateProvider WITH
             ready <- cached \cup {c \in Crates : worker[c] \notin {"none", "new"}},
             asked <- req
ProviderSpec == Promise!Spec
================================================================================
