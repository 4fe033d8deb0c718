--------------------------- MODULE RustcWorkerProofs ---------------------------
(* Proofs about RustcWorker, for every number of crates, ADTs and requests: its *)
(* safety properties, and that it implements CrateProvider.                     *)
EXTENDS RustcWorker, SequenceTheorems, TLAPS

(* The inductive invariant, in parts.                                           *)

(* A crate's thread exists from Spawn on; a registered crate has a provider.    *)
RegistryInv ==
  /\ adding => added < N
  /\ \A c \in cached : c <= added
  /\ \A c \in Crates : worker[c] # "none" => c <= added \/ (adding /\ c = added + 1)
  /\ \A c \in Crates : c <= added => c \in cached \/ worker[c] # "none"

(* The request of thread t. *)
Request(t) ==
  /\ pc[t] = "idle" <=> req[t] = NoRequest
  /\ pc[t] # "idle" => /\ req[t].crate < t /\ req[t].crate <= added
                       /\ t # VM => worker[t] \in {"new", "exec"}
  /\ pc[t] \in {"items", "wait", "take"} => req[t].crate \notin cached
  /\ pc[t] \in {"wait", "take"} =>
       init[req[t].crate] = t \/ (req[t].op = "ir" /\ req[t].crate \in items)
  /\ pc[t] = "take" => result[t] = Expected(t) /\ worker[req[t].crate] \notin {"none", "new"}
RequestInv == \A t \in Threads : Request(t)

(* The thread inside get_or_init is waiting for the table. *)
InitialiserInv ==
  \A c \in Crates : init[c] # Nobody =>
    c \notin items /\ pc[init[c]] \in {"wait", "take"} /\ req[init[c]].crate = c

(* Thread t waits for what command m of crate c computes. *)
Awaited(m, c) ==
  pc[m.from] = "wait" /\ req[m.from].crate = c /\ m.answer = Expected(m.from)

(* The commands in the channel of crate c and in its worker's hands. *)
QueueInv ==
  \A c \in Crates :
    /\ \A i \in DOMAIN queue[c] : Awaited(queue[c][i], c) /\ queue[c][i].from # current[c].from
    /\ \A i, j \in DOMAIN queue[c] : queue[c][i].from = queue[c][j].from => i = j

CurrentInv ==
  \A c \in Crates :
    /\ worker[c] \in {"exec", "wait"} <=> current[c] # NoCommand
    /\ current[c] # NoCommand => Awaited(current[c], c)
    /\ worker[c] = "wait" => result[current[c].from] = current[c].answer

(* No command is lost. *)
WaitInv ==
  \A t \in Threads : pc[t] = "wait" =>
    LET c == req[t].crate
    IN  current[c].from = t \/ \E i \in DOMAIN queue[c] : queue[c][i].from = t

TablesInv ==
  /\ \A c \in items : worker[c] \notin {"none", "new"}
  /\ \A c \in Crates : worker[c] \notin {"none", "new"} => adts[c] = NAdts

IInv == /\ TypeOK /\ RegistryInv /\ RequestInv /\ InitialiserInv
        /\ QueueInv /\ CurrentInv /\ WaitInv /\ TablesInv

--------------------------------------------------------------------------------
(* What a request, a command and an answer consist of. *)
LEMMA Shapes ==
  /\ \A r \in Requests : /\ r # NoRequest /\ r.crate \in Crates /\ r.op \in {"lookup", "ir"}
                         /\ AnswerTo(r) \in Answers
                         /\ r.op = "lookup" => AnswerTo(r) = Table(r.crate)
  /\ \A c \in Crates : Table(c) \in Answers /\ Lookup(c) \in Requests
  /\ \A t \in Threads, a \in Answers : /\ Command(t, a) \in Commands
                                       /\ Command(t, a).from = t /\ Command(t, a).answer = a
  /\ \A m \in Commands : m # NoCommand /\ m.from \in Threads /\ m.answer \in Answers
  /\ NoCommand.from = Nobody /\ Nobody \notin Threads
  /\ Crates \subseteq Threads /\ VM \in Threads /\ VM \notin Crates
  /\ \A t \in Threads : t # VM => t \in Crates
BY WorkerAssumption DEF Requests, NoRequest, Lookup, BuildIr, AnswerTo, Answers, Table, Ir,
     Command, Commands, NoCommand, NoAnswer, Nobody, Threads, Crates, VM

(* The invariant holds when the process starts. *)
LEMMA InitStep == Init => IInv
<1>. SUFFICES ASSUME Init PROVE IInv
  OBVIOUS
<1>. USE Shapes, WorkerAssumption DEF Init, Nobody
<1>1. TypeOK
  <2>1. queue \in [Crates -> Seq(Commands)]
    BY EmptySeq
  <2>2. asks \in [Threads -> Nat]
    OBVIOUS
  <2>3. adts \in [Crates -> 0 .. NAdts] /\ added \in 0 .. N
    OBVIOUS
  <2>4. /\ worker \in [Crates -> {"none", "new", "recv", "exec", "wait"}]
        /\ current \in [Crates -> Commands \cup {NoCommand}]
        /\ init \in [Crates -> Threads \cup {Nobody}]
    OBVIOUS
  <2>5. /\ pc \in [Threads -> {"idle", "provider", "items", "wait", "take"}]
        /\ req \in [Threads -> Requests \cup {NoRequest}]
        /\ result \in [Threads -> Answers \cup {NoAnswer}]
        /\ got \in [Threads -> Answers \cup {NoAnswer}]
    OBVIOUS
  <2>. QED
    BY <2>1, <2>2, <2>3, <2>4, <2>5 DEF TypeOK
<1>2. RegistryInv /\ InitialiserInv /\ TablesInv
  BY DEF RegistryInv, InitialiserInv, TablesInv, Crates
<1>3. RequestInv
  BY DEF RequestInv, Request
<1>4. QueueInv /\ CurrentInv /\ WaitInv
  BY DEF QueueInv, CurrentInv, WaitInv
<1>. QED
  BY <1>1, <1>2, <1>3, <1>4 DEF IInv

(* A thread in a request has one, and its crate is below the thread. *)
LEMMA InRequest ==
  ASSUME IInv, NEW t \in Threads, pc[t] # "idle"
  PROVE  req[t] \in Requests /\ req[t].crate \in Crates /\ req[t].op \in {"lookup", "ir"}
<1>1. Request(t)
  BY DEF IInv, RequestInv
<1>2. req[t] \in Requests \cup {NoRequest}
  BY DEF IInv, TypeOK
<1>. QED
  BY <1>1, <1>2, Shapes DEF Request

(* While the list is locked there is a crate to register. *)
LEMMA Adding ==
  ASSUME IInv, adding
  PROVE  /\ added \in Nat /\ added + 1 \in Crates /\ \A c \in Crates : c \in Nat
         /\ added' = added + 1 => added' \in 0 .. N
<1>1. added \in 0 .. N /\ added < N
  BY DEF IInv, TypeOK, RegistryInv
<1>. QED
  BY <1>1, WorkerAssumption DEF Crates

(* Steps that change no request and no command. *)
LEMMA Quiet ==
  ASSUME IInv, UNCHANGED <<queue, current, items, init, pc, req, result>>
  PROVE  InitialiserInv' /\ QueueInv' /\ WaitInv'
BY DEF IInv, InitialiserInv, QueueInv, WaitInv, Awaited, Expected

(* Locking the list of crates. *)
LEMMA BeginAddStep == ASSUME IInv, BeginAdd PROVE IInv'
<1>. USE DEF BeginAdd, workers, callers
<1>1. TypeOK'
  BY DEF IInv, TypeOK
<1>2. RegistryInv'
  BY DEF IInv, RegistryInv
<1>3. RequestInv' /\ CurrentInv' /\ TablesInv'
  BY DEF IInv, RequestInv, Request, Expected, CurrentInv, Awaited, TablesInv
<1>. QED
  BY <1>1, <1>2, <1>3, Quiet DEF IInv

(* Registering a cache. *)
LEMMA AddCachedStep == ASSUME IInv, AddCached PROVE IInv'
<1>. USE DEF AddCached, workers, callers
<1>1. /\ added \in Nat /\ added + 1 \in Crates /\ \A c \in Crates : c \in Nat
      /\ added' = added + 1 /\ added' \in 0 .. N
  BY Adding
<1>2. TypeOK'
  BY <1>1 DEF IInv, TypeOK
<1>3. RegistryInv'
  <2>1. cached \subseteq Crates
    BY DEF IInv, TypeOK
  <2>. QED
    BY <1>1, <2>1 DEF IInv, RegistryInv
<1>4. RequestInv'
  <2>. SUFFICES ASSUME NEW t \in Threads PROVE Request(t)'
    BY DEF RequestInv
  <2>1. Request(t)
    BY DEF IInv, RequestInv
  <2>2. req[t] \in Requests \cup {NoRequest}
    BY DEF IInv, TypeOK
  <2>3. pc[t] # "idle" => req[t].crate \in Nat
    BY <1>1, <2>1, <2>2, Shapes DEF Request
  <2>. QED
    BY <1>1, <2>1, <2>3 DEF Request, Expected
<1>5. CurrentInv' /\ TablesInv'
  BY DEF IInv, CurrentInv, Awaited, Expected, TablesInv
<1>. QED
  BY <1>2, <1>3, <1>4, <1>5, Quiet DEF IInv

(* Starting a worker. *)
LEMMA SpawnStep == ASSUME IInv, Spawn PROVE IInv'
<1>. USE DEF Spawn, registry, callers
<1>1. added \in Nat /\ added + 1 \in Crates /\ \A c \in Crates : c \in Nat
  BY Adding
<1>2. worker \in [Crates -> {"none", "new", "recv", "exec", "wait"}]
  BY DEF IInv, TypeOK
<1>3. TypeOK'
  BY <1>1 DEF IInv, TypeOK
<1>4. RegistryInv'
  BY <1>1, <1>2 DEF IInv, RegistryInv
<1>5. RequestInv'
  BY <1>1, <1>2 DEF IInv, RequestInv, Request, Expected
<1>6. CurrentInv' /\ TablesInv'
  BY <1>1, <1>2 DEF IInv, CurrentInv, Awaited, Expected, TablesInv
<1>. QED
  BY <1>3, <1>4, <1>5, <1>6, Quiet DEF IInv

(* The lock is released when the provider is in the list. *)
LEMMA PushStep == ASSUME IInv, Push PROVE IInv'
<1>. USE DEF Push, workers, callers
<1>1. /\ added \in Nat /\ added + 1 \in Crates /\ \A c \in Crates : c \in Nat
      /\ added' = added + 1 /\ added' \in 0 .. N
  BY Adding
<1>2. TypeOK'
  BY <1>1 DEF IInv, TypeOK
<1>3. RegistryInv'
  <2>1. cached \subseteq Crates
    BY DEF IInv, TypeOK
  <2>. QED
    BY <1>1, <2>1 DEF IInv, RegistryInv
<1>4. RequestInv'
  <2>. SUFFICES ASSUME NEW t \in Threads PROVE Request(t)'
    BY DEF RequestInv
  <2>1. Request(t)
    BY DEF IInv, RequestInv
  <2>2. req[t] \in Requests \cup {NoRequest}
    BY DEF IInv, TypeOK
  <2>3. pc[t] # "idle" => req[t].crate \in Nat
    BY <1>1, <2>1, <2>2, Shapes DEF Request
  <2>. QED
    BY <1>1, <2>1, <2>3 DEF Request, Expected
<1>5. CurrentInv' /\ TablesInv'
  BY DEF IInv, CurrentInv, Awaited, Expected, TablesInv
<1>. QED
  BY <1>2, <1>3, <1>4, <1>5, Quiet DEF IInv

(* The ends of the process change nothing else. *)
LEMMA ExitStep ==
  ASSUME IInv, NEW how \in {"finished", "saved", "panicked", "no AdtInfo"}, Exit(how),
         UNCHANGED <<workers, callers>>
  PROVE  IInv'
<1>. USE DEF Exit, workers, callers
<1>1. TypeOK'
  BY DEF IInv, TypeOK
<1>2. RegistryInv' /\ CurrentInv' /\ TablesInv'
  BY DEF IInv, RegistryInv, CurrentInv, Awaited, Expected, TablesInv
<1>3. RequestInv'
  BY DEF IInv, RequestInv, Request, Expected
<1>. QED
  BY <1>1, <1>2, <1>3, Quiet DEF IInv

(* Aggregating the items of a crate. *)
LEMMA FillAdtStep == ASSUME IInv, NEW c \in Crates, FillAdt(c) PROVE IInv'
<1>1. /\ adts[c] < NAdts /\ worker[c] = "new" /\ UNCHANGED <<worker, queue, current, callers>>
      /\ \/ Exit("no AdtInfo") /\ UNCHANGED adts
         \/ adts' = [adts EXCEPT ![c] = @ + 1] /\ UNCHANGED registry
  BY DEF FillAdt
<1>2. CASE Exit("no AdtInfo") /\ UNCHANGED adts
  BY <1>1, <1>2, ExitStep DEF workers
<1>3. CASE adts' = [adts EXCEPT ![c] = @ + 1] /\ UNCHANGED registry
  <2>. USE <1>1, <1>3 DEF registry, callers
  <2>1. adts \in [Crates -> 0 .. NAdts]
    BY DEF IInv, TypeOK
  <2>2. adts' \in [Crates -> 0 .. NAdts]
    BY <2>1, WorkerAssumption
  <2>3. TypeOK'
    BY <2>2 DEF IInv, TypeOK
  <2>4. RegistryInv' /\ CurrentInv'
    BY DEF IInv, RegistryInv, CurrentInv, Awaited, Expected
  <2>5. RequestInv'
    BY DEF IInv, RequestInv, Request, Expected
  <2>6. TablesInv'
    BY <2>1 DEF IInv, TablesInv
  <2>. QED
    BY <2>3, <2>4, <2>5, <2>6, Quiet DEF IInv
<1>. QED
  BY <1>1, <1>2, <1>3

(* The worker has its table and takes commands. *)
LEMMA StartStep == ASSUME IInv, NEW c \in Crates, Start(c) PROVE IInv'
<1>. USE DEF Start, registry, callers
<1>1. CASE Exit("saved") /\ UNCHANGED worker
  BY <1>1, ExitStep DEF workers
<1>2. CASE worker' = [worker EXCEPT ![c] = "recv"] /\ UNCHANGED registry
  <2>. USE <1>2
  <2>1. worker \in [Crates -> {"none", "new", "recv", "exec", "wait"}]
    BY DEF IInv, TypeOK
  <2>2. TypeOK'
    BY DEF IInv, TypeOK
  <2>3. RegistryInv' /\ CurrentInv' /\ TablesInv'
    BY <2>1 DEF IInv, RegistryInv, CurrentInv, Awaited, Expected, TablesInv
  <2>4. RequestInv'
    <3>. SUFFICES ASSUME NEW t \in Threads PROVE Request(t)'
      BY DEF RequestInv
    <3>1. Request(t)
      BY DEF IInv, RequestInv
    <3>2. req[t] \in Requests \cup {NoRequest}
      BY DEF IInv, TypeOK
    <3>. QED
      BY <2>1, <3>1, <3>2, Shapes DEF Request, Expected
  <2>. QED
    BY <2>2, <2>3, <2>4, Quiet DEF IInv
<1>. QED
  BY <1>1, <1>2

(* The worker takes the first command: what was in one place still is. *)
LEMMA RecvStep == ASSUME IInv, NEW c \in Crates, Recv(c) PROVE IInv'
<1>. USE DEF registry
<1>1. /\ worker[c] = "recv" /\ queue[c] # <<>>
      /\ current' = [current EXCEPT ![c] = Head(queue[c])]
      /\ queue' = [queue EXCEPT ![c] = Tail(@)]
      /\ worker' = [worker EXCEPT ![c] = "exec"]
      /\ asks' = [asks EXCEPT ![c] = MaxNested]
      /\ UNCHANGED <<registry, adts, items, init, pc, req, result, got>>
  BY DEF Recv
<1>2. /\ worker \in [Crates -> {"none", "new", "recv", "exec", "wait"}]
      /\ queue \in [Crates -> Seq(Commands)]
      /\ current \in [Crates -> Commands \cup {NoCommand}]
      /\ asks \in [Threads -> Nat]
  BY DEF IInv, TypeOK
<1>3. PICK q \in Seq(Commands) : q = queue[c] /\ q # <<>>
  BY <1>1, <1>2
<1>4. /\ Head(q) = q[1] /\ q[1] \in Commands /\ Tail(q) \in Seq(Commands)
      /\ 1 \in DOMAIN q
      /\ \A i \in DOMAIN Tail(q) : i + 1 \in DOMAIN q /\ i + 1 # 1 /\ Tail(q)[i] = q[i + 1]
      /\ \A i \in DOMAIN q : i # 1 => i - 1 \in DOMAIN Tail(q) /\ Tail(q)[i - 1] = q[i]
  BY <1>3, HeadTailProperties, LenProperties, ElementOfSeq
<1>5. /\ current'[c] = q[1] /\ queue'[c] = Tail(q) /\ worker'[c] = "exec"
      /\ \A d \in Crates \ {c} : /\ current'[d] = current[d] /\ queue'[d] = queue[d]
                                 /\ worker'[d] = worker[d]
  BY <1>1, <1>2, <1>3, <1>4
<1>6. TypeOK'
  <2>1. queue' \in [Crates -> Seq(Commands)] /\ current' \in [Crates -> Commands \cup {NoCommand}]
    BY <1>1, <1>2, <1>3, <1>4
  <2>2. asks' \in [Threads -> Nat] /\ worker' \in [Crates -> {"none", "new", "recv", "exec", "wait"}]
    BY <1>1, <1>2, WorkerAssumption
  <2>. QED
    BY <1>1, <2>1, <2>2 DEF IInv, TypeOK
<1>7. RegistryInv' /\ InitialiserInv' /\ TablesInv'
  BY <1>1, <1>5 DEF IInv, RegistryInv, InitialiserInv, TablesInv
<1>8. RequestInv'
  <2>. SUFFICES ASSUME NEW t \in Threads PROVE Request(t)'
    BY DEF RequestInv
  <2>1. Request(t)
    BY DEF IInv, RequestInv
  <2>2. req[t] \in Requests \cup {NoRequest}
    BY DEF IInv, TypeOK
  <2>. QED
    BY <1>1, <1>5, <2>1, <2>2, Shapes DEF Request, Expected
<1>9. QueueInv'
  <2>. SUFFICES ASSUME NEW d \in Crates
                PROVE  /\ \A i \in DOMAIN queue'[d] : /\ Awaited(queue'[d][i], d)
                                                      /\ queue'[d][i].from # current'[d].from
                       /\ \A i, j \in DOMAIN queue'[d] : queue'[d][i].from = queue'[d][j].from => i = j
    BY <1>1 DEF QueueInv, Awaited, Expected
  <2>1. /\ \A i \in DOMAIN queue[d] : /\ Awaited(queue[d][i], d)
                                      /\ queue[d][i].from # current[d].from
        /\ \A i, j \in DOMAIN queue[d] : queue[d][i].from = queue[d][j].from => i = j
    BY DEF IInv, QueueInv
  <2>2. CASE d # c
    BY <1>5, <2>1, <2>2
  <2>3. CASE d = c
    <3>1. \A i \in DOMAIN q : Awaited(q[i], c)
      BY <1>3, <2>1, <2>3
    <3>2. \A i, j \in DOMAIN q : q[i].from = q[j].from => i = j
      BY <1>3, <2>1, <2>3
    <3>3. \A i \in DOMAIN Tail(q) : i \in Int
      BY <1>4, LenProperties
    <3>4. \A i \in DOMAIN Tail(q) : Awaited(Tail(q)[i], c) /\ Tail(q)[i].from # q[1].from
      BY <1>4, <3>1, <3>2
    <3>5. \A i, j \in DOMAIN Tail(q) : Tail(q)[i].from = Tail(q)[j].from => i = j
      <4>1. \A i, j \in DOMAIN Tail(q) : Tail(q)[i].from = Tail(q)[j].from => i + 1 = j + 1
        BY <1>4, <3>2
      <4>. QED
        BY <3>3, <4>1
    <3>6. queue'[d] = Tail(q) /\ current'[d] = q[1]
      BY <1>5, <2>3
    <3>7. \A i \in DOMAIN queue'[d] : Awaited(queue'[d][i], d) /\ queue'[d][i].from # current'[d].from
      BY <2>3, <3>4, <3>6
    <3>8. \A i, j \in DOMAIN queue'[d] : queue'[d][i].from = queue'[d][j].from => i = j
      BY <3>5, <3>6
    <3>. QED
      BY <3>7, <3>8
  <2>. QED
    BY <2>2, <2>3
<1>10. CurrentInv'
  <2>1. Awaited(q[1], c) /\ q[1] # NoCommand
    BY <1>3, <1>4, Shapes DEF IInv, QueueInv
  <2>2. Awaited(q[1], c)'
    BY <1>1, <2>1 DEF Awaited, Expected
  <2>. QED
    BY <1>1, <1>5, <2>1, <2>2 DEF IInv, CurrentInv, Awaited, Expected
<1>11. WaitInv'
  <2>. SUFFICES ASSUME NEW t \in Threads, pc[t] = "wait", NEW d \in Crates, d = req[t].crate
                PROVE  current'[d].from = t \/ \E i \in DOMAIN queue'[d] : queue'[d][i].from = t
    BY <1>1, InRequest DEF WaitInv
  <2>1. current[d].from = t \/ \E i \in DOMAIN queue[d] : queue[d][i].from = t
    BY DEF IInv, WaitInv
  <2>2. CASE d # c
    BY <1>5, <2>1, <2>2
  <2>3. CASE d = c
    <3>1. current[c].from # t
      BY <1>1, Shapes DEF IInv, CurrentInv
    <3>2. PICK i \in DOMAIN q : q[i].from = t
      BY <1>3, <2>1, <2>3, <3>1
    <3>3. i = 1 \/ (i - 1 \in DOMAIN Tail(q) /\ Tail(q)[i - 1].from = t)
      BY <1>4, <3>2
    <3>. QED
      BY <1>5, <2>3, <3>2, <3>3
  <2>. QED
    BY <2>2, <2>3
<1>. QED
  BY <1>6, <1>7, <1>8, <1>9, <1>10, <1>11 DEF IInv

(* The value goes to the one thread that waits for it. *)
LEMMA StoreStep == ASSUME IInv, NEW c \in Crates, Store(c) PROVE IInv'
<1>. DEFINE u == current[c].from
<1>1. /\ worker[c] = "exec" /\ pc[c] = "idle"
      /\ result' = [result EXCEPT ![u] = current[c].answer]
      /\ worker' = [worker EXCEPT ![c] = "wait"]
      /\ UNCHANGED <<registry, adts, queue, current, items, init, pc, req, got, asks>>
  BY DEF Store
<1>2. /\ worker \in [Crates -> {"none", "new", "recv", "exec", "wait"}]
      /\ result \in [Threads -> Answers \cup {NoAnswer}]
      /\ current[c] \in Commands \cup {NoCommand}
  BY DEF IInv, TypeOK
<1>3. current[c] \in Commands /\ pc[u] = "wait" /\ req[u].crate = c
  BY <1>1, <1>2, Shapes DEF IInv, CurrentInv, Awaited
<1>4. u \in Threads /\ current[c].answer \in Answers
  BY <1>3, Shapes
<1>. HIDE DEF u
<1>5. /\ result'[u] = current[c].answer /\ worker'[c] = "wait"
      /\ \A t \in Threads : t # u => result'[t] = result[t]
      /\ \A d \in Crates : d # c => worker'[d] = worker[d]
  BY <1>1, <1>2, <1>4
<1>6. TypeOK'
  BY <1>1, <1>2, <1>4 DEF IInv, TypeOK, registry
<1>7. RegistryInv' /\ InitialiserInv' /\ TablesInv' /\ WaitInv'
  BY <1>1, <1>5 DEF IInv, RegistryInv, InitialiserInv, TablesInv, WaitInv, registry
<1>8. QueueInv'
  BY <1>1 DEF IInv, QueueInv, Awaited, Expected
<1>9. RequestInv'
  <2>. SUFFICES ASSUME NEW t \in Threads PROVE Request(t)'
    BY DEF RequestInv
  <2>1. Request(t)
    BY DEF IInv, RequestInv
  <2>2. pc[t] # "idle" => req[t].crate \in Crates
    BY InRequest
  <2>. QED
    BY <1>1, <1>3, <1>5, <2>1, <2>2 DEF Request, Expected, registry
<1>10. CurrentInv'
  <2>. SUFFICES ASSUME NEW d \in Crates
                PROVE  /\ worker'[d] \in {"exec", "wait"} <=> current[d] # NoCommand
                       /\ current[d] # NoCommand => Awaited(current[d], d)
                       /\ worker'[d] = "wait" => result'[current[d].from] = current[d].answer
    BY <1>1 DEF CurrentInv, Awaited, Expected
  <2>1. /\ worker[d] \in {"exec", "wait"} <=> current[d] # NoCommand
        /\ current[d] # NoCommand => Awaited(current[d], d)
        /\ worker[d] = "wait" => result[current[d].from] = current[d].answer
    BY DEF IInv, CurrentInv
  <2>2. CASE d = c
    BY <1>1, <1>5, <2>1, <2>2 DEF u
  <2>3. CASE d # c
    <3>1. current[d] # NoCommand => current[d].from # u /\ current[d].from \in Threads
      <4>1. current[d] \in Commands \cup {NoCommand}
        BY DEF IInv, TypeOK
      <4>. QED
        BY <1>3, <2>1, <2>3, <4>1, Shapes DEF Awaited
    <3>. QED
      BY <1>5, <2>1, <2>3, <3>1
  <2>. QED
    BY <2>2, <2>3
<1>. QED
  BY <1>6, <1>7, <1>8, <1>9, <1>10 DEF IInv

(* The barrier opens: the caller finds the value of its own command. *)
LEMMA MeetStep == ASSUME IInv, NEW c \in Crates, Meet(c) PROVE IInv'
<1>. DEFINE u == current[c].from
<1>1. /\ worker[c] = "wait" /\ pc[u] = "wait"
      /\ pc' = [pc EXCEPT ![u] = "take"]
      /\ worker' = [worker EXCEPT ![c] = "recv"]
      /\ current' = [current EXCEPT ![c] = NoCommand]
      /\ UNCHANGED <<registry, adts, queue, items, init, req, result, got, asks>>
  BY DEF Meet
<1>2. /\ worker \in [Crates -> {"none", "new", "recv", "exec", "wait"}]
      /\ pc \in [Threads -> {"idle", "provider", "items", "wait", "take"}]
      /\ current \in [Crates -> Commands \cup {NoCommand}]
  BY DEF IInv, TypeOK
<1>3. /\ current[c] \in Commands /\ req[u].crate = c
      /\ result[u] = Expected(u)
  BY <1>1, <1>2, Shapes DEF IInv, CurrentInv, Awaited
<1>4. u \in Threads
  BY <1>3, Shapes
<1>5. \A i \in DOMAIN queue[c] : queue[c][i].from # u
  BY DEF IInv, QueueInv
<1>. HIDE DEF u
<1>6. /\ pc'[u] = "take" /\ worker'[c] = "recv" /\ current'[c] = NoCommand
      /\ \A t \in Threads : t # u => pc'[t] = pc[t]
      /\ \A d \in Crates : d # c => worker'[d] = worker[d] /\ current'[d] = current[d]
  BY <1>1, <1>2, <1>4
<1>7. TypeOK'
  BY <1>1, <1>2, <1>4 DEF IInv, TypeOK, registry
<1>8. RegistryInv' /\ TablesInv'
  BY <1>1, <1>6 DEF IInv, RegistryInv, TablesInv, registry
<1>9. InitialiserInv'
  <2>1. init \in [Crates -> Threads \cup {Nobody}]
    BY DEF IInv, TypeOK
  <2>. QED
    BY <1>1, <1>6, <2>1 DEF IInv, InitialiserInv
<1>10. RequestInv'
  <2>. SUFFICES ASSUME NEW t \in Threads PROVE Request(t)'
    BY DEF RequestInv
  <2>1. Request(t)
    BY DEF IInv, RequestInv
  <2>2. pc[t] # "idle" => req[t].crate \in Crates
    BY InRequest
  <2>3. t # VM => t \in Crates
    BY Shapes
  <2>4. pc[c] = "wait" => worker[c] \in {"new", "exec"}
    BY Shapes DEF IInv, RequestInv, Request
  <2>5. CASE t = u
    BY <1>1, <1>3, <1>6, <2>1, <2>2, <2>3, <2>5 DEF Request, Expected, registry
  <2>6. CASE t # u
    <3>1. t = c => pc[t] = "idle"
      BY <1>1, <2>1, Shapes DEF Request
    <3>. QED
      BY <1>1, <1>6, <2>1, <2>2, <2>3, <2>6, <3>1 DEF Request, Expected, registry
  <2>. QED
    BY <2>5, <2>6
<1>11. QueueInv'
  <2>. SUFFICES ASSUME NEW d \in Crates
                PROVE  /\ \A i \in DOMAIN queue[d] : /\ Awaited(queue[d][i], d)'
                                                     /\ queue[d][i].from # current'[d].from
                       /\ \A i, j \in DOMAIN queue[d] : queue[d][i].from = queue[d][j].from => i = j
    BY <1>1 DEF QueueInv
  <2>1. /\ \A i \in DOMAIN queue[d] : /\ Awaited(queue[d][i], d)
                                      /\ queue[d][i].from # current[d].from
                                      /\ queue[d][i] \in Commands
        /\ \A i, j \in DOMAIN queue[d] : queue[d][i].from = queue[d][j].from => i = j
    <3>1. queue[d] \in Seq(Commands)
      BY DEF IInv, TypeOK
    <3>. QED
      BY <3>1, ElementOfSeq, LenProperties DEF IInv, QueueInv
  <2>2. \A i \in DOMAIN queue[d] : queue[d][i].from # u /\ queue[d][i].from \in Threads
    BY <1>3, <1>5, <2>1, Shapes DEF Awaited
  <2>. QED
    BY <1>1, <1>6, <2>1, <2>2, Shapes DEF Awaited, Expected
<1>12. CurrentInv'
  <2>. SUFFICES ASSUME NEW d \in Crates
                PROVE  /\ worker'[d] \in {"exec", "wait"} <=> current'[d] # NoCommand
                       /\ current'[d] # NoCommand => Awaited(current[d], d)'
                       /\ worker'[d] = "wait" => result[current'[d].from] = current'[d].answer
    BY <1>1 DEF CurrentInv, Awaited, Expected
  <2>1. /\ worker[d] \in {"exec", "wait"} <=> current[d] # NoCommand
        /\ current[d] # NoCommand => Awaited(current[d], d)
        /\ worker[d] = "wait" => result[current[d].from] = current[d].answer
    BY DEF IInv, CurrentInv
  <2>2. CASE d = c
    BY <1>6, <2>2
  <2>3. CASE d # c
    <3>1. current[d] # NoCommand => current[d].from # u /\ current[d].from \in Threads
      BY <1>2, <1>3, <2>1, <2>3, Shapes DEF Awaited
    <3>. QED
      BY <1>1, <1>6, <2>1, <2>3, <3>1 DEF Awaited, Expected
  <2>. QED
    BY <2>2, <2>3
<1>13. WaitInv'
  <2>. SUFFICES ASSUME NEW t \in Threads, pc'[t] = "wait", NEW d \in Crates, d = req[t].crate
                PROVE  current'[d].from = t \/ \E i \in DOMAIN queue[d] : queue[d][i].from = t
    <3>1. \A t \in Threads : pc'[t] = "wait" => pc[t] = "wait"
      BY <1>6
    <3>. QED
      BY <1>1, <3>1, InRequest DEF WaitInv
  <2>1. t # u /\ pc[t] = "wait"
    BY <1>6
  <2>2. current[d].from = t \/ \E i \in DOMAIN queue[d] : queue[d][i].from = t
    BY <2>1 DEF IInv, WaitInv
  <2>. QED
    BY <1>6, <2>1, <2>2 DEF u
<1>. QED
  BY <1>7, <1>8, <1>9, <1>10, <1>11, <1>12, <1>13 DEF IInv

(* A new request: the crate it names is registered and below the thread. *)
LEMMA AskStep ==
  ASSUME IInv, NEW t \in Threads, NEW r \in Requests, Ask(t, r),
         r.crate < t, r.crate <= added, t # VM => worker[t] \in {"new", "exec"}
  PROVE  IInv'
<1>1. /\ asks[t] > 0 /\ pc[t] = "idle"
      /\ asks' = [asks EXCEPT ![t] = @ - 1]
      /\ req' = [req EXCEPT ![t] = r]
      /\ pc' = [pc EXCEPT ![t] = "provider"]
      /\ got' = [got EXCEPT ![t] = NoAnswer]
      /\ UNCHANGED <<registry, workers, items, init, result>>
  BY DEF Ask
<1>2. /\ pc \in [Threads -> {"idle", "provider", "items", "wait", "take"}]
      /\ req \in [Threads -> Requests \cup {NoRequest}]
      /\ got \in [Threads -> Answers \cup {NoAnswer}]
      /\ asks \in [Threads -> Nat]
  BY DEF IInv, TypeOK
<1>3. /\ pc'[t] = "provider" /\ req'[t] = r
      /\ \A u \in Threads : u # t => pc'[u] = pc[u] /\ req'[u] = req[u]
  BY <1>1, <1>2
<1>4. TypeOK'
  <2>1. asks' \in [Threads -> Nat]
    <3>1. asks[t] - 1 \in Nat
      BY <1>1, <1>2
    <3>. QED
      BY <1>1, <1>2, <3>1
  <2>2. /\ pc' \in [Threads -> {"idle", "provider", "items", "wait", "take"}]
        /\ req' \in [Threads -> Requests \cup {NoRequest}]
        /\ got' \in [Threads -> Answers \cup {NoAnswer}]
    BY <1>1, <1>2
  <2>. QED
    BY <1>1, <2>1, <2>2 DEF IInv, TypeOK, registry, workers
<1>5. RegistryInv' /\ TablesInv'
  BY <1>1 DEF IInv, RegistryInv, TablesInv, registry, workers
<1>6. InitialiserInv'
  <2>1. init \in [Crates -> Threads \cup {Nobody}]
    BY DEF IInv, TypeOK
  <2>. QED
    BY <1>1, <1>3, <2>1 DEF IInv, InitialiserInv
<1>7. RequestInv'
  <2>. SUFFICES ASSUME NEW u \in Threads PROVE Request(u)'
    BY DEF RequestInv
  <2>1. Request(u)
    BY DEF IInv, RequestInv
  <2>. QED
    BY <1>1, <1>3, <2>1, Shapes DEF Request, Expected, registry, workers
<1>8. \A m \in Commands, c \in Crates : Awaited(m, c) => m.from # t /\ Awaited(m, c)'
  BY <1>1, <1>3, Shapes DEF Awaited, Expected
<1>9. QueueInv'
  <2>1. \A c \in Crates : queue[c] \in Seq(Commands)
    BY DEF IInv, TypeOK
  <2>2. \A c \in Crates : \A i \in DOMAIN queue[c] : queue[c][i] \in Commands
    BY <2>1, ElementOfSeq, LenProperties
  <2>. QED
    BY <1>1, <1>8, <2>2 DEF IInv, QueueInv, workers
<1>10. CurrentInv'
  <2>1. \A c \in Crates : current[c] \in Commands \cup {NoCommand}
    BY DEF IInv, TypeOK
  <2>. QED
    BY <1>1, <1>8, <2>1 DEF IInv, CurrentInv, workers
<1>11. WaitInv'
  BY <1>1, <1>3 DEF IInv, WaitInv, workers
<1>. QED
  BY <1>4, <1>5, <1>6, <1>7, <1>9, <1>10, <1>11 DEF IInv

(* The VM thread asks when every crate is registered. *)
LEMMA VMAskStep == ASSUME IInv, VMAsk PROVE IInv'
<1>1. PICK r \in Requests : Ask(VM, r)
  BY DEF VMAsk
<1>2. added = N
  BY DEF VMAsk, Registered
<1>3. r.crate \in 1 .. N
  BY Shapes DEF Crates
<1>4. r.crate < VM /\ r.crate <= added
  BY <1>2, <1>3, WorkerAssumption DEF VM
<1>. QED
  BY <1>1, <1>4, Shapes, AskStep

(* A worker asks about a crate below it, which was registered before. *)
LEMMA WorkerAskStep == ASSUME IInv, NEW c \in Crates, WorkerAsk(c) PROVE IInv'
<1>1. PICK d \in Crates : d < c /\ Ask(c, Lookup(d))
  BY DEF WorkerAsk
<1>2. worker[c] \in {"new", "exec"}
  BY DEF WorkerAsk
<1>3. c <= added \/ c = added + 1
  BY <1>2 DEF IInv, RegistryInv
<1>4. added \in Nat /\ c \in Nat /\ d \in Nat
  <2>1. added \in 0 .. N
    BY DEF IInv, TypeOK
  <2>. QED
    BY <2>1, WorkerAssumption DEF Crates
<1>5. d <= added
  BY <1>1, <1>3, <1>4
<1>6. Lookup(d).crate = d
  BY DEF Lookup
<1>. QED
  BY <1>1, <1>2, <1>5, <1>6, Shapes, AskStep

(* A step of one thread that is not waiting for a command, before or after:     *)
(* what the commands compute and who waits for it stays as it was.              *)
LEMMA Aside ==
  ASSUME IInv, NEW t \in Threads, pc[t] \notin {"wait"}, pc'[t] \notin {"wait"},
         UNCHANGED <<worker, queue, current, result>>,
         \A u \in Threads : u # t => pc'[u] = pc[u] /\ req'[u] = req[u],
         \A u \in Threads, c \in Crates : u # t => (init'[c] = u <=> init[c] = u)
  PROVE  QueueInv' /\ CurrentInv' /\ WaitInv'
<1>1. \A u \in Threads : pc[u] = "wait" => req[u].crate \in Crates
  BY InRequest
<1>2. \A m \in Commands, c \in Crates : Awaited(m, c) => m.from # t /\ Awaited(m, c)'
  BY <1>1, Shapes DEF Awaited, Expected
<1>3. QueueInv'
  <2>1. \A c \in Crates : queue[c] \in Seq(Commands)
    BY DEF IInv, TypeOK
  <2>2. \A c \in Crates : \A i \in DOMAIN queue[c] : queue[c][i] \in Commands
    BY <2>1, ElementOfSeq, LenProperties
  <2>. QED
    BY <1>2, <2>2 DEF IInv, QueueInv
<1>4. CurrentInv'
  <2>1. \A c \in Crates : current[c] \in Commands \cup {NoCommand}
    BY DEF IInv, TypeOK
  <2>. QED
    BY <1>2, <2>1 DEF IInv, CurrentInv
<1>5. WaitInv'
  BY DEF IInv, WaitInv
<1>. QED
  BY <1>3, <1>4, <1>5

(* The provider is found; a cache answers at once. *)
LEMMA GetProviderStep == ASSUME IInv, NEW t \in Threads, GetProvider(t) PROVE IInv'
<1>1. /\ pc[t] = "provider"
      /\ UNCHANGED <<registry, workers, items, init, result, asks>>
      /\ \/ Answered(t, AnswerTo(req[t]))
         \/ req[t].crate \notin cached /\ pc' = [pc EXCEPT ![t] = "items"] /\ UNCHANGED <<req, got>>
  BY DEF GetProvider
<1>2. /\ pc \in [Threads -> {"idle", "provider", "items", "wait", "take"}]
      /\ req \in [Threads -> Requests \cup {NoRequest}]
      /\ got \in [Threads -> Answers \cup {NoAnswer}]
      /\ init \in [Crates -> Threads \cup {Nobody}]
  BY DEF IInv, TypeOK
<1>3. req[t] \in Requests /\ AnswerTo(req[t]) \in Answers
  BY <1>1, InRequest, Shapes
<1>4. /\ \/ pc'[t] = "idle" /\ req'[t] = NoRequest
         \/ pc'[t] = "items" /\ req'[t] = req[t] /\ req[t].crate \notin cached
      /\ \A u \in Threads : u # t => pc'[u] = pc[u] /\ req'[u] = req[u]
  <2>1. CASE Answered(t, AnswerTo(req[t]))
    BY <1>2, <2>1 DEF Answered
  <2>2. CASE req[t].crate \notin cached /\ pc' = [pc EXCEPT ![t] = "items"] /\ UNCHANGED <<req, got>>
    BY <1>2, <2>2
  <2>. QED
    BY <1>1, <2>1, <2>2
<1>5. TypeOK'
  <2>1. /\ pc' \in [Threads -> {"idle", "provider", "items", "wait", "take"}]
        /\ req' \in [Threads -> Requests \cup {NoRequest}]
        /\ got' \in [Threads -> Answers \cup {NoAnswer}]
    <3>1. CASE Answered(t, AnswerTo(req[t]))
      BY <1>2, <1>3, <3>1 DEF Answered
    <3>2. CASE pc' = [pc EXCEPT ![t] = "items"] /\ UNCHANGED <<req, got>>
      BY <1>2, <3>2
    <3>. QED
      BY <1>1, <3>1, <3>2
  <2>. QED
    BY <1>1, <2>1 DEF IInv, TypeOK, registry, workers
<1>6. RegistryInv' /\ TablesInv'
  BY <1>1 DEF IInv, RegistryInv, TablesInv, registry, workers
<1>7. InitialiserInv'
  BY <1>1, <1>2, <1>4 DEF IInv, InitialiserInv
<1>8. RequestInv'
  <2>. SUFFICES ASSUME NEW u \in Threads PROVE Request(u)'
    BY DEF RequestInv
  <2>1. Request(u)
    BY DEF IInv, RequestInv
  <2>. QED
    BY <1>1, <1>3, <1>4, <2>1, Shapes DEF Request, Expected, registry, workers
<1>9. QueueInv' /\ CurrentInv' /\ WaitInv'
  BY <1>1, <1>4, Aside DEF workers
<1>. QED
  BY <1>5, <1>6, <1>7, <1>8, <1>9 DEF IInv

(* The initialiser has the table: items() returns it to every caller from now   *)
(* on.  Any other thread that was at the barrier has the answer it asked for.   *)
LEMMA TakeStep == ASSUME IInv, NEW t \in Threads, Take(t) PROVE IInv'
<1>. DEFINE c == req[t].crate
<1>1. /\ pc[t] = "take"
      /\ UNCHANGED <<registry, workers, result, asks>>
      /\ \/ /\ init[c] = t
            /\ items' = items \cup {c}
            /\ init' = [init EXCEPT ![c] = Nobody]
            /\ pc' = [pc EXCEPT ![t] = "items"]
            /\ UNCHANGED <<req, got>>
         \/ init[c] # t /\ Answered(t, result[t]) /\ UNCHANGED <<items, init>>
  BY DEF Take
<1>2. /\ pc \in [Threads -> {"idle", "provider", "items", "wait", "take"}]
      /\ req \in [Threads -> Requests \cup {NoRequest}]
      /\ result \in [Threads -> Answers \cup {NoAnswer}]
      /\ got \in [Threads -> Answers \cup {NoAnswer}]
      /\ init \in [Crates -> Threads \cup {Nobody}]
      /\ items \subseteq Crates
  BY DEF IInv, TypeOK
<1>3. req[t] \in Requests /\ c \in Crates /\ req[t].op \in {"lookup", "ir"}
  BY <1>1, InRequest
<1>4. c \notin cached /\ worker[c] \notin {"none", "new"}
  BY <1>1 DEF IInv, RequestInv, Request
<1>. HIDE DEF c
<1>5. CASE /\ init[c] = t
           /\ items' = items \cup {c}
           /\ init' = [init EXCEPT ![c] = Nobody]
           /\ pc' = [pc EXCEPT ![t] = "items"]
           /\ UNCHANGED <<req, got>>
  <2>1. /\ pc'[t] = "items" /\ init'[c] = Nobody
        /\ \A u \in Threads : u # t => pc'[u] = pc[u]
        /\ \A d \in Crates : d # c => init'[d] = init[d]
    BY <1>2, <1>3, <1>5
  <2>2. TypeOK'
    BY <1>1, <1>2, <1>3, <1>5 DEF IInv, TypeOK, registry, workers
  <2>3. RegistryInv' /\ TablesInv'
    BY <1>1, <1>4, <1>5 DEF IInv, RegistryInv, TablesInv, registry, workers
  <2>4. InitialiserInv'
    BY <1>2, <1>5, <2>1 DEF IInv, InitialiserInv, c
  <2>6. \A u \in Threads, d \in Crates : u # t => (init'[d] = u <=> init[d] = u)
    BY <1>5, <2>1, Shapes
  <2>5. RequestInv'
    <3>. SUFFICES ASSUME NEW u \in Threads PROVE Request(u)'
      BY DEF RequestInv
    <3>1. Request(u)
      BY DEF IInv, RequestInv
    <3>2. pc[u] # "idle" => req[u].crate \in Crates
      BY InRequest
    <3>3. CASE u = t
      BY <1>1, <1>4, <1>5, <2>1, <3>1, <3>3 DEF Request, Expected, registry, workers, c
    <3>4. CASE u # t
      <4>1. pc[u] # "idle" => Expected(u)' = Expected(u)
        BY <1>5, <2>6, <3>2, <3>4 DEF Expected
      <4>. QED
        BY <1>1, <1>5, <2>1, <2>6, <3>1, <3>2, <3>4, <4>1 DEF Request, registry, workers
    <3>. QED
      BY <3>3, <3>4
  <2>7. QueueInv' /\ CurrentInv' /\ WaitInv'
    BY <1>1, <1>5, <2>1, <2>6, Aside DEF workers
  <2>. QED
    BY <2>2, <2>3, <2>4, <2>5, <2>7 DEF IInv
<1>6. CASE init[c] # t /\ Answered(t, result[t]) /\ UNCHANGED <<items, init>>
  <2>1. /\ pc'[t] = "idle" /\ req'[t] = NoRequest
        /\ \A u \in Threads : u # t => pc'[u] = pc[u] /\ req'[u] = req[u]
    BY <1>2, <1>6 DEF Answered
  <2>2. TypeOK'
    BY <1>1, <1>2, <1>6 DEF IInv, TypeOK, registry, workers, Answered
  <2>3. RegistryInv' /\ TablesInv'
    BY <1>1, <1>6 DEF IInv, RegistryInv, TablesInv, registry, workers
  <2>4. InitialiserInv'
    BY <1>2, <1>6, <2>1 DEF IInv, InitialiserInv, c
  <2>5. RequestInv'
    <3>. SUFFICES ASSUME NEW u \in Threads PROVE Request(u)'
      BY DEF RequestInv
    <3>1. Request(u)
      BY DEF IInv, RequestInv
    <3>. QED
      BY <1>1, <1>6, <2>1, <3>1, Shapes DEF Request, Expected, registry, workers
  <2>6. QueueInv' /\ CurrentInv' /\ WaitInv'
    BY <1>1, <1>6, <2>1, Aside DEF workers
  <2>. QED
    BY <2>2, <2>3, <2>4, <2>5, <2>6 DEF IInv
<1>. QED
  BY <1>1, <1>5, <1>6

(* A thread that holds the table, or waits for the thread that fetches it, puts *)
(* its command at the end of the channel and waits.                             *)
LEMMA SendStep ==
  ASSUME IInv, NEW t \in Threads, pc[t] = "items",
         NEW c \in Crates, c = req[t].crate, NEW answer \in Answers, Send(t, answer),
         \/ init' = init /\ c \in items /\ req[t].op = "ir" /\ answer = AnswerTo(req[t])
         \/ init' = [init EXCEPT ![c] = t] /\ init[c] = Nobody /\ c \notin items /\ answer = Table(c),
         UNCHANGED <<registry, worker, adts, current, items, req, got, asks>>
  PROVE  IInv'
<1>1. /\ queue' = [queue EXCEPT ![c] = Append(@, Command(t, answer))]
      /\ result' = [result EXCEPT ![t] = NoAnswer]
      /\ pc' = [pc EXCEPT ![t] = "wait"]
  BY DEF Send
<1>2. /\ pc \in [Threads -> {"idle", "provider", "items", "wait", "take"}]
      /\ queue \in [Crates -> Seq(Commands)]
      /\ result \in [Threads -> Answers \cup {NoAnswer}]
      /\ init \in [Crates -> Threads \cup {Nobody}]
      /\ current \in [Crates -> Commands \cup {NoCommand}]
  BY DEF IInv, TypeOK
<1>3. PICK q \in Seq(Commands) : q = queue[c]
  BY <1>2
<1>4. PICK m \in Commands : m = Command(t, answer) /\ m.from = t /\ m.answer = answer
  BY Shapes
<1>5. /\ Append(q, m) \in Seq(Commands)
      /\ DOMAIN Append(q, m) = DOMAIN q \cup {Len(q) + 1} /\ Len(q) + 1 \notin DOMAIN q
      /\ Append(q, m)[Len(q) + 1] = m
      /\ \A i \in DOMAIN q : Append(q, m)[i] = q[i] /\ q[i] \in Commands
  BY AppendProperties, LenProperties, ElementOfSeq
<1>6. /\ pc'[t] = "wait" /\ queue'[c] = Append(q, m)
      /\ \A u \in Threads : u # t => pc'[u] = pc[u] /\ result'[u] = result[u]
      /\ \A d \in Crates : d # c => queue'[d] = queue[d]
  BY <1>1, <1>2, <1>3, <1>4
<1>7. /\ Expected(t)' = answer
      /\ \A u \in Threads, d \in Crates : u # t => (init'[d] = u <=> init[d] = u)
  <2>1. init[c] # t
    BY Shapes DEF IInv, InitialiserInv
  <2>. QED
    BY <1>2, <2>1, Shapes DEF Expected
<1>8. TypeOK'
  <2>1. /\ queue' \in [Crates -> Seq(Commands)]
        /\ pc' \in [Threads -> {"idle", "provider", "items", "wait", "take"}]
    BY <1>1, <1>2, <1>3, <1>4, <1>5
  <2>2. /\ result' \in [Threads -> Answers \cup {NoAnswer}]
        /\ init' \in [Crates -> Threads \cup {Nobody}]
    BY <1>1, <1>2
  <2>. QED
    BY <2>1, <2>2 DEF IInv, TypeOK, registry
<1>9. RegistryInv' /\ TablesInv'
  BY DEF IInv, RegistryInv, TablesInv, registry
<1>10. InitialiserInv'
  <2>. SUFFICES ASSUME NEW d \in Crates, init'[d] # Nobody
                PROVE  d \notin items /\ pc'[init'[d]] \in {"wait", "take"} /\ req[init'[d]].crate = d
    BY DEF InitialiserInv
  <2>1. CASE init'[d] = t
    BY <1>2, <1>6, <2>1, Shapes DEF IInv, InitialiserInv
  <2>2. CASE init'[d] # t
    <3>1. init[d] = init'[d] /\ init[d] \in Threads
      BY <1>2, <2>2
    <3>. QED
      BY <1>6, <2>2, <3>1 DEF IInv, InitialiserInv
  <2>. QED
    BY <2>1, <2>2
<1>11. RequestInv'
  <2>. SUFFICES ASSUME NEW u \in Threads PROVE Request(u)'
    BY DEF RequestInv
  <2>1. Request(u)
    BY DEF IInv, RequestInv
  <2>2. CASE u = t
    BY <1>2, <1>6, <2>1, <2>2 DEF Request, registry
  <2>3. CASE u # t
    <3>1. pc[u] # "idle" => req[u].crate \in Crates /\ (Expected(u)' = Expected(u))
      BY <1>7, <2>3, InRequest DEF Expected
    <3>. QED
      BY <1>6, <1>7, <2>1, <2>3, <3>1 DEF Request, registry
  <2>. QED
    BY <2>2, <2>3
<1>12. \A n \in Commands, d \in Crates : Awaited(n, d) => n.from # t /\ Awaited(n, d)'
  BY <1>6, <1>7, Shapes DEF Awaited, Expected
<1>13. Awaited(m, c)'
  BY <1>4, <1>6, <1>7 DEF Awaited
<1>14. \A d \in Crates : current[d].from # t
  <2>. SUFFICES ASSUME NEW d \in Crates PROVE current[d].from # t
    OBVIOUS
  <2>1. current[d] # NoCommand => Awaited(current[d], d)
    BY DEF IInv, CurrentInv
  <2>. QED
    BY <1>2, <1>12, <2>1, Shapes
<1>15. QueueInv'
  <2>. SUFFICES ASSUME NEW d \in Crates
                PROVE  /\ \A i \in DOMAIN queue'[d] : Awaited(queue[d][i], d)' /\ queue'[d][i].from # current[d].from
                       /\ \A i, j \in DOMAIN queue'[d] : queue'[d][i].from = queue'[d][j].from => i = j
    BY DEF QueueInv, Awaited, Expected
  <2>1. /\ \A i \in DOMAIN queue[d] : Awaited(queue[d][i], d) /\ queue[d][i].from # current[d].from
        /\ \A i, j \in DOMAIN queue[d] : queue[d][i].from = queue[d][j].from => i = j
    BY DEF IInv, QueueInv
  <2>2. CASE d # c
    <3>1. \A i \in DOMAIN queue[d] : queue[d][i] \in Commands
      BY <1>2, ElementOfSeq, LenProperties
    <3>. QED
      BY <1>6, <1>12, <2>1, <2>2, <3>1
  <2>3. CASE d = c
    <3>1. \A i \in DOMAIN q : Awaited(q[i], c)' /\ q[i].from # t
      BY <1>3, <1>5, <1>12, <2>1, <2>3
    <3>2. \A i \in DOMAIN Append(q, m) : Awaited(Append(q, m)[i], c)'
      BY <1>5, <1>13, <3>1
    <3>3. \A i \in DOMAIN Append(q, m) : Append(q, m)[i].from # current[c].from
      <4>1. \A i \in DOMAIN q : q[i].from # current[c].from
        BY <1>3, <2>1, <2>3
      <4>2. t # current[c].from
        BY <1>14
      <4>. QED
        BY <1>4, <1>5, <4>1, <4>2
    <3>4. \A i, j \in DOMAIN Append(q, m) : Append(q, m)[i].from = Append(q, m)[j].from => i = j
      <4>1. \A i \in DOMAIN q : Append(q, m)[i].from = q[i].from /\ q[i].from # t
        BY <1>5, <3>1
      <4>2. \A i, j \in DOMAIN q : q[i].from = q[j].from => i = j
        BY <1>3, <2>1, <2>3
      <4>3. Append(q, m)[Len(q) + 1].from = t
        BY <1>4, <1>5
      <4>. QED
        BY <1>5, <4>1, <4>2, <4>3
    <3>5. queue'[d] = Append(q, m)
      BY <1>6, <2>3
    <3>6. \A i \in DOMAIN queue'[d] : Awaited(queue[d][i], d)'
      BY <2>3, <3>2, <3>5 DEF Awaited, Expected
    <3>. QED
      BY <2>3, <3>3, <3>4, <3>5, <3>6
  <2>. QED
    BY <2>2, <2>3
<1>16. CurrentInv'
  <2>1. \A d \in Crates : current[d] # NoCommand => current[d].from # t /\ current[d].from \in Threads
    BY <1>2, <1>14, Shapes
  <2>. QED
    BY <1>2, <1>6, <1>12, <2>1 DEF IInv, CurrentInv
<1>17. WaitInv'
  <2>. SUFFICES ASSUME NEW u \in Threads, pc'[u] = "wait", NEW d \in Crates, d = req[u].crate
                PROVE  current[d].from = u \/ \E i \in DOMAIN queue'[d] : queue'[d][i].from = u
    <3>1. \A u \in Threads : pc'[u] = "wait" => req[u].crate \in Crates
      BY <1>6, InRequest
    <3>. QED
      BY <3>1 DEF WaitInv
  <2>1. CASE u = t
    BY <1>4, <1>5, <1>6, <2>1
  <2>2. CASE u # t
    <3>1. current[d].from = u \/ \E i \in DOMAIN queue[d] : queue[d][i].from = u
      BY <1>6, <2>2 DEF IInv, WaitInv
    <3>. QED
      <4>1. CASE d = c
        BY SMTT(30), <1>3, <1>5, <1>6, <3>1, <4>1
      <4>2. CASE d # c
        BY <1>6, <3>1, <4>2
      <4>. QED
        BY <4>1, <4>2
  <2>. QED
    BY <2>1, <2>2
<1>. QED
  BY <1>8, <1>9, <1>10, <1>11, <1>15, <1>16, <1>17 DEF IInv

(* The first caller of items() sends the command that clones the table. *)
LEMMA InitItemsStep == ASSUME IInv, NEW t \in Threads, InitItems(t) PROVE IInv'
<1>1. PICK c \in Crates : c = req[t].crate
  BY InRequest DEF InitItems
<1>2. /\ pc[t] = "items" /\ c \notin items /\ init[c] = Nobody
      /\ init' = [init EXCEPT ![c] = t] /\ Send(t, Table(c))
      /\ UNCHANGED <<registry, worker, adts, current, items, req, got, asks>>
  BY <1>1 DEF InitItems
<1>. QED
  BY <1>1, <1>2, Shapes, SendStep

(* A lookup ends with the table; build_ir sends its command. *)
LEMMA UseItemsStep == ASSUME IInv, NEW t \in Threads, UseItems(t) PROVE IInv'
<1>1. PICK c \in Crates : c = req[t].crate
  BY InRequest DEF UseItems
<1>2. req[t] \in Requests /\ req[t].op \in {"lookup", "ir"}
  BY InRequest DEF UseItems
<1>3. /\ pc[t] = "items" /\ c \in items
      /\ UNCHANGED <<registry, worker, adts, current, items, init, asks>>
  BY <1>1 DEF UseItems
<1>4. CASE req[t].op = "ir" /\ Send(t, AnswerTo(req[t])) /\ UNCHANGED <<req, got>>
  <2>1. AnswerTo(req[t]) \in Answers
    BY <1>2, Shapes
  <2>2. /\ init' = init /\ UNCHANGED <<registry, worker, adts, current, items, req, got, asks>>
    BY <1>3, <1>4
  <2>. QED
    BY <1>1, <1>3, <1>4, <2>1, <2>2, SendStep
<1>5. CASE Answered(t, Table(c)) /\ UNCHANGED <<queue, result>>
  <2>1. /\ pc \in [Threads -> {"idle", "provider", "items", "wait", "take"}]
        /\ req \in [Threads -> Requests \cup {NoRequest}]
        /\ got \in [Threads -> Answers \cup {NoAnswer}]
        /\ init \in [Crates -> Threads \cup {Nobody}]
    BY DEF IInv, TypeOK
  <2>2. /\ pc'[t] = "idle" /\ req'[t] = NoRequest
        /\ \A u \in Threads : u # t => pc'[u] = pc[u] /\ req'[u] = req[u]
    BY <1>5, <2>1 DEF Answered
  <2>3. TypeOK'
    BY <1>3, <1>5, <2>1, Shapes DEF IInv, TypeOK, registry, Answered
  <2>4. RegistryInv' /\ TablesInv'
    BY <1>3 DEF IInv, RegistryInv, TablesInv, registry
  <2>5. InitialiserInv'
    BY <1>3, <2>1, <2>2 DEF IInv, InitialiserInv
  <2>6. RequestInv'
    <3>. SUFFICES ASSUME NEW u \in Threads PROVE Request(u)'
      BY DEF RequestInv
    <3>1. Request(u)
      BY DEF IInv, RequestInv
    <3>. QED
      BY <1>3, <1>5, <2>2, <3>1, Shapes DEF Request, Expected, registry
  <2>7. QueueInv' /\ CurrentInv' /\ WaitInv'
    BY <1>3, <1>5, <2>2, Aside
  <2>. QED
    BY <2>3, <2>4, <2>5, <2>6, <2>7 DEF IInv
<1>. QED
  BY <1>1, <1>2, <1>4, <1>5 DEF UseItems

(* Every step of every thread preserves the invariant. *)
LEMMA NextStep == IInv /\ [Next]_vars => IInv'
<1>. SUFFICES ASSUME IInv, [Next]_vars PROVE IInv'
  OBVIOUS
<1>1. CASE UNCHANGED vars
  <2>. USE <1>1 DEF vars, registry, workers, callers, IInv
  <2>1. TypeOK'
    BY DEF TypeOK
  <2>2. RegistryInv' /\ TablesInv'
    BY DEF RegistryInv, TablesInv
  <2>3. RequestInv'
    BY DEF RequestInv, Request, Expected
  <2>4. CurrentInv'
    BY DEF CurrentInv, Awaited, Expected
  <2>. QED
    BY <2>1, <2>2, <2>3, <2>4, Quiet
<1>2. CASE Register
  BY <1>2, BeginAddStep, AddCachedStep, SpawnStep, PushStep DEF Register
<1>3. CASE VMAsk
  BY <1>3, VMAskStep
<1>4. CASE Finish
  BY <1>4, ExitStep DEF Finish
<1>5. ASSUME NEW t \in Threads, Proceed(t) PROVE IInv'
  BY <1>5, GetProviderStep, InitItemsStep, UseItemsStep, TakeStep DEF Proceed
<1>6. ASSUME NEW c \in Crates, Serve(c) PROVE IInv'
  BY <1>6, FillAdtStep, StartStep, RecvStep, StoreStep, MeetStep DEF Serve
<1>7. ASSUME NEW c \in Crates, WorkerAsk(c) PROVE IInv'
  BY <1>7, WorkerAskStep
<1>8. ASSUME NEW c \in Crates, Panic(c) PROVE IInv'
  BY <1>8, ExitStep DEF Panic
<1>. QED
  BY <1>1, <1>2, <1>3, <1>4, <1>5, <1>6, <1>7, <1>8 DEF Next

(* The invariant holds in every state of the process. *)
LEMMA Invariant == Safe => []IInv
<1>1. Init => IInv
  BY InitStep
<1>2. IInv /\ [Next]_vars => IInv'
  BY NextStep
<1>. QED
  BY <1>1, <1>2, PTL DEF Safe

--------------------------------------------------------------------------------
(* Every variable keeps its type: crates are registered in order, no channel    *)
(* holds anything but a command.                                                *)
THEOREM TypeCorrect == Safe => []TypeOK
<1>1. IInv => TypeOK
  BY DEF IInv
<1>. QED
  BY <1>1, Invariant, PTL

(* crate_provider never indexes past the registered crates. *)
THEOREM LookupsInBounds == Safe => []LookupInBounds
<1>1. IInv => LookupInBounds
  <2>. SUFFICES ASSUME IInv, NEW t \in Threads, pc[t] = "provider" PROVE req[t].crate \in 1 .. added
    BY DEF LookupInBounds
  <2>1. req[t].crate \in Crates /\ req[t].crate <= added /\ added \in 0 .. N
    BY InRequest DEF IInv, TypeOK, RequestInv, Request
  <2>. QED
    BY <2>1, WorkerAssumption DEF Crates
<1>. QED
  BY <1>1, Invariant, PTL

(* WorkerResult::wait finds the value of the caller's own command. *)
THEOREM TakesOwnAnswer == Safe => []TakesItsAnswer
<1>1. IInv => TakesItsAnswer
  BY DEF IInv, RequestInv, Request, TakesItsAnswer
<1>. QED
  BY <1>1, Invariant, PTL

(* The command of a waiting thread is in exactly one place, and the waits-for   *)
(* relation goes downwards in the registration order: no two wait for each other. *)
THEOREM CallsNotLost == Safe => []NoLostCall
<1>1. IInv => NoLostCall
  <2>. SUFFICES ASSUME IInv, NEW t \in Threads, pc[t] = "wait", NEW c \in Crates, c = req[t].crate
                PROVE  /\ c < t /\ worker[c] # "none"
                       /\ IF current[c].from = t
                          THEN {i \in DOMAIN queue[c] : queue[c][i].from = t} = {}
                          ELSE \E i \in DOMAIN queue[c] :
                                 {j \in DOMAIN queue[c] : queue[c][j].from = t} = {i}
    BY InRequest DEF NoLostCall
  <2>1. c < t /\ worker[c] # "none"
    BY DEF IInv, RequestInv, Request, RegistryInv
  <2>2. /\ \A i \in DOMAIN queue[c] : queue[c][i].from # current[c].from
        /\ \A i, j \in DOMAIN queue[c] : queue[c][i].from = queue[c][j].from => i = j
        /\ current[c].from = t \/ \E i \in DOMAIN queue[c] : queue[c][i].from = t
    BY DEF IInv, QueueInv, WaitInv
  <2>. QED
    BY <2>1, <2>2
<1>. QED
  BY <1>1, Invariant, PTL

(* A table is only handed out when all the ADTs of the crate are filled. *)
THEOREM CompleteTables == Safe => []TablesComplete
<1>1. IInv => TablesComplete
  BY DEF IInv, TypeOK, TablesInv, TablesComplete
<1>. QED
  BY <1>1, Invariant, PTL

--------------------------------------------------------------------------------
(* The providers implement CrateProvider.                                       *)

(* The crates that can answer: caches, and workers that have started. *)
Ready == cached \cup {c \in Crates : worker[c] \notin {"none", "new"}}

(* An answer is given by a crate that is ready. *)
LEMMA AnswerRefines ==
  ASSUME IInv, NEW t \in Threads, req[t] \in Requests, req[t].crate \in Ready,
         Answered(t, AnswerTo(req[t])), UNCHANGED <<cached, worker>>
  PROVE  Promise!Answer
BY ZenonT(60), Shapes DEF Promise!Answer, Answered, Ready

(* The steps that change neither who is ready nor a request nor an answer. *)
LEMMA Stutter ==
  ASSUME UNCHANGED <<cached, req, got>>,
         \A c \in Crates : worker'[c] \in {"none", "new"} <=> worker[c] \in {"none", "new"}
  PROVE  UNCHANGED <<Ready, req, got>>
BY DEF Ready

(* Every step of the threads is a step of CrateProvider or changes nothing there. *)
LEMMA StepRefines ==
  IInv /\ [Next]_vars => [Promise!Next]_<<Ready, req, got>>
<1>. SUFFICES ASSUME IInv, [Next]_vars PROVE Promise!Next \/ UNCHANGED <<Ready, req, got>>
  OBVIOUS
<1>1. worker \in [Crates -> {"none", "new", "recv", "exec", "wait"}]
  BY DEF IInv, TypeOK
<1>2. CASE UNCHANGED vars
  BY <1>2 DEF vars, registry, workers, callers, Ready
<1>3. CASE BeginAdd \/ Push \/ Finish
  BY <1>3 DEF BeginAdd, Push, Finish, Exit, workers, callers, Ready
<1>4. CASE AddCached
  BY <1>4, Adding DEF AddCached, workers, callers, Promise!Next, Promise!Complete
<1>5. CASE Spawn
  <2>1. added + 1 \in Crates
    BY <1>5, Adding DEF Spawn
  <2>. QED
    BY <1>1, <1>5, <2>1, Stutter DEF Spawn, registry, callers
<1>6. ASSUME NEW t \in Threads, NEW r \in Requests, Ask(t, r) PROVE Promise!Ask
  <2>1. req[t] = NoRequest
    BY <1>6 DEF Ask, IInv, RequestInv, Request
  <2>. QED
    BY <1>6, <2>1 DEF Ask, registry, workers, Promise!Ask
<1>7. CASE VMAsk
  BY <1>6, <1>7, Shapes DEF VMAsk, Promise!Next
<1>8. ASSUME NEW c \in Crates, WorkerAsk(c) PROVE Promise!Next
  BY <1>6, <1>8, Shapes DEF WorkerAsk, Promise!Next
<1>9. ASSUME NEW t \in Threads, GetProvider(t) PROVE Promise!Next \/ UNCHANGED <<Ready, req, got>>
  <2>1. req[t] \in Requests
    BY <1>9, InRequest DEF GetProvider
  <2>2. CASE req[t].crate \in cached
    BY <1>9, <2>1, <2>2, AnswerRefines DEF GetProvider, Ready, registry, workers, Promise!Next
  <2>3. CASE req[t].crate \notin cached
    BY <1>9, <2>3 DEF GetProvider, Ready, registry, workers
  <2>. QED
    BY <2>2, <2>3
<1>10. ASSUME NEW t \in Threads, InitItems(t) PROVE UNCHANGED <<Ready, req, got>>
  BY <1>10 DEF InitItems, Ready, registry
<1>11. ASSUME NEW t \in Threads, UseItems(t) PROVE Promise!Next \/ UNCHANGED <<Ready, req, got>>
  <2>1. req[t] \in Requests
    BY <1>11, InRequest DEF UseItems
  <2>2. CASE req[t].op = "lookup"
    <3>1. AnswerTo(req[t]) = Table(req[t].crate)
      BY <2>1, <2>2, Shapes
    <3>2. req[t].crate \in Ready
      BY <1>11 DEF UseItems, IInv, TypeOK, TablesInv, Ready
    <3>. QED
      BY <1>11, <2>1, <2>2, <3>1, <3>2, AnswerRefines DEF UseItems, registry, Promise!Next
  <2>3. CASE req[t].op # "lookup"
    BY <1>11, <2>3 DEF UseItems, Ready, registry
  <2>. QED
    BY <2>2, <2>3
<1>12. ASSUME NEW t \in Threads, Take(t) PROVE Promise!Next \/ UNCHANGED <<Ready, req, got>>
  <2>1. req[t] \in Requests /\ req[t].crate \in Crates
    BY <1>12, InRequest DEF Take
  <2>2. CASE init[req[t].crate] = t
    BY <1>12, <2>2 DEF Take, Ready, registry, workers
  <2>3. CASE init[req[t].crate] # t
    <3>1. result[t] = AnswerTo(req[t]) /\ req[t].crate \in Ready
      BY <1>12, <2>1, <2>3 DEF Take, IInv, RequestInv, Request, Expected, Ready
    <3>. QED
      BY <1>12, <2>1, <2>3, <3>1, AnswerRefines DEF Take, registry, workers, Promise!Next
  <2>. QED
    BY <2>2, <2>3
<1>13. ASSUME NEW c \in Crates, FillAdt(c) \/ Panic(c) PROVE UNCHANGED <<Ready, req, got>>
  BY <1>13 DEF FillAdt, Panic, Exit, Ready, registry, workers, callers
<1>14. ASSUME NEW c \in Crates, Start(c) PROVE Promise!Next \/ UNCHANGED <<Ready, req, got>>
  <2>1. CASE worker' = [worker EXCEPT ![c] = "recv"] /\ UNCHANGED registry
    <3>1. Ready' = Ready \cup {c}
      BY <1>1, <2>1 DEF Ready, registry
    <3>. QED
      BY <1>14, <3>1 DEF Start, callers, Ready, Promise!Next, Promise!Complete
  <2>2. CASE Exit("saved") /\ UNCHANGED worker
    BY <1>14, <2>2 DEF Start, Exit, Ready, callers
  <2>. QED
    BY <1>14, <2>1, <2>2 DEF Start
<1>15. ASSUME NEW c \in Crates, Recv(c) \/ Store(c) \/ Meet(c) PROVE UNCHANGED <<Ready, req, got>>
  <2>1. \A d \in Crates : worker'[d] \in {"none", "new"} <=> worker[d] \in {"none", "new"}
    BY <1>1, <1>15 DEF Recv, Store, Meet
  <2>. QED
    BY <1>15, <2>1, Stutter DEF Recv, Store, Meet, registry
<1>16. CASE Next
  BY <1>3, <1>4, <1>5, <1>7, <1>8, <1>9, <1>10, <1>11, <1>12, <1>13, <1>14, <1>15, <1>16
     DEF Next, Register, Proceed, Serve
<1>. QED
  BY <1>2, <1>16

(* Each request is answered once, from a complete crate, with what was asked    *)
(* for: the threads, channels and barriers implement the CrateProvider trait.   *)
THEOREM ProvidersImplementTrait == Safe => ProviderSpec
<1>1. Init => Promise!Init
  BY WorkerAssumption DEF Init, Promise!Init
<1>2. IInv /\ [Next]_vars => [Promise!Next]_<<cached \cup {c \in Crates : worker[c] \notin {"none", "new"}}, req, got>>
  BY StepRefines DEF Ready
<1>. QED
  BY <1>1, <1>2, Invariant, PTL DEF Safe, ProviderSpec, Promise!Spec
================================================================================
