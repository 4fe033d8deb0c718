------------------------------- MODULE CrateCache ------------------------------
(* The cache files of crates: processes that save them, processes that load     *)
(* crates from them or compile the source instead, users who edit the source    *)
(* meanwhile, and processes that are killed half way (cache_provider.rs,        *)
(* persist_header.rs, rustc_worker.rs, main.rs).  A file is two parts: the head *)
(* with the version of the source files, and the tail with the crate's items,   *)
(* impls and types.  A version of the source is a number that grows with every  *)
(* edit: two edits never leave the same size and time of modification.          *)
EXTENDS Integers

CONSTANTS
  Users,        \* crates given by the path of their source file
  Core, Alloc,  \* the crates given as @core and @alloc
  Processes,
  Tasks,        \* what each may be started with: a crate, and whether to --save
  Saved,        \* crates whose cache has been saved before
  MaxVersion,   \* bound: how often the source of each crate is edited
  None,         \* a file that does not exist, a crate that is not loaded
  Blank,        \* what has been truncated and not yet been written
  NoFiles       \* the head of an internal crate's file

Internal == {Core, Alloc}
Crates == Users \cup Internal
Markers == {None, Blank, NoFiles}

ASSUME CacheAssumption ==
  /\ Users \cap Internal = {} /\ Core # Alloc
  /\ None # Blank /\ None # NoFiles /\ Blank # NoFiles
  /\ Markers \cap Nat = {}
  /\ Tasks \in [Processes -> SUBSET (Crates \X BOOLEAN)]
  /\ Saved \subseteq Crates
  /\ MaxVersion \in [Crates -> Nat]

VARIABLES
  source,    \* the version of every crate's source
  disk,      \* the cache file of every crate: [head, tail]
  process,
  disturbed  \* history: crates that were edited while a save had parsed them
             \* and not yet looked at the files, or whose file was truncated
             \* under another process that was writing or reading it

vars == <<source, disk, process, disturbed>>

Stamped(c, version) == IF c \in Internal THEN NoFiles ELSE version

File(c) ==
  IF c \in Saved THEN [head |-> Stamped(c, 0), tail |-> 0] ELSE [head |-> None, tail |-> None]

(* step: what main does with its crate: "read" the file, read its "rest",       *)
(* "validate" it; or it "runs", when all are registered.  saving: what the      *)
(* worker of a process with --save does after it has parsed the crate.          *)
Idle ==
  [step |-> "idle", target |-> Core, save |-> FALSE, crate |-> Core, head |-> None, tail |-> None,
   parsing |-> {}, code |-> [c \in Crates |-> None], began |-> [c \in Crates |-> 0],
   saving |-> "no", stamp |-> None]

Init ==
  /\ source = [c \in Crates |-> 0]
  /\ disk = [c \in Crates |-> File(c)]
  /\ process = [p \in Processes |-> Idle]
  /\ disturbed = {}

--------------------------------------------------------------------------------

(* core and alloc are loaded before the crate itself. *)
Following(crate, target) == IF crate = Core THEN Alloc ELSE target

Registered(r) ==
  [r EXCEPT !.head = None, !.tail = None,
            !.step = IF r.crate = r.target THEN "runs" ELSE "read",
            !.crate = IF r.crate = r.target THEN r.crate ELSE Following(r.crate, r.target)]

(* RustCWorker::new: a thread of its own parses the crate. *)
Compiled(r) == [Registered(r) EXCEPT !.parsing = @ \cup {r.crate}]

Becomes(p, r) == process' = [process EXCEPT ![p] = r]

Start(p) ==
  /\ process[p].step = "idle"
  /\ \E task \in Tasks[p] :
       Becomes(p, [Idle EXCEPT !.step = "read", !.target = task[1], !.save = task[2],
                               !.began = source])
  /\ UNCHANGED <<source, disk, disturbed>>

(* The process is killed, panics or ends: what it did not write is lost.        *)
End(p) ==
  /\ process[p].step # "idle"
  /\ Becomes(p, Idle)
  /\ UNCHANGED <<source, disk, disturbed>>

(* A crate that is to be saved is never read from its cache. *)
Saves(r) == r.save /\ r.crate = r.target

Reads(p) == process[p].step = "read" /\ ~Saves(process[p])

ReadHead(p) ==
  LET r == process[p] IN
  /\ Reads(p)
  /\ disk[r.crate].head \notin {None, Blank}
  /\ Becomes(p, [r EXCEPT !.step = "rest", !.head = disk[r.crate].head])
  /\ UNCHANGED <<source, disk, disturbed>>

(* The file cannot be opened, or does not begin with MAGIC: fall back to rustc. *)
ReadNothing(p) ==
  LET r == process[p] IN
  /\ Reads(p)
  /\ \/ disk[r.crate].head = None
     \/ disk[r.crate].head = Blank /\ disk[r.crate].tail # Blank
  /\ Becomes(p, Compiled(r))
  /\ UNCHANGED <<source, disk, disturbed>>

(* A file that ends too soon is read past its end: that panics. *)
ReadPastEnd(p) ==
  LET file == disk[process[p].crate] IN
  /\ \/ Reads(p) /\ file.head = Blank /\ file.tail = Blank
     \/ process[p].step = "rest" /\ file.tail = Blank
  /\ Becomes(p, Idle)
  /\ UNCHANGED <<source, disk, disturbed>>

ReadTail(p) ==
  LET r == process[p] IN
  /\ r.step = "rest"
  /\ disk[r.crate].tail # Blank
  /\ Becomes(p, [r EXCEPT !.step = "validate", !.tail = disk[r.crate].tail])
  /\ UNCHANGED <<source, disk, disturbed>>

(* PersistCrateHeader::validate: no file is another than when it was saved.     *)
Valid(head, version) == head = NoFiles \/ head = version

UseCache(p) ==
  LET r == process[p] IN
  /\ r.step = "validate"
  /\ Valid(r.head, source[r.crate])
  /\ Becomes(p, [Registered(r) EXCEPT !.code[r.crate] = r.tail])
  /\ UNCHANGED <<source, disk, disturbed>>

Compile(p) ==
  LET r == process[p] IN
  /\ \/ r.step = "validate" /\ ~Valid(r.head, source[r.crate])
     \/ r.step = "read" /\ Saves(r)
  /\ Becomes(p, Compiled(r))
  /\ UNCHANGED <<source, disk, disturbed>>

(* The worker's rustc reads the source files, whenever it comes to them. *)
Parse(p) ==
  /\ \E c \in process[p].parsing :
       Becomes(p, [process[p] EXCEPT !.parsing = @ \ {c}, !.code[c] = source[c],
                                     !.saving = IF process[p].save /\ c = process[p].target
                                                THEN "parsed" ELSE @])
  /\ UNCHANGED <<source, disk, disturbed>>

--------------------------------------------------------------------------------
(* Saving. *)

(* PersistCrateHeader::from_rustc looks at the files when all IR has been made; *)
(* those of an internal crate are not written.                                  *)
Stamp(p) ==
  LET r == process[p] IN
  /\ r.saving = "parsed"
  /\ Becomes(p, [r EXCEPT !.saving = "stamped",
                          !.stamp = Stamped(r.target, source[r.target])])
  /\ UNCHANGED <<source, disk, disturbed>>

Writing(q, c) == process[q].saving \in {"opened", "halfway"} /\ process[q].target = c
Reading(q, c) == process[q].step = "rest" /\ process[q].crate = c

(* Mutant: the file is not truncated. *)
OpenInPlace(p) ==
  LET r == process[p] IN
  /\ r.saving = "stamped"
  /\ Becomes(p, [r EXCEPT !.saving = "opened"])
  /\ disturbed' = IF \E q \in Processes : Writing(q, r.target) \/ Reading(q, r.target)
                  THEN disturbed \cup {r.target} ELSE disturbed
  /\ UNCHANGED <<source, disk>>

(* fs::write truncates the file, and writes it from its beginning on. *)
Open(p) ==
  LET r == process[p] IN
  /\ r.saving = "stamped"
  /\ Becomes(p, [r EXCEPT !.saving = "opened"])
  /\ disk' = [disk EXCEPT ![r.target] = [head |-> Blank, tail |-> Blank]]
  /\ disturbed' = IF \E q \in Processes : Writing(q, r.target) \/ Reading(q, r.target)
                  THEN disturbed \cup {r.target} ELSE disturbed
  /\ UNCHANGED source

WriteHead(p) ==
  LET r == process[p] IN
  /\ r.saving = "opened"
  /\ Becomes(p, [r EXCEPT !.saving = "halfway"])
  /\ disk' = [disk EXCEPT ![r.target].head = r.stamp]
  /\ UNCHANGED <<source, disturbed>>

(* The process ends when the file is written. *)
WriteTail(p) ==
  LET r == process[p] IN
  /\ r.saving = "halfway"
  /\ Becomes(p, Idle)
  /\ disk' = [disk EXCEPT ![r.target].tail = r.code[r.target]]
  /\ UNCHANGED <<source, disturbed>>

Edit(c) ==
  /\ source[c] < MaxVersion[c]
  /\ source' = [source EXCEPT ![c] = @ + 1]
  /\ disturbed' = IF \E p \in Processes : process[p].saving = "parsed" /\ process[p].target = c
                  THEN disturbed \cup {c} ELSE disturbed
  /\ UNCHANGED <<disk, process>>

Step(p) ==
  \/ Start(p) \/ End(p)
  \/ ReadHead(p) \/ ReadNothing(p) \/ ReadPastEnd(p) \/ ReadTail(p) \/ UseCache(p)
  \/ Compile(p) \/ Parse(p)
  \/ Stamp(p) \/ Open(p) \/ WriteHead(p) \/ WriteTail(p)

Next == (\E p \in Processes : Step(p)) \/ (\E c \in Crates : Edit(c))

Spec == Init /\ [][Next]_vars

--------------------------------------------------------------------------------

(* A process runs a crate of the user's as its source was at some moment since  *)
(* the process began, whether it loads a cache or compiles, whoever edits,      *)
(* saves or is killed: unless the source was edited between the moments when a  *)
(* save parsed it and looked at its files, or a save truncated the file while   *)
(* another process wrote or read it.                                            *)
RunsRecentSource ==
  \A p \in Processes : \A c \in Users \ disturbed :
    LET version == process[p].code[c] IN
    version # None => process[p].began[c] <= version /\ version <= source[c]
================================================================================
