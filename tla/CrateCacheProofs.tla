---------------------------- MODULE CrateCacheProofs ---------------------------
(* That processes run recent source whatever they save, load and edit, for any  *)
(* number of processes, crates and edits.                                       *)
EXTENDS CrateCache, TLAPS

Steps == {"idle", "read", "rest", "validate", "runs"}
Saving == {"no", "parsed", "stamped", "opened", "halfway"}

Process ==
  [step : Steps, target : Crates, save : BOOLEAN, crate : Crates,
   head : Nat \cup Markers, tail : Nat \cup {None}, parsing : SUBSET Crates,
   code : [Crates -> Nat \cup {None}], began : [Crates -> Nat],
   saving : Saving, stamp : Nat \cup {None, NoFiles}]

CacheFile == [head : Nat \cup Markers, tail : Nat \cup {None, Blank}]

(* A crate is parsed after it is registered, and saved after it is parsed.      *)
Phased(r) ==
  /\ r.target \in r.parsing => r.step = "runs"
  /\ r.saving # "no" => r.step = "runs" /\ r.target \notin r.parsing
  /\ r.step = "idle" => r = Idle

Types ==
  /\ source \in [Crates -> Nat]
  /\ disk \in [Crates -> CacheFile]
  /\ process \in [Processes -> Process]
  /\ disturbed \in SUBSET Crates
  /\ \A p \in Processes : Phased(process[p])

(* The two parts of a whole file are of one version. *)
Whole(file) ==
  /\ file.tail \in Nat => file.head = file.tail
  /\ file.tail = None => file.head = None

(* What a process knows of crate c agrees with c's file and source. *)
Writes(r, c) == r.saving \in {"opened", "halfway"} /\ r.target = c

Saver(r, c, file, version) ==
  /\ r.saving = "parsed" /\ r.target = c => r.code[c] = version
  /\ r.saving \in {"stamped", "opened", "halfway"} /\ r.target = c =>
       r.code[c] \in Nat /\ r.stamp = r.code[c]
  /\ r.saving = "opened" /\ r.target = c => file.head = Blank /\ file.tail = Blank
  /\ r.saving = "halfway" /\ r.target = c => file.head = r.stamp /\ file.tail = Blank

Reader(r, c, file) ==
  /\ r.step = "rest" /\ r.crate = c => r.head = file.head /\ r.head \notin {None, Blank}
  /\ r.step = "validate" /\ r.crate = c => r.tail \in Nat /\ r.head = r.tail

Recent(r, c, version) ==
  /\ r.code[c] # None => r.began[c] <= r.code[c] /\ r.code[c] <= version
  /\ r.began[c] <= version

Honest(r, c, file, version) ==
  Saver(r, c, file, version) /\ Reader(r, c, file) /\ Recent(r, c, version)

OneWriter(c) ==
  \A p, q \in Processes : Writes(process[p], c) /\ Writes(process[q], c) => p = q

(* The inductive invariant: of an undisturbed crate, every file, every reader   *)
(* and every saver holds one version, and one process at a time writes.         *)
HonestInv ==
  /\ Types
  /\ \A c \in Users \ disturbed :
       /\ Whole(disk[c])
       /\ OneWriter(c)
       /\ \A p \in Processes : Honest(process[p], c, disk[c], source[c])

--------------------------------------------------------------------------------

LEMMA IdleIsHonest ==
  /\ Idle \in Process /\ Phased(Idle)
  /\ \A c \in Crates : \A file, version : version \in Nat => Honest(Idle, c, file, version)
  /\ \A c : ~Writes(Idle, c)
  BY CacheAssumption DEF Idle, Process, Phased, Honest, Saver, Reader, Recent, Writes, Steps, Saving,
       Crates, Internal, Markers

LEMMA InitHonest == Init => HonestInv
<1> SUFFICES ASSUME Init PROVE HonestInv
  OBVIOUS
<1>1. /\ source \in [Crates -> Nat]
      /\ disk \in [Crates -> CacheFile]
      /\ process \in [Processes -> Process]
      /\ disturbed \in SUBSET Crates
  BY IdleIsHonest DEF Init, File, CacheFile, Markers, Stamped
<1>2. \A p \in Processes : Phased(process[p])
  BY IdleIsHonest DEF Init
<1>3. ASSUME NEW c \in Users \ disturbed
      PROVE  /\ Whole(disk[c])
             /\ OneWriter(c)
             /\ \A p \in Processes : Honest(process[p], c, disk[c], source[c])
  <2>1. c \in Crates /\ c \notin Internal
    BY CacheAssumption DEF Crates
  <2>2. Whole(disk[c])
    BY <2>1, CacheAssumption DEF Init, File, Whole, Stamped, Markers
  <2>3. OneWriter(c)
    BY IdleIsHonest DEF Init, OneWriter
  <2>4. \A p \in Processes : Honest(process[p], c, disk[c], source[c])
    BY <2>1, <1>1, IdleIsHonest DEF Init
  <2> QED
    BY <2>2, <2>3, <2>4
<1> QED
  BY <1>1, <1>2, <1>3 DEF HonestInv, Types

(* A step that changes one process, which does not begin to write.              *)
LEMMA OneProcess ==
  ASSUME HonestInv, NEW p \in Processes, NEW r, Becomes(p, r),
         UNCHANGED <<source, disk, disturbed>>,
         r \in Process, Phased(r),
         \A c \in Users \ disturbed : /\ Writes(r, c) => Writes(process[p], c)
                                      /\ Honest(r, c, disk[c], source[c])
  PROVE  HonestInv'
<1>1. Types'
  BY DEF HonestInv, Types, Becomes
<1>2. ASSUME NEW c \in Users \ disturbed
      PROVE  /\ Whole(disk[c])'
             /\ OneWriter(c)'
             /\ \A q \in Processes : Honest(process'[q], c, disk'[c], source'[c])
  <2>1. \A q \in Processes : process'[q] = IF q = p THEN r ELSE process[q]
    BY DEF HonestInv, Types, Becomes
  <2>2. OneWriter(c)'
    BY <2>1 DEF HonestInv, OneWriter
  <2>3. \A q \in Processes : Honest(process'[q], c, disk'[c], source'[c])
    BY <2>1 DEF HonestInv
  <2> QED
    BY <2>2, <2>3 DEF HonestInv, Whole
<1> QED
  BY <1>1, <1>2 DEF HonestInv

(* A crate with a running worker or another crate is registered: read, or all.  *)
LEMMA RegisteredIsHonest ==
  ASSUME HonestInv, NEW p \in Processes, process[p].step \in {"read", "validate"},
         NEW parsing \in {process[p].parsing, process[p].parsing \cup {process[p].crate}},
         NEW code \in [Crates -> Nat \cup {None}],
         \A c \in Users \ disturbed :
           code[c] # None => process[p].began[c] <= code[c] /\ code[c] <= source[c],
         NEW r, r = [Registered(process[p]) EXCEPT !.parsing = parsing, !.code = code]
  PROVE  /\ r \in Process /\ Phased(r)
         /\ \A c \in Users \ disturbed : ~Writes(r, c) /\ Honest(r, c, disk[c], source[c])
<1> DEFINE o == process[p]
<1>1. o \in Process /\ Phased(o) /\ o.saving = "no"
  BY DEF HonestInv, Types, Phased
<1>2. /\ r.step = IF o.crate = o.target THEN "runs" ELSE "read"
      /\ r.crate = IF o.crate = o.target THEN o.crate ELSE Following(o.crate, o.target)
      /\ r.head = None /\ r.tail = None
      /\ r.target = o.target /\ r.save = o.save /\ r.began = o.began /\ r.stamp = o.stamp
      /\ r.saving = "no" /\ r.parsing = parsing /\ r.code = code
  BY <1>1 DEF Registered, Process
<1>3. Following(o.crate, o.target) \in Crates
  BY <1>1 DEF Following, Process, Crates, Internal
<1>4. r \in Process
  <2>1. parsing \in SUBSET Crates
    BY <1>1 DEF Process
  <2>2. r = [o EXCEPT !.head = None, !.tail = None, !.step = r.step, !.crate = r.crate,
                      !.parsing = parsing, !.code = code]
    BY <1>1, <1>2 DEF Registered, Process
  <2> QED
    BY ZenonT(60), <1>1, <1>2, <1>3, <2>1, <2>2 DEF Process, Steps, Markers
<1>5. Phased(r)
  BY <1>1, <1>2 DEF Phased
<1>6. ASSUME NEW c \in Users \ disturbed
      PROVE  ~Writes(r, c) /\ Honest(r, c, disk[c], source[c])
  <2>1. Recent(o, c, source[c])
    BY DEF HonestInv, Honest
  <2>2. Recent(r, c, source[c])
    BY <1>2, <2>1 DEF Recent
  <2>3. Saver(r, c, disk[c], source[c]) /\ Reader(r, c, disk[c]) /\ ~Writes(r, c)
    BY <1>2 DEF Saver, Reader, Writes
  <2> QED
    BY <2>2, <2>3 DEF Honest
<1> QED
  BY <1>4, <1>5, <1>6

--------------------------------------------------------------------------------
(* One lemma for each action. *)

LEMMA StartHonest == ASSUME HonestInv, NEW p \in Processes, Start(p) PROVE HonestInv'
<1>1. PICK task \in Tasks[p] :
        Becomes(p, [Idle EXCEPT !.step = "read", !.target = task[1], !.save = task[2], !.began = source])
  BY DEF Start
<1> DEFINE r == [Idle EXCEPT !.step = "read", !.target = task[1], !.save = task[2], !.began = source]
<1>2. task[1] \in Crates /\ task[2] \in BOOLEAN
  BY CacheAssumption
<1>3. r \in Process
  BY <1>2, CacheAssumption DEF Idle, Process, Steps, Saving, Markers, Crates, Internal, HonestInv, Types
<1>4. Phased(r)
  BY DEF Idle, Phased
<1>5. ASSUME NEW c \in Users \ disturbed
      PROVE  ~Writes(r, c) /\ Honest(r, c, disk[c], source[c])
  <2>1. source[c] \in Nat /\ c \in Crates
    BY DEF HonestInv, Types, Crates
  <2> QED
    BY <2>1 DEF Idle, Writes, Honest, Saver, Reader, Recent
<1>6. UNCHANGED <<source, disk, disturbed>>
  BY DEF Start
<1> HIDE DEF r
<1> QED
  BY <1>1, <1>3, <1>4, <1>5, <1>6, OneProcess DEF r

LEMMA IdleAgain ==
  ASSUME HonestInv, NEW p \in Processes, Becomes(p, Idle), UNCHANGED <<source, disk, disturbed>>
  PROVE  HonestInv'
<1>1. \A c \in Users \ disturbed : ~Writes(Idle, c) /\ Honest(Idle, c, disk[c], source[c])
  BY IdleIsHonest DEF HonestInv, Types, Crates
<1> QED
  BY <1>1, IdleIsHonest, OneProcess

LEMMA EndHonest == ASSUME HonestInv, NEW p \in Processes, End(p) PROVE HonestInv'
  BY IdleAgain DEF End

LEMMA ReadPastEndHonest == ASSUME HonestInv, NEW p \in Processes, ReadPastEnd(p) PROVE HonestInv'
  BY IdleAgain DEF ReadPastEnd

LEMMA ReadHeadHonest == ASSUME HonestInv, NEW p \in Processes, ReadHead(p) PROVE HonestInv'
<1> DEFINE o == process[p]
           r == [o EXCEPT !.step = "rest", !.head = disk[o.crate].head]
<1>1. o \in Process /\ Phased(o) /\ o.step = "read" /\ o.saving = "no"
  BY DEF ReadHead, Reads, HonestInv, Types, Phased
<1>2. o.crate \in Crates /\ disk[o.crate] \in CacheFile
  BY <1>1 DEF Process, HonestInv, Types
<1>3. r \in Process
  BY <1>1, <1>2 DEF Process, Steps, CacheFile
<1>4. Phased(r)
  BY <1>1 DEF Phased, Process
<1>5. ASSUME NEW c \in Users \ disturbed
      PROVE  ~Writes(r, c) /\ Honest(r, c, disk[c], source[c])
  <2>1. Recent(o, c, source[c])
    BY DEF HonestInv, Honest
  <2>2. r.code = o.code /\ r.began = o.began /\ r.saving = "no" /\ r.crate = o.crate /\ r.step = "rest"
        /\ r.head = disk[o.crate].head
    BY <1>1 DEF Process
  <2>3. Saver(r, c, disk[c], source[c]) /\ ~Writes(r, c) /\ Recent(r, c, source[c])
    BY <2>1, <2>2 DEF Saver, Writes, Recent
  <2>4. Reader(r, c, disk[c])
    BY <2>2 DEF Reader, ReadHead
  <2> QED
    BY <2>3, <2>4 DEF Honest
<1>6. Becomes(p, r) /\ UNCHANGED <<source, disk, disturbed>>
  BY DEF ReadHead
<1> HIDE DEF r
<1> QED
  BY <1>3, <1>4, <1>5, <1>6, OneProcess

LEMMA ReadTailHonest == ASSUME HonestInv, NEW p \in Processes, ReadTail(p) PROVE HonestInv'
<1> DEFINE o == process[p]
           r == [o EXCEPT !.step = "validate", !.tail = disk[o.crate].tail]
<1>1. o \in Process /\ Phased(o) /\ o.step = "rest" /\ o.saving = "no"
  BY DEF ReadTail, HonestInv, Types, Phased
<1>2. o.crate \in Crates /\ disk[o.crate] \in CacheFile /\ disk[o.crate].tail # Blank
  BY <1>1 DEF Process, HonestInv, Types, ReadTail
<1>3. r \in Process
  BY <1>1, <1>2 DEF Process, Steps, CacheFile
<1>4. Phased(r)
  BY <1>1 DEF Phased, Process
<1>5. ASSUME NEW c \in Users \ disturbed
      PROVE  ~Writes(r, c) /\ Honest(r, c, disk[c], source[c])
  <2>1. Recent(o, c, source[c]) /\ Reader(o, c, disk[c]) /\ Whole(disk[c])
    BY DEF HonestInv, Honest
  <2>2. r.code = o.code /\ r.began = o.began /\ r.saving = "no" /\ r.crate = o.crate
        /\ r.step = "validate" /\ r.tail = disk[o.crate].tail /\ r.head = o.head
    BY <1>1 DEF Process
  <2>3. Saver(r, c, disk[c], source[c]) /\ ~Writes(r, c) /\ Recent(r, c, source[c])
    BY <2>1, <2>2 DEF Saver, Writes, Recent
  <2>4. Reader(r, c, disk[c])
    <3> SUFFICES ASSUME r.crate = c PROVE r.tail \in Nat /\ r.head = r.tail
      BY DEF Reader
    <3>1. r.head = disk[c].head /\ r.head # None /\ r.tail = disk[c].tail
      BY <1>1, <2>1, <2>2 DEF Reader
    <3>2. disk[c].tail \in Nat
      BY <1>2, <2>1, <2>2, <3>1 DEF Whole, CacheFile
    <3> QED
      BY <2>1, <3>1, <3>2 DEF Whole
  <2> QED
    BY <2>3, <2>4 DEF Honest
<1>6. Becomes(p, r) /\ UNCHANGED <<source, disk, disturbed>>
  BY DEF ReadTail
<1> HIDE DEF r
<1> QED
  BY <1>3, <1>4, <1>5, <1>6, OneProcess

(* What was compiled is recent, or what was known before. *)
LEMMA CodeIsRecent ==
  ASSUME HonestInv, NEW p \in Processes, NEW c \in Users \ disturbed, process[p].code[c] # None
  PROVE  process[p].began[c] <= process[p].code[c] /\ process[p].code[c] <= source[c]
  BY DEF HonestInv, Honest, Recent

LEMMA CompiledHonest ==
  ASSUME HonestInv, NEW p \in Processes, process[p].step \in {"read", "validate"},
         Becomes(p, Compiled(process[p])), UNCHANGED <<source, disk, disturbed>>
  PROVE  HonestInv'
<1> DEFINE o == process[p]
           r == Compiled(o)
<1>1. o \in Process
  BY DEF HonestInv, Types
<1>2. r = [Registered(o) EXCEPT !.parsing = o.parsing \cup {o.crate}, !.code = o.code]
  BY <1>1 DEF Compiled, Registered, Process
<1>3. o.code \in [Crates -> Nat \cup {None}]
  BY <1>1 DEF Process
<1> HIDE DEF r
<1>4. /\ r \in Process /\ Phased(r)
      /\ \A c \in Users \ disturbed : ~Writes(r, c) /\ Honest(r, c, disk[c], source[c])
  BY <1>2, <1>3, CodeIsRecent, RegisteredIsHonest
<1> QED
  BY <1>4, OneProcess DEF r

LEMMA ReadNothingHonest == ASSUME HonestInv, NEW p \in Processes, ReadNothing(p) PROVE HonestInv'
  BY CompiledHonest DEF ReadNothing, Reads

LEMMA CompileHonest == ASSUME HonestInv, NEW p \in Processes, Compile(p) PROVE HonestInv'
  BY CompiledHonest DEF Compile

(* A cache that is valid has one version in both of its parts: the source's.    *)
LEMMA UseCacheHonest == ASSUME HonestInv, NEW p \in Processes, UseCache(p) PROVE HonestInv'
<1> DEFINE o == process[p]
           code == [o.code EXCEPT ![o.crate] = o.tail]
           r == [Registered(o) EXCEPT !.code[o.crate] = o.tail]
<1>1. o \in Process /\ o.step = "validate" /\ Valid(o.head, source[o.crate])
  BY DEF UseCache, HonestInv, Types
<1>2. r = [Registered(o) EXCEPT !.parsing = o.parsing, !.code = code]
  BY <1>1 DEF Registered, Process
<1>3. code \in [Crates -> Nat \cup {None}]
  BY <1>1 DEF Process
<1>4. ASSUME NEW c \in Users \ disturbed, code[c] # None
      PROVE  o.began[c] <= code[c] /\ code[c] <= source[c]
  <2>1. CASE c # o.crate
    BY <1>1, <1>4, <2>1, CodeIsRecent DEF Process, Crates
  <2>2. CASE c = o.crate
    <3>1. code[c] = o.tail /\ o.tail \in Nat /\ o.head = o.tail
      BY <1>1, <2>2 DEF HonestInv, Honest, Reader, Process, Crates
    <3>2. o.head # NoFiles
      BY <3>1, CacheAssumption DEF Markers
    <3>3. code[c] = source[c]
      BY <1>1, <2>2, <3>1, <3>2 DEF Valid
    <3>4. source[c] \in Nat /\ o.began[c] <= source[c]
      BY DEF HonestInv, Types, Crates, Honest, Recent
    <3> QED
      BY <3>3, <3>4
  <2> QED
    BY <2>1, <2>2
<1>5. Becomes(p, r) /\ UNCHANGED <<source, disk, disturbed>>
  BY DEF UseCache
<1> HIDE DEF r, code
<1>6. /\ r \in Process /\ Phased(r)
      /\ \A c \in Users \ disturbed : ~Writes(r, c) /\ Honest(r, c, disk[c], source[c])
  BY <1>1, <1>2, <1>3, <1>4, RegisteredIsHonest
<1> QED
  BY <1>5, <1>6, OneProcess

LEMMA ParseHonest == ASSUME HonestInv, NEW p \in Processes, Parse(p) PROVE HonestInv'
<1> DEFINE o == process[p]
<1>1. PICK x \in o.parsing :
        Becomes(p, [o EXCEPT !.parsing = @ \ {x}, !.code[x] = source[x],
                             !.saving = IF o.save /\ x = o.target THEN "parsed" ELSE @])
  BY DEF Parse
<1> DEFINE r == [o EXCEPT !.parsing = @ \ {x}, !.code[x] = source[x],
                          !.saving = IF o.save /\ x = o.target THEN "parsed" ELSE @]
<1>2. o \in Process /\ Phased(o) /\ x \in Crates /\ source[x] \in Nat
  BY DEF HonestInv, Types, Process
<1>3. /\ r.step = o.step /\ r.target = o.target /\ r.crate = o.crate /\ r.head = o.head /\ r.tail = o.tail
      /\ r.save = o.save /\ r.began = o.began /\ r.stamp = o.stamp /\ r.parsing = o.parsing \ {x}
      /\ r.code = [o.code EXCEPT ![x] = source[x]]
      /\ r.saving = IF o.save /\ x = o.target THEN "parsed" ELSE o.saving
  BY <1>2 DEF Process
<1>4. r \in Process
  BY <1>2, <1>3 DEF Process, Saving
<1>5. Phased(r)
  <2>1. o.step # "idle"
    BY <1>2 DEF Phased, Idle
  <2> QED
    BY <1>2, <1>3, <2>1 DEF Phased
<1>6. ASSUME NEW c \in Users \ disturbed
      PROVE  (Writes(r, c) => Writes(o, c)) /\ Honest(r, c, disk[c], source[c])
  <2>1. Honest(o, c, disk[c], source[c]) /\ c \in Crates /\ source[c] \in Nat
    BY DEF HonestInv, Types, Crates
  <2>2. r.code[c] = IF c = x THEN source[c] ELSE o.code[c]
    BY <1>2, <1>3, <2>1 DEF Process
  <2>3. Recent(r, c, source[c])
    BY <1>3, <2>1, <2>2 DEF Honest, Recent
  <2>4. Reader(r, c, disk[c])
    BY <1>3, <2>1 DEF Honest, Reader
  <2>5. x = o.target => o.saving = "no"
    BY <1>2 DEF Phased
  <2>6. Saver(r, c, disk[c], source[c]) /\ (Writes(r, c) => Writes(o, c))
    BY <1>2, <1>3, <2>1, <2>2, <2>5 DEF Honest, Saver, Writes
  <2> QED
    BY <2>3, <2>4, <2>6 DEF Honest
<1>7. Becomes(p, r) /\ UNCHANGED <<source, disk, disturbed>>
  BY <1>1 DEF Parse
<1> HIDE DEF r
<1> QED
  BY <1>4, <1>5, <1>6, <1>7, OneProcess

LEMMA StampHonest == ASSUME HonestInv, NEW p \in Processes, Stamp(p) PROVE HonestInv'
<1> DEFINE o == process[p]
           r == [o EXCEPT !.saving = "stamped", !.stamp = Stamped(o.target, source[o.target])]
<1>1. o \in Process /\ Phased(o) /\ o.saving = "parsed"
  BY DEF Stamp, HonestInv, Types
<1>2. /\ r.step = o.step /\ r.target = o.target /\ r.crate = o.crate /\ r.head = o.head /\ r.tail = o.tail
      /\ r.save = o.save /\ r.began = o.began /\ r.parsing = o.parsing /\ r.code = o.code
      /\ r.saving = "stamped" /\ r.stamp = Stamped(o.target, source[o.target])
  BY <1>1 DEF Process
<1>3. Stamped(o.target, source[o.target]) \in Nat \cup {None, NoFiles}
  BY <1>1 DEF Stamped, HonestInv, Types, Process
<1>4. r \in Process
  BY <1>1, <1>2, <1>3 DEF Process, Saving
<1>5. Phased(r)
  BY <1>1, <1>2 DEF Phased
<1>6. ASSUME NEW c \in Users \ disturbed
      PROVE  ~Writes(r, c) /\ Honest(r, c, disk[c], source[c])
  <2>1. Honest(o, c, disk[c], source[c]) /\ source[c] \in Nat /\ c \notin Internal
    BY CacheAssumption DEF HonestInv, Types, Crates
  <2>2. Recent(r, c, source[c]) /\ Reader(r, c, disk[c]) /\ ~Writes(r, c)
    BY <1>2, <2>1 DEF Honest, Recent, Reader, Writes
  <2>3. Saver(r, c, disk[c], source[c])
    BY <1>1, <1>2, <2>1 DEF Honest, Saver, Stamped
  <2> QED
    BY <2>2, <2>3 DEF Honest
<1>7. Becomes(p, r) /\ UNCHANGED <<source, disk, disturbed>>
  BY DEF Stamp
<1> HIDE DEF r
<1> QED
  BY <1>4, <1>5, <1>6, <1>7, OneProcess

(* What is true of a crate's file and all processes makes the invariant.        *)
LEMMA Assemble ==
  ASSUME Types',
         \A c \in Users \ disturbed' :
           /\ Whole(disk'[c])
           /\ \A p, q \in Processes : Writes(process'[p], c) /\ Writes(process'[q], c) => p = q
           /\ \A p \in Processes : Honest(process'[p], c, disk'[c], source'[c])
  PROVE  HonestInv'
  BY DEF HonestInv, OneWriter

LEMMA OpenHonest == ASSUME HonestInv, NEW p \in Processes, Open(p) PROVE HonestInv'
<1> DEFINE o == process[p]
           r == [o EXCEPT !.saving = "opened"]
<1>1. o \in Process /\ Phased(o) /\ o.saving = "stamped" /\ o.target \in Crates
  BY DEF Open, HonestInv, Types, Process
<1>2. /\ r.step = o.step /\ r.target = o.target /\ r.crate = o.crate /\ r.head = o.head /\ r.tail = o.tail
      /\ r.began = o.began /\ r.code = o.code /\ r.stamp = o.stamp /\ r.parsing = o.parsing
      /\ r.saving = "opened"
  BY <1>1 DEF Process
<1>3. r \in Process /\ Phased(r)
  BY <1>1, <1>2 DEF Process, Saving, Phased
<1>4. \A q \in Processes : process'[q] = IF q = p THEN r ELSE process[q]
  BY DEF Open, Becomes, HonestInv, Types
<1>5. /\ disk' = [disk EXCEPT ![o.target] = [head |-> Blank, tail |-> Blank]]
      /\ source' = source
      /\ disturbed \subseteq disturbed' /\ disturbed' \in SUBSET Crates
  BY <1>1 DEF Open, HonestInv, Types
<1> HIDE DEF r
<1>6. Types'
  <2>1. disk' \in [Crates -> CacheFile]
    BY <1>1, <1>5 DEF HonestInv, Types, CacheFile, Markers
  <2>2. process' \in [Processes -> Process]
    BY <1>3 DEF HonestInv, Types, Open, Becomes, r
  <2> QED
    BY <1>3, <1>4, <1>5, <2>1, <2>2 DEF HonestInv, Types
<1>7. ASSUME NEW c \in Users \ disturbed'
      PROVE  /\ Whole(disk'[c])
             /\ \A q1, q2 \in Processes : Writes(process'[q1], c) /\ Writes(process'[q2], c) => q1 = q2
             /\ \A q \in Processes : Honest(process'[q], c, disk'[c], source'[c])
  <2>1. c \in Users \ disturbed /\ c \in Crates
    BY <1>5 DEF Crates
  <2>2. \A q \in Processes : Honest(process[q], c, disk[c], source[c])
    BY <2>1 DEF HonestInv
  <2>3. CASE c # o.target
    <3>1. disk'[c] = disk[c]
      BY <1>5, <2>1, <2>3 DEF HonestInv, Types
    <3>2. ~Writes(r, c)
      BY <1>2, <2>3 DEF Writes
    <3>3. Honest(r, c, disk[c], source[c])
      BY <1>2, <2>2, <2>3 DEF Honest, Saver, Reader, Recent
    <3> QED
      BY <1>4, <1>5, <2>1, <2>2, <3>1, <3>2, <3>3 DEF HonestInv, OneWriter
  <2>4. CASE c = o.target
    <3>1. \A q \in Processes : ~Writing(q, c) /\ ~Reading(q, c)
      BY <2>1, <2>4, <1>5, <1>7 DEF Open
    <3>2. \A q \in Processes : ~Writes(process[q], c)
      BY <3>1 DEF Writes, Writing
    <3>3. disk'[c].head = Blank /\ disk'[c].tail = Blank
      BY <1>5, <2>1, <2>4 DEF HonestInv, Types
    <3>4. Whole(disk'[c])
      BY <3>3, CacheAssumption DEF Whole, Markers
    <3>5. \A q1, q2 \in Processes : Writes(process'[q1], c) /\ Writes(process'[q2], c) => q1 = q2
      BY <1>4, <3>2
    <3>6. ASSUME NEW q \in Processes PROVE Honest(process[q], c, disk'[c], source[c])
      <4>1. Saver(process[q], c, disk'[c], source[c])
        BY <2>2, <3>2 DEF Honest, Saver, Writes
      <4>2. Reader(process[q], c, disk'[c])
        BY <2>2, <3>1 DEF Honest, Reader, Reading
      <4> QED
        BY <2>2, <4>1, <4>2 DEF Honest
    <3>7. Honest(r, c, disk'[c], source[c])
      <4>1. Saver(r, c, disk'[c], source[c])
        BY <1>1, <1>2, <2>2, <2>4, <3>3 DEF Honest, Saver
      <4>2. Reader(r, c, disk'[c])
        BY <1>2, <2>2, <3>1 DEF Honest, Reader, Reading
      <4>3. Recent(r, c, source[c])
        BY <1>2, <2>2 DEF Honest, Recent
      <4> QED
        BY <4>1, <4>2, <4>3 DEF Honest
    <3> QED
      BY <1>4, <1>5, <3>4, <3>5, <3>6, <3>7
  <2> QED
    BY <2>3, <2>4
<1> QED
  BY <1>6, <1>7, Assemble

LEMMA WriteHeadHonest == ASSUME HonestInv, NEW p \in Processes, WriteHead(p) PROVE HonestInv'
<1> DEFINE o == process[p]
           r == [o EXCEPT !.saving = "halfway"]
<1>1. o \in Process /\ Phased(o) /\ o.saving = "opened" /\ o.target \in Crates
  BY DEF WriteHead, HonestInv, Types, Process
<1>2. /\ r.step = o.step /\ r.target = o.target /\ r.crate = o.crate /\ r.head = o.head /\ r.tail = o.tail
      /\ r.began = o.began /\ r.code = o.code /\ r.stamp = o.stamp /\ r.parsing = o.parsing
      /\ r.saving = "halfway"
  BY <1>1 DEF Process
<1>3. r \in Process /\ Phased(r)
  BY <1>1, <1>2 DEF Process, Saving, Phased
<1>4. \A q \in Processes : process'[q] = IF q = p THEN r ELSE process[q]
  BY DEF WriteHead, Becomes, HonestInv, Types
<1>5. disk' = [disk EXCEPT ![o.target].head = o.stamp] /\ source' = source /\ disturbed' = disturbed
  BY DEF WriteHead
<1> HIDE DEF r
<1>6. Types'
  <2>1. disk' \in [Crates -> CacheFile]
    BY SMTT(30), <1>1, <1>5 DEF HonestInv, Types, CacheFile, Markers, Process
  <2> QED
    BY <1>3, <1>4, <1>5, <2>1 DEF HonestInv, Types, WriteHead, Becomes
<1>7. ASSUME NEW c \in Users \ disturbed'
      PROVE  /\ Whole(disk'[c])
             /\ \A q1, q2 \in Processes : Writes(process'[q1], c) /\ Writes(process'[q2], c) => q1 = q2
             /\ \A q \in Processes : Honest(process'[q], c, disk'[c], source'[c])
  <2>1. c \in Users \ disturbed /\ c \in Crates
    BY <1>5 DEF Crates
  <2>2. \A q \in Processes : Honest(process[q], c, disk[c], source[c])
    BY <2>1 DEF HonestInv
  <2>3. \A q1, q2 \in Processes : Writes(process[q1], c) /\ Writes(process[q2], c) => q1 = q2
    BY <2>1 DEF HonestInv, OneWriter
  <2>4. Writes(r, c) <=> Writes(o, c)
    BY <1>1, <1>2 DEF Writes
  <2>5. CASE c # o.target
    <3>1. disk'[c] = disk[c]
      BY <1>5, <2>1, <2>5 DEF HonestInv, Types
    <3>2. Honest(r, c, disk[c], source[c])
      BY <1>2, <2>2, <2>5 DEF Honest, Saver, Reader, Recent
    <3> QED
      BY <1>4, <1>5, <2>1, <2>2, <2>3, <2>4, <3>1, <3>2 DEF HonestInv
  <2>6. CASE c = o.target
    <3>1. disk'[c].head = o.stamp /\ disk'[c].tail = disk[c].tail
      BY <1>5, <2>1, <2>6 DEF HonestInv, Types, CacheFile
    <3>2. disk[c].head = Blank /\ disk[c].tail = Blank
      BY <1>1, <2>2, <2>6 DEF Honest, Saver
    <3>3. Whole(disk'[c])
      BY <3>1, <3>2, CacheAssumption DEF Whole, Markers
    <3>4. ASSUME NEW q \in Processes, q # p PROVE Honest(process[q], c, disk'[c], source[c])
      <4>1. ~Writes(process[q], c)
        BY <1>1, <2>3, <2>6, <3>4 DEF Writes
      <4>2. Saver(process[q], c, disk'[c], source[c])
        BY <2>2, <4>1 DEF Honest, Saver, Writes
      <4>3. Reader(process[q], c, disk'[c])
        BY <2>2, <3>2 DEF Honest, Reader
      <4> QED
        BY <2>2, <4>2, <4>3 DEF Honest
    <3>5. Honest(r, c, disk'[c], source[c])
      <4>1. Saver(r, c, disk'[c], source[c])
        BY <1>1, <1>2, <2>2, <2>6, <3>1, <3>2 DEF Honest, Saver
      <4>2. Reader(r, c, disk'[c])
        BY <1>2, <2>2, <3>2 DEF Honest, Reader
      <4>3. Recent(r, c, source[c])
        BY <1>2, <2>2 DEF Honest, Recent
      <4> QED
        BY <4>1, <4>2, <4>3 DEF Honest
    <3> QED
      BY <1>4, <1>5, <2>3, <2>4, <3>3, <3>4, <3>5
  <2> QED
    BY <2>5, <2>6
<1> QED
  BY <1>6, <1>7, Assemble

LEMMA WriteTailHonest == ASSUME HonestInv, NEW p \in Processes, WriteTail(p) PROVE HonestInv'
<1> DEFINE o == process[p]
<1>1. o \in Process /\ Phased(o) /\ o.saving = "halfway" /\ o.target \in Crates
  BY DEF WriteTail, HonestInv, Types, Process
<1>2. \A q \in Processes : process'[q] = IF q = p THEN Idle ELSE process[q]
  BY DEF WriteTail, Becomes, HonestInv, Types
<1>3. disk' = [disk EXCEPT ![o.target].tail = o.code[o.target]] /\ source' = source /\ disturbed' = disturbed
  BY DEF WriteTail
<1>4. Types'
  <2>1. disk' \in [Crates -> CacheFile]
    <3>1. o.code[o.target] \in Nat \cup {None, Blank}
      BY <1>1 DEF Process
    <3>2. disk[o.target] \in CacheFile /\ disk \in [Crates -> CacheFile]
      BY <1>1 DEF HonestInv, Types
    <3>3. [disk[o.target] EXCEPT !.tail = o.code[o.target]] \in CacheFile
      BY <3>1, <3>2 DEF CacheFile
    <3> QED
      BY <1>1, <1>3, <3>2, <3>3
  <2> QED
    BY <1>2, <1>3, <2>1, IdleIsHonest DEF HonestInv, Types, WriteTail, Becomes
<1>5. ASSUME NEW c \in Users \ disturbed'
      PROVE  /\ Whole(disk'[c])
             /\ \A q1, q2 \in Processes : Writes(process'[q1], c) /\ Writes(process'[q2], c) => q1 = q2
             /\ \A q \in Processes : Honest(process'[q], c, disk'[c], source'[c])
  <2>1. c \in Users \ disturbed /\ c \in Crates /\ source[c] \in Nat
    BY <1>3 DEF HonestInv, Types, Crates
  <2>2. \A q \in Processes : Honest(process[q], c, disk[c], source[c])
    BY <2>1 DEF HonestInv
  <2>3. \A q1, q2 \in Processes : Writes(process[q1], c) /\ Writes(process[q2], c) => q1 = q2
    BY <2>1 DEF HonestInv, OneWriter
  <2>4. \A q1, q2 \in Processes : Writes(process'[q1], c) /\ Writes(process'[q2], c) => q1 = q2
    BY <1>2, <2>3, IdleIsHonest
  <2>5. Honest(Idle, c, disk'[c], source[c])
    BY <2>1, IdleIsHonest
  <2>6. CASE c # o.target
    <3>1. disk'[c] = disk[c]
      BY <1>3, <2>1, <2>6 DEF HonestInv, Types
    <3> QED
      BY <1>2, <1>3, <2>1, <2>2, <2>4, <2>5, <3>1 DEF HonestInv
  <2>7. CASE c = o.target
    <3>1. disk'[c].tail = o.code[c] /\ disk'[c].head = disk[c].head
      BY <1>3, <2>1, <2>7 DEF HonestInv, Types, CacheFile
    <3>2. o.code[c] \in Nat /\ disk[c].head = o.code[c]
      BY <1>1, <2>2, <2>7 DEF Honest, Saver
    <3>3. Whole(disk'[c])
      BY <3>1, <3>2, CacheAssumption DEF Whole, Markers
    <3>4. ASSUME NEW q \in Processes, q # p PROVE Honest(process[q], c, disk'[c], source[c])
      <4>1. ~Writes(process[q], c)
        BY <1>1, <2>3, <2>7, <3>4 DEF Writes
      <4>2. Saver(process[q], c, disk'[c], source[c])
        BY <2>2, <4>1 DEF Honest, Saver, Writes
      <4>3. Reader(process[q], c, disk'[c])
        BY <2>2, <3>1 DEF Honest, Reader
      <4> QED
        BY <2>2, <4>2, <4>3 DEF Honest
    <3> QED
      BY <1>2, <1>3, <2>4, <2>5, <3>3, <3>4
  <2> QED
    BY <2>6, <2>7
<1> QED
  BY <1>4, <1>5, Assemble

(* An edit falls between no save's parsing and stamping: or it disturbs. *)
LEMMA EditHonest == ASSUME HonestInv, NEW x \in Crates, Edit(x) PROVE HonestInv'
<1>1. /\ source' = [source EXCEPT ![x] = @ + 1]
      /\ disk' = disk /\ process' = process
      /\ disturbed \subseteq disturbed' /\ disturbed' \in SUBSET Crates
  BY DEF Edit, HonestInv, Types
<1>2. Types'
  BY <1>1 DEF HonestInv, Types
<1>3. ASSUME NEW c \in Users \ disturbed'
      PROVE  /\ Whole(disk'[c])
             /\ \A q1, q2 \in Processes : Writes(process'[q1], c) /\ Writes(process'[q2], c) => q1 = q2
             /\ \A q \in Processes : Honest(process'[q], c, disk'[c], source'[c])
  <2>1. c \in Users \ disturbed /\ c \in Crates /\ source[c] \in Nat
    BY <1>1 DEF HonestInv, Types, Crates
  <2>2. source'[c] = source[c] \/ (c = x /\ source'[c] = source[c] + 1)
    BY <1>1, <2>1 DEF HonestInv, Types
  <2>3. ASSUME NEW q \in Processes PROVE Honest(process[q], c, disk[c], source'[c])
    <3>1. Honest(process[q], c, disk[c], source[c]) /\ process[q] \in Process
      BY <2>1 DEF HonestInv, Types
    <3>2. CASE source'[c] = source[c]
      BY <3>1, <3>2
    <3>3. CASE c = x /\ source'[c] = source[c] + 1
      <4>1. ~(process[q].saving = "parsed" /\ process[q].target = c)
        BY <1>3, <2>1, <3>3 DEF Edit
      <4>2. Saver(process[q], c, disk[c], source'[c])
        BY <3>1, <4>1 DEF Honest, Saver
      <4>3. Recent(process[q], c, source'[c])
        BY <2>1, <3>1, <3>3 DEF Honest, Recent, Process
      <4> QED
        BY <3>1, <4>2, <4>3 DEF Honest
    <3> QED
      BY <2>2, <3>2, <3>3
  <2> QED
    BY <1>1, <2>1, <2>3 DEF HonestInv, OneWriter
<1> QED
  BY <1>2, <1>3, Assemble

--------------------------------------------------------------------------------

LEMMA NextHonest == HonestInv /\ [Next]_vars => HonestInv'
<1> SUFFICES ASSUME HonestInv, [Next]_vars PROVE HonestInv'
  OBVIOUS
<1>1. CASE UNCHANGED vars
  BY <1>1 DEF vars, HonestInv, Types, Whole, OneWriter
<1>2. ASSUME NEW p \in Processes, Step(p) PROVE HonestInv'
  BY <1>2, StartHonest, EndHonest, ReadHeadHonest, ReadNothingHonest, ReadPastEndHonest, ReadTailHonest,
     UseCacheHonest, CompileHonest, ParseHonest, StampHonest, OpenHonest, WriteHeadHonest, WriteTailHonest
     DEF Step
<1>3. ASSUME NEW c \in Crates, Edit(c) PROVE HonestInv'
  BY <1>3, EditHonest
<1> QED
  BY <1>1, <1>2, <1>3 DEF Next

LEMMA HonestIsRecent == HonestInv => RunsRecentSource
  BY DEF HonestInv, Honest, Recent, RunsRecentSource

(* THEOREM: for any number of processes, crates and edits, a process runs every *)
(* crate of the user's as its source was at some moment since it began, unless  *)
(* the crate was disturbed: RunsRecentSource.                                   *)
THEOREM RecentSource == Spec => []RunsRecentSource
<1>1. Spec => []HonestInv
  BY InitHonest, NextHonest, PTL DEF Spec
<1> QED
  BY <1>1, HonestIsRecent, PTL
================================================================================
