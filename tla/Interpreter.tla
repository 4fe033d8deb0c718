------------------------------ MODULE Interpreter ------------------------------
(* The loop of run_bytecode in vm.rs: the bytecode of a program's functions,    *)
(* executed one instruction at a time, with a machine whose stack holds a frame *)
(* for each activation.  Memory starts with arbitrary contents.  Programs are   *)
(* compiled before anything runs: what runs is a constant of the module.        *)
EXTENDS SimpleJit

CONSTANTS
  Programs,     \* what is run,
  RunsOf(_),    \* and the runs [code, result, expected, machine] of each
  MemorySize,   \* bytes of the machine
  StackBase,    \* address of slot 0 of the first frame
  MaxSteps      \* bound: instructions of one execution

ASSUME InterpreterAssumption == /\ MemorySize \in Nat
                                /\ StackBase \in {a \in Nat : a % CallAlign = 0}
                                /\ MaxSteps \in Nat

VARIABLES
  code,      \* Function::bytecode of each function of the program
  result,    \* the type of what the program returns
  expected,  \* what it does in Rust
  machine,   \* memory and the base of the frame that runs
  frames,    \* activations [fn, pc, base], the running one last
  status,    \* "run", or how the execution stopped
  steps      \* history: instructions executed

state == <<code, result, expected, machine, frames, status, steps>>

Garbage == {0, Radix - 1}   \* bytes that memory holds before it is written

(* The instruction after one that goes on is an instruction of its function,    *)
(* and a call names a function and leaves its frame aligned (skip_instr and     *)
(* build_call of bytecode_compiler.rs).                                         *)
GoesOn(program, f, k) ==
  LET i == program[f][k]
      Exists(d) == k + d \in 1 .. Len(program[f])
  IN  /\ i.op \in {"Jump"} \cup Branches => Exists(i.off)
      /\ i.op \notin {"Jump"} \cup Stopping => Exists(1)
      /\ i.op = "Call" => i.n \in 1 .. Len(program) /\ i.dst % CallAlign = 0

WellFormed(program) ==
  /\ Len(program) \in Nat \ {0}
  /\ \A f \in 1 .. Len(program) :
       /\ Len(program[f]) \in Nat \ {0}
       /\ \A k \in 1 .. Len(program[f]) : IsInstr(program[f][k]) /\ GoesOn(program, f, k)

Memory == [0 .. MemorySize - 1 -> 0 .. Radix - 1]
FrameBases == {a \in Nat : a % CallAlign = 0}

(* A run that the compiler may hand to the interpreter. *)
Loadable(r) ==
  /\ WellFormed(r.code)
  /\ r.machine \in [mem : Memory, base : {StackBase}]

--------------------------------------------------------------------------------
Start ==
  \E p \in Programs : \E r \in RunsOf(p) :
    /\ code = r.code /\ result = r.result /\ expected = r.expected /\ machine = r.machine
    /\ frames = <<[fn |-> 1, pc |-> 1, base |-> StackBase]>>
    /\ status = "run"
    /\ steps = 0

Depth == Len(frames)
Frame == frames[Depth]
Current == code[Frame.fn][Frame.pc]

(* An instruction that stays in its function. *)
Advance(r) ==
  /\ r.status = "run"
  /\ machine' = r.m
  /\ frames' = [frames EXCEPT ![Depth].pc = @ + r.skip]
  /\ UNCHANGED status

(* vm.call at the slot of the call instruction. *)
Enter(r) ==
  /\ r.status = "call"
  /\ LET base == machine.base + Current.dst
     IN  /\ machine' = [machine EXCEPT !.base = base]
         /\ frames' = Append([frames EXCEPT ![Depth].pc = @ + 1],
                             [fn |-> Current.n, pc |-> 1, base |-> base])
  /\ UNCHANGED status

Leave(r) ==
  /\ r.status = "return"
  /\ Depth > 1
  /\ frames' = SubSeq(frames, 1, Depth - 1)
  /\ machine' = [machine EXCEPT !.base = frames[Depth - 1].base]
  /\ UNCHANGED status

(* The first function returns, or the interpreter panics. *)
Finish(r) ==
  /\ r.status \notin {"run", "call"}
  /\ r.status = "return" => Depth = 1
  /\ status' = IF r.status = "return" THEN "done" ELSE r.status
  /\ UNCHANGED <<machine, frames>>

Executed(i, m) == IF InMemory(i, m) THEN Exec(i, m) ELSE Stops(m, "fault")

Step ==
  /\ status = "run"
  /\ steps < MaxSteps
  /\ steps' = steps + 1
  /\ \E r \in {Executed(Current, machine)} : Advance(r) \/ Enter(r) \/ Leave(r) \/ Finish(r)
  /\ UNCHANGED <<code, result, expected>>

Running == Start /\ [][Step]_state

--------------------------------------------------------------------------------
MachineOK ==
  /\ WellFormed(code)
  /\ machine \in [mem : Memory, base : FrameBases]
  /\ frames \in Seq([fn : 1 .. Len(code), pc : Nat, base : FrameBases])
  /\ Depth > 0 /\ machine.base = Frame.base
  /\ \A k \in 1 .. Depth : frames[k].pc \in 1 .. Len(code[frames[k].fn])
  /\ status \in {"run", "done", "panic", "nyi", "fault"}
  /\ steps \in 0 .. MaxSteps

(* A function that the JIT accepts does the same as its bytecode, instruction by*)
(* instruction, for the operands outside JitDiffers: the same memory and the    *)
(* same way on, and a division by zero stops both.                              *)
JitAgrees ==
  /\ status = "run" /\ JitCompiles(code[Frame.fn])
  /\ InMemory(Current, machine) /\ ~JitDiffers(Current, machine)
  => LET jit == JitExec(Current, machine)
         interpreted == Exec(Current, machine)
     IN  IF interpreted.status = "panic" THEN jit.status = "fault" ELSE jit = interpreted

(* A jump never goes astray: the programs all end in Rust, within a few steps,  *)
(* and here before MaxSteps.                                                    *)
Halts == status = "run" => steps < MaxSteps
================================================================================
