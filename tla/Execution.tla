------------------------------- MODULE Execution -------------------------------
(* Compiled programs running: what BytecodeCompiler::compile produced for each  *)
(* function (module Lowering), executed by the interpreter (module Interpreter),*)
(* and what Rust says the program does (module RustSemantics).  A program is a  *)
(* record [fns, inputs]: function 1 is run on the values of an input.           *)
EXTENDS Lowering, RustSemantics, Interpreter

(* The caller of the first function has put its arguments where build_call does.*)
Loaded(fn, x, fill) ==
  LET slots == ParamSlots(fn).at
      loaded[k \in 0 .. Len(x)] ==
        IF k = 0 THEN [mem |-> [a \in 0 .. MemorySize - 1 |-> fill], base |-> StackBase]
        ELSE Represent(loaded[k - 1], StackBase + slots[k], fn.params[k].ty, x[k])
  IN  loaded[Len(x)]

(* The runs of a program: its bytecode, what it returns, the memory it finds.   *)
CompiledProgram(p) ==
  LET bytecode == [f \in 1 .. Len(p.fns) |-> Compile(p.fns[f])]
      RunsOn(x, outcome) ==
        {[code |-> bytecode, result |-> p.fns[1].body.ty, expected |-> outcome,
          machine |-> Loaded(p.fns[1], x, fill)] : fill \in Garbage}
  IN  UNION {RunsOn(x, Outcome(p.fns, x)) : x \in p.inputs}

--------------------------------------------------------------------------------
(* Lowering, instruction selection and interpreter together mean what Rust says:*)
(* a program that returns leaves at slot 0 the value Rust gives it, whatever    *)
(* memory held before, and one that panics is one that panics in Rust.  No      *)
(* instruction of these programs is missing from the interpreter, and none      *)
(* leaves the memory of the machine.                                            *)
ResultIsRusts ==
  /\ status \notin {"nyi", "fault"}
  /\ status = "done" => expected.ctl = "val" /\ Represented(machine, StackBase, result) = expected.val
  /\ status = "panic" => expected.ctl = "panic"
================================================================================
