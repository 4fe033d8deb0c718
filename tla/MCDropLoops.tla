------------------------------ MODULE MCDropLoops ------------------------------
(* Plain values in nested loops, with breaks and continues to any of them. *)
EXTENDS DropScopes

MCFamilies == { [forms |-> {"let", "pass", "if", "loop", "break", "continue"}, widths |-> {1}] }
MCHazards == {}
================================================================================
