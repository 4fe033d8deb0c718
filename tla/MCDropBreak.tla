------------------------------ MODULE MCDropBreak ------------------------------
(* A break that leaves initialised locals of the loop's body behind.  The other *)
(* hazards are found the same way, with the forms of                            *)
(*   continue_live  {"let", "if", "loop", "continue", "break"}                  *)
(*   guarded_move   {"let", "match"}                                            *)
(*   self_assign    {"let", "reassign", "pass"}                                 *)
(* and NoPanic for the invariant.                                               *)
EXTENDS DropScopes

MCFamilies == { [forms |-> {"let", "letloop", "break"}, widths |-> {1}] }
MCHazards == {"break_live"}
================================================================================
