------------------------------ MODULE MCDropBodies -----------------------------
(* Two families of bodies: plain values through branches, matches, early        *)
(* returns and breaks with a value; and pairs, whole and field by field, given  *)
(* away and assigned under conditions.                                          *)
EXTENDS DropScopes

MCFamilies ==
  { [forms |-> {"let", "declare", "move", "call", "if", "match", "letloop", "break", "return"},
     widths |-> {1}],
    [forms |-> {"let", "assign", "reassign", "pass", "block", "if"},
     widths |-> {1, 2}] }
MCHazards == {}
================================================================================
