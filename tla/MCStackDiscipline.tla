-------------------------- MODULE MCStackDiscipline ----------------------------
(* A byte without drop glue, and a padded pair of a word and a byte with it. *)
EXTENDS StackDiscipline

MCLayouts == { [size |-> 1, align |-> 1, fields |-> <<>>],
               [size |-> 8, align |-> 4, fields |-> << [off |-> 0, size |-> 4],
                                                       [off |-> 4, size |-> 1] >>] }
================================================================================
