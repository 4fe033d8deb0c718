-------------------------------- MODULE MCRuntime ------------------------------
(* main calls a function with nine drop bits, whose values have glue that calls *)
(* the user's Drop::drop; compiling it evaluates a constant, whose body calls   *)
(* the function that main calls too.  A worker evaluates that constant as well.  *)
EXTENDS Runtime, TLC

CONSTANTS main, helper, constant, glue, userDrop, vm, worker

MCFunctions == {main, helper, constant, glue, userDrop}
MCDrops  == (main :> 9) @@ (helper :> 1) @@ (constant :> 1) @@ (glue :> 0) @@ (userDrop :> 0)
MCUses   == (main :> {0, 8}) @@ (helper :> {0}) @@ (constant :> {}) @@ (glue :> {}) @@ (userDrop :> {})
MCGlue   == [f \in MCFunctions |-> glue]
MCCalls  == (main :> {helper}) @@ (helper :> {}) @@ (constant :> {helper}) @@ (glue :> {userDrop}) @@ (userDrop :> {})
MCConsts == (main :> {constant}) @@ (helper :> {}) @@ (constant :> {}) @@ (glue :> {}) @@ (userDrop :> {})
MCRoots  == (vm :> {main}) @@ (worker :> {})
MCNested == (vm :> 3) @@ (worker :> 2)
Symmetry == Permutations(Stacks)
MCEvals  == (vm :> {}) @@ (worker :> {constant})
================================================================================
