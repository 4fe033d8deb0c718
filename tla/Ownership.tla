------------------------------- MODULE Ownership -------------------------------
(* What the drop machinery promises for one call of a function, with no code,   *)
(* slots or flags: every value with a destructor is created once, then either   *)
(* dropped or given away exactly once, and the function returns only when it    *)
(* owns nothing any more.                                                       *)
CONSTANT Values

VARIABLES fate, returned

Step(old, new) ==
  \/ new = old
  \/ old = "unborn" /\ new = "live"
  \/ old = "live"   /\ new \in {"dropped", "given"}

Init == /\ fate \in [Values -> {"unborn", "live"}]
        /\ returned = FALSE

Next == /\ ~returned
        /\ fate' \in [Values -> {"unborn", "live", "dropped", "given"}]
        /\ \A v \in Values : Step(fate[v], fate'[v])
        /\ returned' \in BOOLEAN
        /\ returned' => \A v \in Values : fate'[v] # "live"

Spec == Init /\ [][Next]_<<fate, returned>>
================================================================================
