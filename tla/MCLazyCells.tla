------------------------------- MODULE MCLazyCells -------------------------------
(* Two constants of one item, an IR that the worker builds, the fields of a     *)
(* cached ADT, and a type and an item of a cache.                               *)
EXTENDS LazyCells

MCFamily ==
  [N1 |-> "const", N2 |-> "const", F |-> "ir", A |-> "adt", T |-> "type", I |-> "item"]
MCLock == [c \in Cells |-> IF MCFamily[c] = "const" THEN "N" ELSE c]
MCRank == [l \in {MCLock[c] : c \in Cells} |-> 0]
MCServer == [c \in Cells |-> IF MCFamily[c] = "ir" THEN CHOOSE w \in Workers : TRUE ELSE None]
================================================================================
