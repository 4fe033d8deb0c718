---------------------------------- MODULE Memo ----------------------------------
(* What a lazily computed value promises, however many threads compute it: it   *)
(* is set once, and from then on every caller is given it.                      *)
CONSTANTS Cells, Threads, None

VARIABLES
  value,   \* the thread whose result each cell keeps, or None
  given    \* whose results callers have been given

Init ==
  /\ value = [c \in Cells |-> None]
  /\ given = [c \in Cells |-> {}]

Set(c, t) ==
  /\ value[c] = None
  /\ value' = [value EXCEPT ![c] = t]
  /\ given' = [given EXCEPT ![c] = {t}]

Give(c) ==
  /\ value[c] # None
  /\ given' = [given EXCEPT ![c] = @ \cup {value[c]}]
  /\ UNCHANGED value

Next == \E c \in Cells : Give(c) \/ \E t \in Threads : Set(c, t)

Spec == Init /\ [][Next]_<<value, given>>
================================================================================
