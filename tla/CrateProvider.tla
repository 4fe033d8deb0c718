----------------------------- MODULE CrateProvider -----------------------------
(* What the CrateProvider trait (crate_provider.rs) promises to the threads     *)
(* that ask a crate for an item or for IR, whatever stands behind it: a request *)
(* is answered once, with what was asked for, and only from a crate whose items *)
(* have all been collected.                                                     *)
CONSTANTS Threads, Crates, Requests, NoRequest, NoAnswer, AnswerTo(_)

VARIABLES
  ready,  \* crates whose items, ADT fields and impls are complete
  asked,  \* the request each thread waits for
  got     \* the latest answer of each thread

Init == /\ ready = {}
        /\ asked = [t \in Threads |-> NoRequest]
        /\ got = [t \in Threads |-> NoAnswer]

Complete == /\ \E c \in Crates : ready' = ready \cup {c}
            /\ UNCHANGED <<asked, got>>

Ask == /\ \E t \in Threads, r \in Requests :
            /\ asked[t] = NoRequest
            /\ asked' = [asked EXCEPT ![t] = r]
            /\ got' = [got EXCEPT ![t] = NoAnswer]
       /\ UNCHANGED ready

Answer == /\ \E t \in Threads :
               /\ asked[t] # NoRequest /\ asked[t].crate \in ready
               /\ got' = [got EXCEPT ![t] = AnswerTo(asked[t])]
               /\ asked' = [asked EXCEPT ![t] = NoRequest]
          /\ UNCHANGED ready

Next == Complete \/ Ask \/ Answer

Spec == Init /\ [][Next]_<<ready, asked, got>>
================================================================================
