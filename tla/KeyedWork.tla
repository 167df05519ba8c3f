------------------------------ MODULE KeyedWork ------------------------------
(***************************************************************************)
(* What a controller needs from its work queue: a set of keys with work to *)
(* do.  A key that was requested stays in the set until a worker claims    *)
(* it, however often it is requested and whoever holds it meanwhile; one   *)
(* worker at most holds a key; after the set is closed nothing is added.   *)
(* The order in which keys are claimed is left open.                       *)
(***************************************************************************)
CONSTANTS Key, Worker, NoKey

VARIABLES
    todo,       \* keys with work to do
    holds,      \* the key each worker holds, or NoKey
    open        \* requests are accepted

workVars == <<todo, holds, open>>

Init ==
    /\ todo = {}
    /\ holds = [w \in Worker |-> NoKey]
    /\ open = TRUE

Request(k) ==
    /\ open
    /\ todo' = todo \cup {k}
    /\ UNCHANGED <<holds, open>>

Claim(w, k) ==
    /\ holds[w] = NoKey
    /\ k \in todo
    /\ \A v \in Worker : holds[v] # k
    /\ todo' = todo \ {k}
    /\ holds' = [holds EXCEPT ![w] = k]
    /\ UNCHANGED open

Release(w) ==
    /\ holds[w] # NoKey
    /\ holds' = [holds EXCEPT ![w] = NoKey]
    /\ UNCHANGED <<todo, open>>

Close ==
    /\ open' = FALSE
    /\ UNCHANGED <<todo, holds>>

Next ==
    \/ \E k \in Key : Request(k)
    \/ \E w \in Worker, k \in Key : Claim(w, k)
    \/ \E w \in Worker : Release(w)
    \/ Close

Spec == Init /\ [][Next]_workVars
=============================================================================
