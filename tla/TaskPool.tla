------------------------------ MODULE TaskPool ------------------------------
(***************************************************************************)
(* What a thread pool promises: a task that was handed over is run by one  *)
(* thread, once; or it stays queued, if the pool is stopped.               *)
(***************************************************************************)
CONSTANT Tasks

VARIABLE state

Init == state = [k \in Tasks |-> "new"]

Move(k, from, to) == state[k] = from /\ state' = [state EXCEPT ![k] = to]

Next == \E k \in Tasks : \/ Move(k, "new", "queued")
                         \/ Move(k, "queued", "running")
                         \/ Move(k, "running", "done")

Spec == Init /\ [][Next]_state
=============================================================================
