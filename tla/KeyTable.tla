------------------------------ MODULE KeyTable ------------------------------
(***************************************************************************)
(* What the users of a HashSet or LazyList see: for each key the entry     *)
(* that was added last, or none.  An add and a remove take effect at once. *)
(***************************************************************************)
CONSTANTS Keys, Values, NoValue

VARIABLE table

Init == table = [k \in Keys |-> NoValue]

Add(k, v) == table' = [table EXCEPT ![k] = v]

Remove(k) == /\ table[k] # NoValue
             /\ table' = [table EXCEPT ![k] = NoValue]

Next == \E k \in Keys : Remove(k) \/ \E v \in Values : Add(k, v)

Spec == Init /\ [][Next]_table
=============================================================================
