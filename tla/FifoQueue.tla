------------------------------ MODULE FifoQueue ------------------------------
(***************************************************************************)
(* What a concurrent queue promises: elements come out in the order they   *)
(* went in, and each comes out once.  FineGrainedQueue.tla implements it.  *)
(***************************************************************************)
EXTENDS Sequences

CONSTANT Values

VARIABLES items,  \* the elements in the queue, oldest first
          out     \* every element taken out so far, in that order

vars == <<items, out>>

Init ==
  /\ items = <<>>
  /\ out = <<>>

Push(v) ==
  /\ items' = Append(items, v)
  /\ UNCHANGED out

Pop ==
  /\ items # <<>>
  /\ out' = Append(out, Head(items))
  /\ items' = Tail(items)

Next == Pop \/ \E v \in Values : Push(v)

Spec == Init /\ [][Next]_vars
=============================================================================
