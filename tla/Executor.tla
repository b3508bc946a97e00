------------------------------ MODULE Executor ------------------------------
(***************************************************************************)
(* What a reactor promises to the code that hands it functors, without     *)
(* threads, flags, locks or wakeups: a functor given to queueInReactor     *)
(* goes to the end of one queue, the queue is executed from its front, a   *)
(* functor given to runInReactor by the reactor's own thread is executed   *)
(* on the spot, and nothing is executed twice.                             *)
(*                                                                         *)
(* Reactor.tla implements this specification (its Implements property).    *)
(***************************************************************************)
EXTENDS Sequences, Functions

CONSTANT Functors   \* every functor the program ever hands to the reactor

VARIABLES todo,     \* functors accepted and not yet executed, oldest first
          done      \* functors executed, in the order of their execution

vars == <<todo, done>>

Init ==
  /\ todo = <<>>
  /\ done = <<>>

New(f) == f \notin Range(todo) \cup Range(done)

Submit(f) ==
  /\ New(f)
  /\ todo' = Append(todo, f)
  /\ UNCHANGED done

Execute ==
  /\ todo # <<>>
  /\ done' = Append(done, Head(todo))
  /\ todo' = Tail(todo)

ExecuteInline(f) ==
  /\ New(f)
  /\ done' = Append(done, f)
  /\ UNCHANGED todo

Next ==
  \/ \E f \in Functors : Submit(f) \/ ExecuteInline(f)
  \/ Execute

Spec == Init /\ [][Next]_vars
=============================================================================
