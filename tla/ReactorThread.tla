---------------------------- MODULE ReactorThread ----------------------------
(***************************************************************************)
(* libeva/Reactor/ReactorThread.cc: a thread that runs a reactor's loop.   *)
(*                                                                         *)
(* The thread Creator constructs the ReactorThread, calls startDispatch()  *)
(* and later destroys it.  The thread Owner is the one startDispatch()     *)
(* starts: it runs threadFunc(), which keeps the Reactor on its stack and  *)
(* publishes its address in the atomic reactor_ before it dispatches.      *)
(* The reactor itself is Reactor.tla: its steps are taken here under the   *)
(* conditions threadFunc() and the creator put on them.                    *)
(***************************************************************************)
EXTENDS Reactor

CONSTANTS Creator,            \* the thread that owns the ReactorThread
          FunctorsMayStop,    \* may functors of the creator call stop()?
          DestroyAfterStart   \* is it destroyed only once dispatch() has begun?

ASSUME CreatorAssumption == Creator \in Others

VARIABLES reactor,  \* reactor_ is not null
          object,   \* the life of the Reactor on threadFunc()'s stack
          tpc,      \* where the started thread is in threadFunc()
          cpc,      \* where the creator is
          ret       \* what startDispatch() returned: not null?

lifeVars == <<reactor, object, tpc, cpc, ret>>
threadVars == <<vars, lifeVars>>

ThreadInit ==
  /\ Init
  /\ reactor = FALSE
  /\ object = "none"
  /\ tpc = "unborn"
  /\ cpc = "new"
  /\ ret = FALSE

CreatorAt(from, to) == cpc = from /\ cpc' = to
ThreadAt(from, to) == tpc = from /\ tpc' = to

-----------------------------------------------------------------------------
(* startDispatch(), in the creator.                                        *)

\* thread_.start(): pthread_create, then latch_.wait().
StartThread ==
  /\ CreatorAt("new", "latch")
  /\ ThreadAt("unborn", "born")
  /\ UNCHANGED <<vars, reactor, object, ret>>

LatchOpens ==
  /\ CreatorAt("latch", "spin")
  /\ tpc # "born"
  /\ UNCHANGED <<vars, reactor, object, tpc, ret>>

\* The spin on reactor_ has read a pointer that is not null.
SpinEnds ==
  /\ CreatorAt("spin", "load")
  /\ reactor
  /\ UNCHANGED <<vars, reactor, object, tpc, ret>>

\* The second load, whose result startDispatch() returns.
ReturnReactor ==
  /\ CreatorAt("load", "using")
  /\ ret' = reactor
  /\ UNCHANGED <<vars, reactor, object, tpc>>

-----------------------------------------------------------------------------
(* threadFunc(), in the started thread.                                    *)

CountDown ==
  /\ ThreadAt("born", "construct")
  /\ UNCHANGED <<vars, reactor, object, cpc, ret>>

ConstructReactor ==
  /\ ThreadAt("construct", "callback")
  /\ object' = "alive"
  /\ UNCHANGED <<vars, reactor, cpc, ret>>

\* callback_(&reactor) returns, and the pointer is stored.
PublishReactor ==
  /\ ThreadAt("callback", "dispatch")
  /\ call[Owner] = "none"
  /\ reactor' = TRUE
  /\ UNCHANGED <<vars, object, cpc, ret>>

\* dispatch() has returned, and nullptr is stored.
RetractReactor ==
  /\ ThreadAt("dispatch", "destroy")
  /\ pc = "outside" /\ dispatches > 0
  /\ reactor' = FALSE
  /\ UNCHANGED <<vars, object, cpc, ret>>

\* ~Reactor, at the end of threadFunc().
DestroyReactor ==
  /\ ThreadAt("destroy", "exited")
  /\ object' = "destroyed"
  /\ UNCHANGED <<vars, reactor, cpc, ret>>

\* The init callback, and every callback and functor, may call the reactor.
OwnerCall ==
  /\ tpc \in {"callback", "dispatch"}
  /\ tpc = "dispatch" => pc # "outside"
  /\ \E f \in Functors : RunInReactor(Owner, f)
  /\ UNCHANGED lifeVars

\* A functor the creator has queued, once it has the reactor, stops the loop.
FunctorStops ==
  /\ FunctorsMayStop
  /\ tpc = "dispatch" /\ pc = "functor" /\ ret
  /\ stops = 0
  /\ Stop(Owner)
  /\ UNCHANGED lifeVars

RunLoop ==
  /\ tpc = "dispatch"
  /\ Dispatch \/ LoopStep \/ CallStep(Owner)
  /\ UNCHANGED lifeVars

InitCallbackStep ==
  /\ tpc = "callback"
  /\ CallStep(Owner)
  /\ UNCHANGED lifeVars

\* What epoll_wait returns for reasons outside the program.
LoopEnvironment ==
  /\ tpc = "dispatch"
  /\ PollTimeout \/ Demultiplex(TRUE)
  /\ UNCHANGED lifeVars

-----------------------------------------------------------------------------
(* The creator between startDispatch() and the destructor, and in it.      *)

\* Any other thread the creator gives the pointer to may use it.
UserCall ==
  /\ cpc = "using" /\ ret
  /\ \E t \in Others, f \in Functors : RunInReactor(t, f)
  /\ UNCHANGED lifeVars

UserCallStep ==
  /\ \E t \in Others : CallStep(t)
  /\ UNCHANGED lifeVars

\* ~ReactorThread: the load of reactor_, of a thread started or not.
DtorLoad ==
  /\ \/ CreatorAt("new", "gone")
     \/ CreatorAt("using", IF reactor THEN "stop" ELSE "gone")
  /\ \A t \in Others : call[t] = "none"
  /\ (DestroyAfterStart /\ cpc = "using") => dispatches > 0
  /\ UNCHANGED <<vars, reactor, object, tpc, ret>>

DtorStop ==
  /\ CreatorAt("stop", "join")
  /\ Stop(Creator)
  /\ UNCHANGED <<reactor, object, tpc, ret>>

\* Mutant of DtorJoin: the destructor stops the loop and does not join.
DtorDetach ==
  /\ CreatorAt("join", "gone")
  /\ call[Creator] = "none"
  /\ UNCHANGED <<vars, reactor, object, tpc, ret>>

DtorJoin ==
  /\ CreatorAt("join", "gone")
  /\ call[Creator] = "none"
  /\ tpc = "exited"
  /\ UNCHANGED <<vars, reactor, object, tpc, ret>>

-----------------------------------------------------------------------------

CreatorStep ==
  \/ LatchOpens \/ SpinEnds \/ ReturnReactor \/ DtorStop \/ DtorJoin

ThreadStep ==
  \/ CountDown \/ ConstructReactor \/ InitCallbackStep \/ PublishReactor
  \/ RunLoop \/ RetractReactor \/ DestroyReactor

ThreadNext ==
  \/ StartThread \/ CreatorStep \/ DtorLoad
  \/ ThreadStep \/ OwnerCall \/ FunctorStops \/ LoopEnvironment
  \/ UserCall \/ UserCallStep

ThreadSpec == ThreadInit /\ [][ThreadNext]_threadVars

\* Threads that can run do run.  The creator may keep the ReactorThread for
\* ever, and nothing makes epoll_wait return but the eventfd.
FairThreadSpec ==
  /\ ThreadSpec
  /\ WF_threadVars(CreatorStep)
  /\ WF_threadVars(ThreadStep)
  /\ WF_threadVars(UserCallStep)

-----------------------------------------------------------------------------
(* Properties.                                                             *)

\* Every variable has its type.
ThreadTypeOK ==
  /\ TypeOK
  /\ reactor \in BOOLEAN
  /\ object \in {"none", "alive", "destroyed"}
  /\ tpc \in {"unborn", "born", "construct", "callback", "dispatch", "destroy",
              "exited"}
  /\ cpc \in {"new", "latch", "spin", "load", "using", "stop", "join", "gone"}
  /\ ret \in BOOLEAN

\* Once the ReactorThread is destroyed, threadFunc() reads and writes none of
\* its members (callback_, reactor_) any more, joined or detached.
NoMemberUseAfterDtor == cpc = "gone" => tpc \in {"unborn", "destroy", "exited"}

\* The destructor returns: stop() reaches the loop and join() ends.
DtorReturns == (cpc = "stop") ~> (cpc = "gone")
=============================================================================
