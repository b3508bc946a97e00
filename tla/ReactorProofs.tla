---------------------------- MODULE ReactorProofs ----------------------------
(***************************************************************************)
(* Proofs about Reactor.tla for any threads, functors and bounds; and      *)
(* about ReactorThread.tla, whose reactor is Reactor.tla, so that what is  *)
(* proved about that holds for it, whenever it is destroyed and whoever    *)
(* stops the loop.                                                         *)
(*                                                                         *)
(* The argument.  queueInReactor raises hasPendingFunctors_ and, unless    *)
(* the loop is sure to look at the flag before it sleeps again, writes the *)
(* eventfd.  The loop lowers the flag in one place, behind a swap that     *)
(* emptied the queue.  So the invariant has to say more than that the loop *)
(* does not sleep on queued functors: from the swap until the loop comes   *)
(* round to its next look at the flag, a functor in the queue is covered   *)
(* by a readable eventfd, or by a thread about to make it readable,        *)
(* whatever the flag says (Covered below).                                 *)
(*                                                                         *)
(* And about TimeWheel.tla, the reactor's timers: whatever their number,   *)
(* the size of the wheel and the times, if only they lie within a turn.    *)
(* The wheel comes to a timer's slot in the millisecond the timer is due   *)
(* in or the one before: each slot it advances brings every other one a    *)
(* millisecond nearer, and no timer is left behind in the slot it leaves.  *)
(***************************************************************************)
EXTENDS ReactorThread, TimeWheel, SequenceTheorems, TLAPS

-----------------------------------------------------------------------------
(* The inductive invariant.                                                *)

\* Positions from which the loop lowers hasPendingFunctors_ or sleeps without
\* another look at it.
Blind == {"run", "functor", "clear"} \cup
           (IF OwnerQueuesEarly THEN {} ELSE {"outside", "while", "poll"})

Covered ==
  pendingFunctors # <<>> /\ (~hasPendingFunctors \/ pc \in Blind)
    => eventfd \/ Signalling

\* The owner is inside a call only while it executes code of the program.
OwnerCalls ==
  call[Owner] # "none" =>
    pc \in UserCode \ (IF OwnerQueuesEarly THEN {} ELSE {"outside"})

IInv == TypeOK /\ OwnerCalls /\ Covered /\ NoSleepAfterStop

-----------------------------------------------------------------------------

\* The part of TypeOK that is about flags, which Zenon handles better than SMT.
FlagsOK ==
  /\ dispatching \in BOOLEAN
  /\ hasPendingFunctors \in BOOLEAN
  /\ callingPendingFunctors \in BOOLEAN
  /\ callingPendingFunctors <=> pc \in {"run", "functor"}
  /\ eventfd \in BOOLEAN

\* The initial state satisfies the invariant: nothing is queued.
LEMMA InitInv == Init => IInv
<1> SUFFICES ASSUME Init PROVE IInv
  OBVIOUS
<1>1. call \in [Threads -> {"none", "pushed", "waking"}] /\ call[Owner] = "none"
  BY DEF Init, Threads
<1>2. FlagsOK
  BY Zenon DEF Init, FlagsOK
<1>3. TypeOK
  BY <1>1, <1>2, BoundsAssumption DEF Init, TypeOK, FlagsOK, Positions, UserCode
<1> QED
  BY <1>1, <1>3 DEF Init, IInv, OwnerCalls, Covered, NoSleepAfterStop

\* Every step keeps the types.
LEMMA TypeStep == TypeOK /\ OwnerCalls /\ [Next]_vars => TypeOK'
<1> SUFFICES ASSUME TypeOK, OwnerCalls, [Next]_vars PROVE TypeOK'
  OBVIOUS
<1> USE OwnerAssumption, BoundsAssumption
    DEF TypeOK, OwnerCalls, Positions, UserCode, Threads, vars, queueVars,
        loopVars, callVars, Goto, MayCall
<1>1. ASSUME NEW t \in Threads, NEW f \in Functors, RunInReactor(t, f)
      PROVE  TypeOK'
  <2>1. CASE PushFunctor(t, f)
    <3>1. call' \in [Threads -> {"none", "pushed", "waking"}]
      BY <2>1 DEF PushFunctor
    <3>2. Append(pendingFunctors, f) \in Seq(Functors)
      BY AppendProperties
    <3> QED
      BY <2>1, <3>1, <3>2 DEF PushFunctor
  <2>2. CASE RunInline(f)
    <3>1. Append(ran, f) \in Seq(Functors)
      BY AppendProperties
    <3>2. FlagsOK'
      BY <2>2, Zenon DEF RunInline, FlagsOK
    <3> QED
      BY <2>2, <3>1, <3>2 DEF RunInline, FlagsOK
  <2> QED
    BY <1>1, <2>1, <2>2 DEF RunInReactor
<1>2. ASSUME NEW t \in Threads, CallStep(t) PROVE TypeOK'
  <2>1. CASE FlagPending(t)
    <3>1. call' \in [Threads -> {"none", "pushed", "waking"}]
      BY <2>1 DEF FlagPending
    <3> QED
      BY <2>1, <3>1 DEF FlagPending
  <2>2. CASE Wakeup(t)
    <3>1. call' \in [Threads -> {"none", "pushed", "waking"}]
      BY <2>2 DEF Wakeup
    <3> QED
      BY <2>2, <3>1 DEF Wakeup
  <2> QED
    BY <1>2, <2>1, <2>2 DEF CallStep
<1>3. ASSUME NEW t \in Threads, Stop(t) PROVE TypeOK'
  <2>1. call' \in [Threads -> {"none", "pushed", "waking"}]
    BY <1>3 DEF Stop
  <2>2. FlagsOK'
    BY <1>3, Zenon DEF Stop, FlagsOK
  <2> QED
    BY <1>3, <2>1, <2>2 DEF Stop, FlagsOK
<1>4. CASE Dispatch
  BY <1>4 DEF Dispatch
<1>5. ASSUME NEW io \in BOOLEAN, Demultiplex(io) PROVE TypeOK'
  BY <1>5 DEF Demultiplex
<1>6. CASE PollTimeout
  BY <1>6 DEF PollTimeout
<1>7. CASE TestDispatching
  BY <1>7 DEF TestDispatching
<1>8. CASE ReadEventfd
  BY <1>8 DEF ReadEventfd
<1>9. CASE HandleIo
  BY <1>9 DEF HandleIo
<1>10. CASE CallbackReturns
  BY <1>10 DEF CallbackReturns
<1>11. CASE EventsHandled
  BY <1>11 DEF EventsHandled
<1>12. CASE Tock
  BY <1>12 DEF Tock
<1>13. CASE CheckPending
  BY <1>13 DEF CheckPending
<1>14. CASE SwapPending
  BY <1>14 DEF SwapPending
<1>15. CASE RunFunctor
  BY <1>15 DEF RunFunctor
<1>16. CASE BatchDone
  BY <1>16 DEF BatchDone
<1>17. CASE ClearPending
  BY <1>17 DEF ClearPending
<1>18. CASE UNCHANGED vars
  BY <1>18
<1> QED
  BY <1>1, <1>2, <1>3, <1>4, <1>5, <1>6, <1>7, <1>8, <1>9, <1>10, <1>11,
     <1>12, <1>13, <1>14, <1>15, <1>16, <1>17, <1>18 DEF Next, LoopStep

\* Every step keeps the invariant.
LEMMA InvStep == IInv /\ [Next]_vars => IInv'
<1> SUFFICES ASSUME IInv, [Next]_vars PROVE IInv'
  OBVIOUS
<1>0. TypeOK'
  BY TypeStep DEF IInv
<1> USE OwnerAssumption, BoundsAssumption
    DEF IInv, OwnerCalls, Covered, NoSleepAfterStop, Blind, UserCode,
        vars, queueVars, loopVars, callVars, Goto, MayCall
<1> DEFINE Rest == OwnerCalls /\ Covered /\ NoSleepAfterStop
<1> SUFFICES Rest'
  BY <1>0
<1>1. ASSUME NEW t \in Threads, NEW f \in Functors, RunInReactor(t, f)
      PROVE  Rest'
  <2>1. CASE PushFunctor(t, f)
    <3>1. call'[t] = "pushed"
      BY <2>1 DEF PushFunctor, TypeOK
    <3>2. Signalling'
      BY <3>1 DEF Signalling
    <3>3. OwnerCalls'
      BY <2>1 DEF PushFunctor, TypeOK, Threads
    <3> QED
      BY <2>1, <3>2, <3>3 DEF PushFunctor
  <2>2. CASE RunInline(f)
    BY <2>2 DEF RunInline, Signalling
  <2> QED
    BY <1>1, <2>1, <2>2 DEF RunInReactor
<1>2. ASSUME NEW t \in Threads, FlagPending(t) PROVE Rest'
  <2>1. OwnerCalls'
    BY <1>2 DEF FlagPending, TypeOK, Threads
  <2>2. CASE t # Owner \/ callingPendingFunctors
    <3>1. call'[t] = "waking"
      BY <1>2, <2>2 DEF FlagPending, TypeOK
    <3>2. Signalling'
      BY <3>1 DEF Signalling
    <3> QED
      BY <1>2, <2>1, <3>2 DEF FlagPending
  <2>3. CASE ~(t # Owner \/ callingPendingFunctors)
    <3>1. pc \notin Blind \cup {"poll"}
      BY <1>2, <2>3 DEF FlagPending, TypeOK
    <3> QED
      BY <1>2, <2>1, <3>1 DEF FlagPending
  <2> QED
    BY <2>2, <2>3
<1>3. ASSUME NEW t \in Threads, Wakeup(t) PROVE Rest'
  <2>1. OwnerCalls'
    BY <1>3 DEF Wakeup, TypeOK, Threads
  <2> QED
    BY <1>3, <2>1 DEF Wakeup
<1>4. ASSUME NEW t \in Threads, Stop(t) PROVE Rest'
  <2>1. CASE t = Owner
    <3>1. call' = call /\ pc # "poll"
      BY <1>4, <2>1 DEF Stop, TypeOK
    <3> QED
      BY <1>4, <3>1 DEF Stop, Signalling
  <2>2. CASE t # Owner
    <3>1. call'[t] = "waking" /\ call'[Owner] = call[Owner]
      BY <1>4, <2>2 DEF Stop, TypeOK, Threads
    <3>2. Signalling'
      BY <3>1 DEF Signalling
    <3> QED
      BY <1>4, <3>1, <3>2 DEF Stop
  <2> QED
    BY <2>1, <2>2
<1> USE DEF Signalling
<1>5. CASE Dispatch
  BY <1>5 DEF Dispatch
<1>6. ASSUME NEW io \in BOOLEAN, Demultiplex(io) PROVE Rest'
  BY <1>6 DEF Demultiplex
<1>7. CASE PollTimeout
  BY <1>7 DEF PollTimeout
<1>8. CASE TestDispatching
  BY <1>8 DEF TestDispatching
<1>9. CASE ReadEventfd
  BY <1>9 DEF ReadEventfd
<1>10. CASE HandleIo
  BY <1>10 DEF HandleIo
<1>11. CASE CallbackReturns
  BY <1>11 DEF CallbackReturns
<1>12. CASE EventsHandled
  BY <1>12 DEF EventsHandled
<1>13. CASE Tock
  BY <1>13 DEF Tock
<1>14. CASE CheckPending
  BY <1>14 DEF CheckPending
<1>15. CASE SwapPending
  BY <1>15 DEF SwapPending
<1>16. CASE RunFunctor
  BY <1>16 DEF RunFunctor
<1>17. CASE BatchDone
  BY <1>17 DEF BatchDone
<1>18. CASE ClearPending
  BY <1>18 DEF ClearPending
<1>19. CASE UNCHANGED vars
  BY <1>19
<1> QED
  BY <1>1, <1>2, <1>3, <1>4, <1>5, <1>6, <1>7, <1>8, <1>9, <1>10, <1>11,
     <1>12, <1>13, <1>14, <1>15, <1>16, <1>17, <1>18, <1>19
     DEF Next, LoopStep, CallStep
-----------------------------------------------------------------------------
(* The theorems.                                                           *)

\* The inductive invariant holds in every reachable state.
LEMMA Invariant == Spec => []IInv
<1>1. Init => IInv
  BY InitInv
<1>2. IInv /\ [Next]_vars => IInv'
  BY InvStep
<1> QED
  BY <1>1, <1>2, PTL DEF Spec

\* Every variable keeps its type, and callingPendingFunctors_ is set exactly
\* while doPendingFunctors executes its batch.
THEOREM TypeCorrect == Spec => []TypeOK
<1>1. IInv => TypeOK
  BY DEF IInv
<1> QED
  BY <1>1, Invariant, PTL

\* While a functor is queued, the flag is up, the eventfd is readable or a
\* thread is about to raise one of them: the loop forgets no functor.
THEOREM NothingForgotten == Spec => []PendingIsNoticed
<1>1. IInv => PendingIsNoticed
  BY DEF IInv, Covered, PendingIsNoticed
<1> QED
  BY <1>1, Invariant, PTL

\* No lost wakeup: the loop never sleeps in epoll_wait on queued functors that
\* no wakeup will follow, if the owner queues none outside dispatch().
THEOREM NoLostWakeup == ASSUME ~OwnerQueuesEarly PROVE Spec => []NoSleepOnPending
<1>1. IInv => NoSleepOnPending
  BY DEF IInv, Covered, Blind, NoSleepOnPending
<1> QED
  BY <1>1, Invariant, PTL

\* No lost stop: once stop() has cleared dispatching_ inside dispatch(), the
\* loop never sleeps in epoll_wait without a wakeup that follows.
THEOREM NoLostStop == Spec => []NoSleepAfterStop
<1>1. IInv => NoSleepAfterStop
  BY DEF IInv
<1> QED
  BY <1>1, Invariant, PTL

\* While doPendingFunctors executes its batch, the batch only shrinks: a
\* functor queued meanwhile waits for the loop's next iteration.
THEOREM BatchOnlyShrinks == Spec => BatchIsFixed
<1> DEFINE A == callingPendingFunctors =>
                  batch' = batch \/ (batch # <<>> /\ batch' = Tail(batch))
<1>1. IInv /\ [Next]_vars => [A]_vars
  <2> SUFFICES ASSUME IInv, [Next]_vars PROVE A
    OBVIOUS
  <2> USE DEF IInv, TypeOK, Goto, vars, loopVars
  <2>1. CASE SwapPending
    BY <2>1 DEF SwapPending
  <2>2. CASE RunFunctor
    BY <2>2 DEF RunFunctor
  <2>3. CASE UNCHANGED batch
    BY <2>3
  <2>4. SwapPending \/ RunFunctor \/ UNCHANGED batch
    BY DEF Next, LoopStep, CallStep, RunInReactor, PushFunctor, RunInline,
       FlagPending, Wakeup, Stop, Dispatch, TestDispatching, Demultiplex,
       PollTimeout, ReadEventfd, HandleIo, CallbackReturns, EventsHandled,
       Tock, CheckPending, BatchDone, ClearPending
  <2> QED
    BY <2>1, <2>2, <2>3, <2>4
<1> QED
  BY <1>1, Invariant, PTL DEF Spec, BatchIsFixed
-----------------------------------------------------------------------------
(* The refinement of Executor.tla.                                         *)

\* Queueing behind the swapped-out batch is queueing at the end of the whole.
LEMMA AppendConcat ==
  ASSUME NEW S, NEW s \in Seq(S), NEW t \in Seq(S), NEW e \in S
  PROVE  s \o Append(t, e) = Append(s \o t, e)
<1>1. Append(t, e) = t \o <<e>> /\ <<e>> \in Seq(S)
  BY AppendProperties
<1>2. s \o t \in Seq(S)
  BY ConcatProperties
<1>3. Append(s \o t, e) = (s \o t) \o <<e>>
  BY <1>2, AppendProperties
<1> QED
  BY <1>1, <1>3, ConcatAssociative, SMTT(30)

\* Taking the head off the batch is taking it off the whole queue.
LEMMA HeadTailConcat ==
  ASSUME NEW S, NEW s \in Seq(S), NEW t \in Seq(S), s # <<>>
  PROVE  /\ s \o t # <<>>
         /\ Head(s \o t) = Head(s)
         /\ Tail(s \o t) = Tail(s) \o t
<1>1. /\ s \o t \in Seq(S) /\ Len(s \o t) = Len(s) + Len(t)
      /\ \A i \in 1..(Len(s) + Len(t)) :
            (s \o t)[i] = IF i <= Len(s) THEN s[i] ELSE t[i - Len(s)]
  BY ConcatProperties
<1>2. Len(s) \in Nat \ {0} /\ Len(t) \in Nat
  OBVIOUS
<1>3. /\ Tail(s) \in Seq(S) /\ Len(Tail(s)) = Len(s) - 1
      /\ \A i \in 1..Len(Tail(s)) : Tail(s)[i] = s[i + 1]
  BY HeadTailProperties
<1>4. s \o t # <<>>
  BY <1>1, <1>2
<1>5. /\ Tail(s \o t) \in Seq(S) /\ Len(Tail(s \o t)) = Len(s) + Len(t) - 1
      /\ \A i \in 1..(Len(s) + Len(t) - 1) : Tail(s \o t)[i] = (s \o t)[i + 1]
  BY <1>1, <1>4, HeadTailProperties
<1>6. /\ Tail(s) \o t \in Seq(S)
      /\ Len(Tail(s) \o t) = Len(s) - 1 + Len(t)
      /\ \A i \in 1..(Len(s) - 1 + Len(t)) :
            (Tail(s) \o t)[i] =
              IF i <= Len(s) - 1 THEN Tail(s)[i] ELSE t[i - (Len(s) - 1)]
  BY <1>3, ConcatProperties
<1>7. \A i \in 1..(Len(s) + Len(t) - 1) : Tail(s \o t)[i] = (Tail(s) \o t)[i]
  BY <1>1, <1>2, <1>3, <1>5, <1>6
<1>8. Tail(s \o t) = Tail(s) \o t
  BY <1>2, <1>5, <1>6, <1>7, SeqEqual
<1> QED
  BY <1>1, <1>2, <1>4, <1>8
\* Every step of the reactor is a step of the queue or leaves it alone.
LEMMA QueueStep ==
  TypeOK /\ [Next]_vars => [Queue!Next]_Queue!vars
<1> SUFFICES ASSUME TypeOK, [Next]_vars PROVE [Queue!Next]_Queue!vars
  OBVIOUS
<1> USE DEF TypeOK, Queue!vars
<1>0. ASSUME NEW f \in Functors, New(f) PROVE Queue!New(f)
  <2>1. \A s : Queue!Range(s) = Range(s)
    BY DEF Queue!Range, Range
  <2>2. Range(batch \o pendingFunctors) = Range(batch) \cup Range(pendingFunctors)
    BY RangeConcatenation
  <2> QED
    BY <1>0, <2>1, <2>2 DEF New, Queue!New
<1>1. ASSUME NEW t \in Threads, NEW f \in Functors, PushFunctor(t, f)
      PROVE  Queue!Submit(f)
  <2>1. batch \o Append(pendingFunctors, f) = Append(batch \o pendingFunctors, f)
    BY AppendConcat
  <2>2. /\ New(f) /\ pendingFunctors' = Append(pendingFunctors, f)
        /\ UNCHANGED <<batch, ran>>
    BY <1>1 DEF PushFunctor, loopVars
  <2> QED
    BY <1>0, <2>1, <2>2 DEF Queue!Submit
<1>2. ASSUME NEW f \in Functors, RunInline(f) PROVE Queue!ExecuteInline(f)
  <2>1. /\ New(f) /\ ran' = Append(ran, f)
        /\ UNCHANGED <<batch, pendingFunctors>>
    BY <1>2 DEF RunInline, loopVars, queueVars
  <2> QED
    BY <1>0, <2>1 DEF Queue!ExecuteInline
<1>3. CASE RunFunctor
  <2>1. /\ batch # <<>> /\ ran' = Append(ran, Head(batch))
        /\ batch' = Tail(batch) /\ pendingFunctors' = pendingFunctors
    BY <1>3 DEF RunFunctor, queueVars
  <2>2. /\ batch \o pendingFunctors # <<>>
        /\ Head(batch \o pendingFunctors) = Head(batch)
        /\ Tail(batch \o pendingFunctors) = Tail(batch) \o pendingFunctors
    BY <2>1, HeadTailConcat
  <2>3. Queue!Execute
    BY <2>1, <2>2 DEF Queue!Execute
  <2> QED
    BY <2>3 DEF Queue!Next
<1>4. CASE SwapPending
  <2>1. batch = <<>> /\ UNCHANGED ran
    BY <1>4 DEF SwapPending, Goto, callVars
  <2>2. batch' = pendingFunctors /\ pendingFunctors' = <<>>
    BY <1>4 DEF SwapPending
  <2> QED
    BY <2>1, <2>2, ConcatEmptySeq
<1>5. CASE UNCHANGED <<batch, pendingFunctors, ran>>
  BY <1>5
<1>6. \/ \E t \in Threads, f \in Functors : PushFunctor(t, f)
      \/ \E f \in Functors : RunInline(f)
      \/ RunFunctor
      \/ SwapPending
      \/ UNCHANGED <<batch, pendingFunctors, ran>>
  BY DEF Next, LoopStep, CallStep, RunInReactor, FlagPending, Wakeup, Stop,
     Dispatch, TestDispatching, Demultiplex, PollTimeout, ReadEventfd,
     HandleIo, CallbackReturns, EventsHandled, Tock, CheckPending, BatchDone,
     ClearPending, vars, queueVars, loopVars, callVars
<1> QED
  BY <1>1, <1>2, <1>3, <1>4, <1>5, <1>6 DEF Queue!Next

\* The reactor implements one queue: functors are executed in the order they
\* were queued, each once, whatever the threads' interleaving.
THEOREM ReactorImplementsQueue == Spec => Implements
<1>1. Init => Queue!Init
  BY DEF Init, Queue!Init
<1>2. TypeOK /\ [Next]_vars => [Queue!Next]_Queue!vars
  BY QueueStep
<1> QED
  BY <1>1, <1>2, TypeCorrect, PTL DEF Spec, Implements, Queue!Spec

-----------------------------------------------------------------------------
(* The life of a reactor thread.                                           *)

\* Where the creator and the started thread can be at the same time: once the
\* creator has seen the reactor, the thread dispatches or has done so, and the
\* creator gets past its destructor only behind the thread's last use.
Lockstep ==
  /\ reactor => tpc = "dispatch"
  /\ tpc = "dispatch" => reactor
  /\ cpc = "new" => tpc = "unborn"
  /\ cpc \in {"load", "using", "stop", "join"} =>
       tpc \in {"dispatch", "destroy", "exited"}
  /\ cpc = "gone" => tpc \in {"unborn", "destroy", "exited"}

\* The steps of a thread that are steps of its reactor leave the life of both
\* alone.
LEMMA LifeKept == Lockstep /\ UNCHANGED lifeVars => Lockstep'
BY DEF Lockstep, lifeVars

LEMMA LockstepInit == ThreadInit => Lockstep
BY DEF ThreadInit, Lockstep

LEMMA LockstepStep == Lockstep /\ [ThreadNext]_threadVars => Lockstep'
<1> SUFFICES ASSUME Lockstep, [ThreadNext]_threadVars PROVE Lockstep'
  OBVIOUS
<1>1. CASE StartThread
  BY <1>1 DEF Lockstep, StartThread, CreatorAt, ThreadAt
<1>2. CASE LatchOpens \/ SpinEnds \/ ReturnReactor
  BY <1>2 DEF Lockstep, LatchOpens, SpinEnds, ReturnReactor, CreatorAt
<1>3. CASE DtorLoad
  BY <1>3 DEF Lockstep, DtorLoad, CreatorAt
<1>4. CASE DtorStop \/ DtorJoin
  BY <1>4 DEF Lockstep, DtorStop, DtorJoin, CreatorAt
<1>5. CASE CountDown \/ ConstructReactor
  BY <1>5 DEF Lockstep, CountDown, ConstructReactor, ThreadAt
<1>6. CASE PublishReactor \/ RetractReactor \/ DestroyReactor
  BY <1>6 DEF Lockstep, PublishReactor, RetractReactor, DestroyReactor, ThreadAt
<1>7. CASE \/ InitCallbackStep \/ RunLoop \/ OwnerCall \/ FunctorStops
           \/ LoopEnvironment \/ UserCall \/ UserCallStep
  <2>1. UNCHANGED lifeVars
    BY <1>7 DEF InitCallbackStep, RunLoop, OwnerCall, FunctorStops,
                LoopEnvironment, UserCall, UserCallStep
  <2> QED
    BY <2>1, LifeKept
<1>8. CASE UNCHANGED threadVars
  BY <1>8, LifeKept DEF threadVars
<1> QED
  BY <1>1, <1>2, <1>3, <1>4, <1>5, <1>6, <1>7, <1>8
     DEF ThreadNext, CreatorStep, ThreadStep

\* The thread does not touch the members of a ReactorThread after its
\* destructor, whether that has joined the thread or found nothing to stop
\* (ReactorThread.cc:9 the destructor, 25 threadFunc).
THEOREM NoUseAfterDtor == ThreadSpec => []NoMemberUseAfterDtor
<1>1. Lockstep => NoMemberUseAfterDtor
  BY DEF Lockstep, NoMemberUseAfterDtor
<1> QED
  BY <1>1, LockstepInit, LockstepStep, PTL DEF ThreadSpec

-----------------------------------------------------------------------------
(* The composition.                                                        *)

\* A step of the composition is a step of the reactor, or none of it.
LEMMA ReactorStep == [ThreadNext]_threadVars => [Next]_vars
<1> SUFFICES ASSUME [ThreadNext]_threadVars PROVE Next \/ UNCHANGED vars
  OBVIOUS
<1>1. Owner \in Threads /\ Others \subseteq Threads /\ Creator \in Threads
  BY CreatorAssumption DEF Threads
<1>2. CASE \/ StartThread \/ LatchOpens \/ SpinEnds \/ ReturnReactor
           \/ DtorLoad \/ DtorJoin \/ CountDown \/ ConstructReactor
           \/ PublishReactor \/ RetractReactor \/ DestroyReactor
           \/ UNCHANGED threadVars
  BY <1>2 DEF StartThread, LatchOpens, SpinEnds, ReturnReactor, DtorLoad,
              DtorJoin, CountDown, ConstructReactor, PublishReactor,
              RetractReactor, DestroyReactor, threadVars
<1>3. CASE DtorStop \/ FunctorStops
  BY <1>1, <1>3 DEF DtorStop, FunctorStops, Next
<1>4. CASE InitCallbackStep \/ RunLoop \/ UserCallStep
  BY <1>1, <1>4 DEF InitCallbackStep, RunLoop, UserCallStep, Next
<1>5. CASE OwnerCall \/ UserCall
  BY <1>1, <1>5 DEF OwnerCall, UserCall, Next
<1>6. CASE LoopEnvironment
  BY <1>6 DEF LoopEnvironment, Next
<1> QED
  BY <1>2, <1>3, <1>4, <1>5, <1>6 DEF ThreadNext, CreatorStep, ThreadStep

\* What a thread of its own adds to a reactor are conditions on its steps: it
\* still executes functors once and in order and misses no stop, while threads
\* start it, use it and destroy it (ReactorThread.cc:25 threadFunc).
THEOREM ThreadRunsReactor == ThreadSpec => Implements /\ []NoSleepAfterStop
<1>1. ThreadInit => Init
  BY DEF ThreadInit
<1>2. ThreadSpec => Spec
  BY <1>1, ReactorStep, PTL DEF ThreadSpec, Spec
<1> QED
  BY <1>2, ReactorImplementsQueue, NoLostStop, PTL

-----------------------------------------------------------------------------
(* The time wheel.                                                         *)

\* What the wheel is for: no timer of less than a millisecond or, with the
\* loop as late as it gets, of a turn of the wheel; functors that add timers
\* are executed in time; and only a timer at the head of a list that tock()
\* is not at is cancelled.
WithinATurn ==
  /\ \A d \in Delays \cup Intervals : Unit <= d /\ d + MaxLag < NumSlot * Unit
  /\ Prompt
  /\ ~CancelAny

WheelTypes ==
  /\ WheelTypeOK
  /\ due \in [Timers -> Int]
  /\ interval \in [Timers -> Intervals \cup {0}]

\* The wheel is not ahead of the clock, and while tock() turns it, it will
\* not be.
Behind ==
  /\ now - start <= MaxLag
  /\ tockPc # "idle" => start + Unit * left <= now

\* A timer whose functor waits is due neither too soon nor too late.
Waiting ==
  \A t \in Timers : status[t] = "queued" =>
    due[t] - now >= Unit /\ due[t] - start < NumSlot * Unit

\* s is a list of armed timers of slot i, none of them twice.
ListOf(s, i) ==
  /\ IsInjective(s)
  /\ \A t \in Range(s) : status[t] = "linked" /\ index[t] = i

\* tock() is at the list of the present slot, and has taken timers from it.
AtList == tockPc \in {"list", "callback"}

Lists ==
  /\ \A i \in Slots : i # startIdx \/ ~AtList => ListOf(slot[i], i)
  /\ AtList => ListOf(todo, startIdx)
  /\ tockPc = "callback" => todo # <<>>

\* How many milliseconds the wheel is before a slot.
Ahead(i) == (i - startIdx) % NumSlot

\* An armed timer is in its slot's list, the wheel comes to that slot in time,
\* and the present slot has no others than those tock() will run.
Armed ==
  \A t \in Timers : status[t] = "linked" =>
    /\ index[t] \in Slots
    /\ t \in Range(slot[index[t]])
    /\ index[t] = startIdx => Processing(t)
    /\ due[t] - (start + Unit * Ahead(index[t])) \in 0..Unit

WheelInv ==
  WheelTypes /\ NoFault /\ Behind /\ Waiting /\ Lists /\ Armed

\* What is cut off a time is less than a millisecond, or a whole one where
\* the product of the double falls short.
LEMMA MillisOf ==
  ASSUME NEW d \in Nat
  PROVE  /\ Millis(d) \in Nat
         /\ d - Unit * Millis(d) \in 0..Unit
         /\ d >= Unit => Millis(d) >= 1
         /\ d < NumSlot * Unit => Millis(d) < NumSlot
<1>0. Unit \in Nat \ {0} /\ NumSlot \in Nat \ {0}
  BY WheelAssumption
<1> DEFINE q == d \div Unit
<1>1. q \in Int /\ Unit * q <= d /\ d < Unit * (q + 1)
  BY <1>0
<1> HIDE DEF q
<1>2. q >= 0
  <2> SUFFICES ASSUME q <= -1 PROVE FALSE
    BY <1>1
  <2>1. q + 1 <= 0
    BY <1>1
  <2>2. Unit * (q + 1) <= 0
    BY <1>0, <1>1, <2>1
  <2> QED
    BY <1>0, <1>1, <2>2
<1>3. CASE d \notin RoundedDown
  <2>1. Millis(d) = q
    BY <1>3 DEF Millis, q
  <2>2. Unit * (q + 1) = Unit * q + Unit
    BY <1>0, <1>1
  <2>3. d - Unit * q \in 0..Unit
    <3>1. PICK p \in Int : p = Unit * q
      BY <1>0, <1>1
    <3> QED
      BY <1>0, <1>1, <2>2, <3>1
  <2>4. d >= Unit => q >= 1
    <3> SUFFICES ASSUME d >= Unit, q = 0 PROVE FALSE
      BY <1>1, <1>2
    <3>1. Unit * (q + 1) = Unit
      BY <1>0
    <3> QED
      BY <1>0, <1>1, <3>1
  <2>5. d < NumSlot * Unit => q < NumSlot
    <3> SUFFICES ASSUME d < NumSlot * Unit, q >= NumSlot PROVE FALSE
      BY <1>0, <1>1
    <3>1. NumSlot * Unit <= Unit * q
      BY <1>0, <1>1
    <3>2. PICK p, n \in Int : p = Unit * q /\ n = NumSlot * Unit
      BY <1>0, <1>1
    <3> QED
      BY <1>1, <3>1, <3>2
  <2> QED
    BY <1>1, <1>2, <2>1, <2>3, <2>4, <2>5
<1>4. CASE d \in RoundedDown
  <2>1. PICK k \in 2..(NumSlot + MaxLag) : d = k * Unit
    BY <1>4, TimesAssumption
  <2>2. k \in Nat /\ k >= 2
    BY <1>0, <2>1, TimesAssumption
  <2>3. q = k
    <3>1. d = Unit * k /\ Unit * (k + 1) = Unit * k + Unit
      BY <1>0, <2>1, <2>2
    <3>2. q >= k
      <4> SUFFICES ASSUME q + 1 <= k PROVE FALSE
        BY <1>1, <2>2
      <4>1. Unit * (q + 1) <= Unit * k
        BY <1>0, <1>1, <2>2
      <4>2. PICK x, y \in Int : x = Unit * (q + 1) /\ y = Unit * k
        BY <1>0, <1>1, <2>2
      <4> QED
        BY <1>1, <3>1, <4>1, <4>2
    <3>3. q <= k
      <4> SUFFICES ASSUME k + 1 <= q PROVE FALSE
        BY <1>1, <2>2
      <4>1. Unit * (k + 1) <= Unit * q
        BY <1>0, <1>1, <2>2
      <4>2. PICK x, y \in Int : x = Unit * q /\ y = Unit * k
        BY <1>0, <1>1, <2>2
      <4> QED
        BY <1>0, <1>1, <3>1, <4>1, <4>2
    <3> QED
      BY <1>1, <2>2, <3>2, <3>3
  <2>4. Millis(d) = k - 1
    BY <1>4, <2>3 DEF Millis, q
  <2>5. Unit * (k - 1) = d - Unit
    BY <1>0, <2>1, <2>2
  <2>6. d - Unit * (k - 1) \in 0..Unit
    BY <1>0, <2>5
  <2>7. d < NumSlot * Unit => k < NumSlot
    <3> SUFFICES ASSUME d < NumSlot * Unit, k >= NumSlot PROVE FALSE
      BY <1>0, <2>2
    <3>1. NumSlot * Unit <= k * Unit
      BY <1>0, <2>2
    <3>2. PICK n \in Int : n = NumSlot * Unit
      BY <1>0
    <3> QED
      BY <2>1, <3>1, <3>2
  <2> QED
    BY <1>0, <2>2, <2>4, <2>6, <2>7
<1> QED
  BY <1>3, <1>4

\* The slot that many milliseconds ahead is another one, and that far ahead.
LEMMA SlotAhead ==
  ASSUME NEW s \in Slots, NEW m \in 1..(NumSlot - 1)
  PROVE  /\ (s + m) % NumSlot \in Slots \ {s}
         /\ (((s + m) % NumSlot) - s) % NumSlot = m
<1>0. NumSlot \in Nat \ {0} /\ s \in 0..(NumSlot - 1)
  BY WheelAssumption DEF Slots
<1>1. CASE s + m < NumSlot
  <2>1. (s + m) % NumSlot = s + m
    BY <1>0, <1>1
  <2>2. m % NumSlot = m /\ (s + m) - s = m
    BY <1>0
  <2> QED
    BY <1>0, <1>1, <2>1, <2>2 DEF Slots
<1>2. CASE s + m >= NumSlot
  <2>1. s + m \in NumSlot..(2 * NumSlot - 1)
    BY <1>0, <1>2
  <2>2. (s + m) % NumSlot = s + m - NumSlot
    BY <1>0, <2>1
  <2>3. PICK x \in Int : x = m - NumSlot
    BY <1>0
  <2>4. x \in (-NumSlot)..(-1)
    BY <1>0, <2>3
  <2>5. x % NumSlot = x + NumSlot
    BY <1>0, <2>4
  <2>6. (s + m - NumSlot) - s = x /\ x + NumSlot = m
    BY <1>0, <2>3
  <2>7. s + m - NumSlot \in Slots \ {s}
    BY <1>0, <1>2 DEF Slots
  <2> QED
    BY <2>2, <2>5, <2>6, <2>7
<1> QED
  BY <1>0, <1>1, <1>2

\* One slot on, every other slot is one millisecond nearer.
LEMMA OneSlotOn ==
  ASSUME NEW s \in Slots, NEW n, n = (s + 1) % NumSlot, NEW i \in Slots
  PROVE  /\ n \in Slots
         /\ (i - s) % NumSlot \in Nat
         /\ (i - i) % NumSlot = 0
         /\ i # s => /\ (i - s) % NumSlot >= 1
                     /\ (i - n) % NumSlot = ((i - s) % NumSlot) - 1
<1>0. /\ NumSlot \in Nat \ {0}
      /\ s \in 0..(NumSlot - 1) /\ i \in 0..(NumSlot - 1)
  BY WheelAssumption DEF Slots
<1>1. \A x \in 0..(NumSlot - 1) : x % NumSlot = x
  BY <1>0
<1>2. \A x \in (-NumSlot)..(-1) : x % NumSlot = x + NumSlot
  BY <1>0
<1>3. \A x \in NumSlot..(2 * NumSlot - 1) : x % NumSlot = x - NumSlot
  BY <1>0
<1>4. n \in Slots /\ n = IF s + 1 < NumSlot THEN s + 1 ELSE 0
  <2>1. CASE s + 1 < NumSlot
    BY <1>0, <1>1, <2>1 DEF Slots
  <2>2. CASE s + 1 >= NumSlot
    <3>1. s + 1 = NumSlot /\ s + 1 \in NumSlot..(2 * NumSlot - 1)
      BY <1>0, <2>2
    <3>2. n = 0
      BY <1>3, <3>1
    <3> QED
      BY <1>0, <2>2, <3>2 DEF Slots
  <2> QED
    BY <1>0, <2>1, <2>2
<1>5. \A x, y \in 0..(NumSlot - 1) :
        (x - y) % NumSlot = IF x >= y THEN x - y ELSE x - y + NumSlot
  <2> SUFFICES ASSUME NEW x \in 0..(NumSlot - 1), NEW y \in 0..(NumSlot - 1)
               PROVE  (x - y) % NumSlot = IF x >= y THEN x - y ELSE x - y + NumSlot
    OBVIOUS
  <2>1. PICK z \in Int : z = x - y
    OBVIOUS
  <2>2. CASE x >= y
    <3>1. z \in 0..(NumSlot - 1)
      BY <1>0, <2>1, <2>2
    <3> QED
      BY <1>1, <2>1, <2>2, <3>1
  <2>3. CASE x < y
    <3>1. z \in (-NumSlot)..(-1)
      BY <1>0, <2>1, <2>3
    <3> QED
      BY <1>2, <2>1, <2>3, <3>1
  <2> QED
    BY <2>2, <2>3
<1>6. n \in 0..(NumSlot - 1)
  BY <1>4 DEF Slots
<1>7. /\ (i - s) % NumSlot = IF i >= s THEN i - s ELSE i - s + NumSlot
      /\ (i - i) % NumSlot = 0
      /\ (i - n) % NumSlot = IF i >= n THEN i - n ELSE i - n + NumSlot
  <2>1. (i - s) % NumSlot = IF i >= s THEN i - s ELSE i - s + NumSlot
    BY <1>0, <1>5, Zenon
  <2>2. (i - n) % NumSlot = IF i >= n THEN i - n ELSE i - n + NumSlot
    BY <1>0, <1>5, <1>6, Zenon
  <2>3. (i - i) % NumSlot = 0
    <3>1. i - i = 0 /\ 0 \in 0..(NumSlot - 1)
      BY <1>0
    <3> QED
      BY <1>1, <3>1
  <2> QED
    BY <2>1, <2>2, <2>3
<1>8. i # s => /\ (i - s) % NumSlot >= 1
               /\ (i - n) % NumSlot = ((i - s) % NumSlot) - 1
  BY <1>0, <1>4, <1>7
<1>9. (i - s) % NumSlot \in Nat
  BY <1>0, <1>7
<1> QED
  BY <1>4, <1>7, <1>8, <1>9

\* A timer in front of a list.
LEMMA LinkedFirst ==
  ASSUME NEW S, NEW s \in Seq(S), NEW t \in S, IsInjective(s), t \notin Range(s)
  PROVE  /\ <<t>> \o s \in Seq(S) /\ IsInjective(<<t>> \o s)
         /\ Range(<<t>> \o s) = Range(s) \cup {t}
<1> DEFINE x == <<t>> \o s
<1>1. /\ x \in Seq(S) /\ Len(x) = Len(s) + 1 /\ DOMAIN x = 1..(Len(s) + 1)
      /\ x[1] = t /\ \A i \in 1..Len(s) : x[i + 1] = s[i]
      /\ DOMAIN s = 1..Len(s) /\ Len(s) \in Nat
  OBVIOUS
<1> HIDE DEF x
<1>2. \A i \in DOMAIN x : i = 1 \/ (i - 1 \in DOMAIN s /\ x[i] = s[i - 1])
  <2> SUFFICES ASSUME NEW i \in DOMAIN x, i # 1
               PROVE  i - 1 \in DOMAIN s /\ x[i] = s[i - 1]
    OBVIOUS
  <2>1. i - 1 \in 1..Len(s) /\ (i - 1) + 1 = i
    BY <1>1
  <2> QED
    BY <1>1, <2>1
<1>3. Range(x) = Range(s) \cup {t}
  <2>1. t \in Range(x)
    BY <1>1 DEF Range
  <2>2. \A i \in DOMAIN s : s[i] \in Range(x)
    <3> SUFFICES ASSUME NEW i \in DOMAIN s PROVE s[i] \in Range(x)
      OBVIOUS
    <3>1. i + 1 \in DOMAIN x /\ x[i + 1] = s[i]
      BY <1>1
    <3> QED
      BY <3>1 DEF Range
  <2>3. \A i \in DOMAIN x : x[i] \in Range(s) \cup {t}
    BY <1>1, <1>2 DEF Range
  <2> QED
    BY <2>1, <2>2, <2>3 DEF Range
<1>4. IsInjective(x)
  <2> SUFFICES ASSUME NEW i \in DOMAIN x, NEW j \in DOMAIN x, x[i] = x[j]
               PROVE  i = j
    BY DEF IsInjective
  <2>1. \A k \in DOMAIN x : k # 1 => x[k] # t
    BY <1>2 DEF Range
  <2>2. CASE i = 1 \/ j = 1
    BY <1>1, <2>1, <2>2
  <2>3. CASE i # 1 /\ j # 1
    <3>1. i - 1 \in DOMAIN s /\ j - 1 \in DOMAIN s /\ s[i - 1] = s[j - 1]
      BY <1>2, <2>3
    <3>2. i - 1 = j - 1
      BY <3>1 DEF IsInjective
    <3> QED
      BY <1>1, <3>2
  <2> QED
    BY <2>2, <2>3
<1> QED
  BY <1>1, <1>3, <1>4 DEF x

\* A list without its first timer.
LEMMA WithoutFirst ==
  ASSUME NEW S, NEW s \in Seq(S), s # <<>>, IsInjective(s)
  PROVE  /\ Head(s) \in Range(s) /\ Head(s) \in S
         /\ Tail(s) \in Seq(S) /\ IsInjective(Tail(s))
         /\ Range(Tail(s)) = Range(s) \ {Head(s)}
<1> DEFINE x == Tail(s)
<1>1. /\ x \in Seq(S) /\ Len(s) \in Nat \ {0} /\ DOMAIN s = 1..Len(s)
      /\ Head(s) = s[1] /\ 1 \in DOMAIN s /\ s[1] \in S
      /\ DOMAIN x = 1..(Len(s) - 1)
      /\ \A i \in 1..(Len(s) - 1) : x[i] = s[i + 1]
  OBVIOUS
<1> HIDE DEF x
<1>2. IsInjective(x)
  <2> SUFFICES ASSUME NEW i \in DOMAIN x, NEW j \in DOMAIN x, x[i] = x[j]
               PROVE  i = j
    BY DEF IsInjective
  <2>1. i + 1 \in DOMAIN s /\ j + 1 \in DOMAIN s /\ s[i + 1] = s[j + 1]
    BY <1>1
  <2>2. i + 1 = j + 1
    BY <2>1 DEF IsInjective
  <2> QED
    BY <1>1, <2>2
<1>3. \A i \in DOMAIN x : x[i] \in Range(s) \ {Head(s)}
  <2> SUFFICES ASSUME NEW i \in DOMAIN x PROVE x[i] \in Range(s) \ {Head(s)}
    OBVIOUS
  <2>1. i + 1 \in DOMAIN s /\ i + 1 # 1 /\ x[i] = s[i + 1]
    BY <1>1
  <2>2. s[i + 1] # s[1]
    BY <1>1, <2>1 DEF IsInjective
  <2> QED
    BY <1>1, <2>1, <2>2 DEF Range
<1>4. \A i \in DOMAIN s : s[i] # Head(s) => s[i] \in Range(x)
  <2> SUFFICES ASSUME NEW i \in DOMAIN s, s[i] # Head(s) PROVE s[i] \in Range(x)
    OBVIOUS
  <2>1. i # 1
    BY <1>1
  <2>2. i - 1 \in DOMAIN x /\ (i - 1) + 1 = i
    BY <1>1, <2>1
  <2>3. x[i - 1] = s[i]
    BY <1>1, <2>2
  <2> QED
    BY <2>2, <2>3 DEF Range
<1>5. Range(x) = Range(s) \ {Head(s)}
  BY <1>3, <1>4 DEF Range
<1> QED
  BY <1>1, <1>2, <1>5 DEF Range, x

LEMMA WheelType ==
  ASSUME WheelInv
  PROVE  /\ NumSlot \in Nat \ {0} /\ Unit \in Nat \ {0} /\ MaxLag \in Nat
         /\ now \in Nat /\ start \in Nat /\ start <= now /\ startIdx \in Slots
         /\ slot \in [Slots -> Seq(Timers)]
         /\ status \in [Timers -> {"unused", "queued", "linked", "deleted"}]
         /\ index \in [Timers -> Slots \cup {-1}]
         /\ due \in [Timers -> Int] /\ interval \in [Timers -> Intervals \cup {0}]
         /\ tockPc \in {"idle", "wheel", "list", "callback"}
         /\ left \in Nat /\ todo \in Seq(Timers) /\ fault = "none"
  BY WheelAssumption, TimesAssumption
     DEF WheelInv, WheelTypes, WheelTypeOK, NoFault

\* addTimer puts a timer that is due within a turn into a slot that the wheel
\* comes to in its millisecond; it does not abort.
LEMMA LinkRight ==
  ASSUME WheelInv, NEW t \in Timers, NEW when \in Int,
         when - start >= Unit, when - start < NumSlot * Unit, Link(t, when)
  PROVE  \E i \in Slots \ {startIdx} :
           /\ slot' = [slot EXCEPT ![i] = <<t>> \o @]
           /\ index' = [index EXCEPT ![t] = i]
           /\ status' = [status EXCEPT ![t] = "linked"]
           /\ fault' = "none"
           /\ when - (start + Unit * Ahead(i)) \in 0..Unit
<1> DEFINE d == when - start
           m == Millis(d)
<1>0. /\ NumSlot \in Nat \ {0} /\ Unit \in Nat \ {0}
      /\ start \in Nat /\ startIdx \in Slots /\ fault = "none"
  BY WheelType
<1>1. d \in Nat /\ d >= Unit /\ d < NumSlot * Unit
  BY <1>0
<1> HIDE DEF d
<1>2. m \in 1..(NumSlot - 1) /\ d - Unit * m \in 0..Unit
  BY <1>0, <1>1, MillisOf
<1> HIDE DEF m
<1>3. PICK i : i = (startIdx + m) % NumSlot
  OBVIOUS
<1>4. i \in Slots \ {startIdx} /\ (i - startIdx) % NumSlot = m
  BY <1>0, <1>2, <1>3, SlotAhead
<1>5. ~(Millis(when - start) >= NumSlot \/ SlotOf(when) < 0)
  <2>1. startIdx \in Nat
    BY <1>0 DEF Slots
  <2> QED
    BY <1>0, <1>2, <2>1 DEF SlotOf, m, d
<1>6. SlotOf(when) % NumSlot = i
  BY <1>3 DEF SlotOf, m, d
<1>7. /\ slot' = [slot EXCEPT ![i] = <<t>> \o @]
      /\ index' = [index EXCEPT ![t] = i]
      /\ status' = [status EXCEPT ![t] = "linked"]
      /\ fault' = "none"
  BY <1>0, <1>5, <1>6, Zenon DEF Link
<1>8. when - (start + Unit * Ahead(i)) \in 0..Unit
  <2>1. Ahead(i) = m
    BY <1>4 DEF Ahead
  <2>2. PICK p \in Int : p = Unit * m
    BY <1>0, <1>2
  <2>3. when - (start + p) = d - p
    BY <1>0, <2>2 DEF d
  <2> QED
    BY <1>2, <2>1, <2>2, <2>3
<1> QED
  BY <1>4, <1>7, <1>8

\* What timers s are linked before, in todo and the slots; t is none of them.
Free(t) ==
  /\ \A i \in Slots : i # startIdx \/ ~AtList => t \notin Range(slot[i])
  /\ status[t] # "linked" \/ index[t] = startIdx

\* Linking a timer that no list holds any more keeps the lists right.
LEMMA LinkKeeps ==
  ASSUME WheelInv, NEW t \in Timers, NEW when \in Int,
         when - start >= Unit, when - start < NumSlot * Unit, Link(t, when),
         due' = [due EXCEPT ![t] = when],
         interval' \in [Timers -> Intervals \cup {0}],
         UNCHANGED <<now, start, startIdx, left>>,
         tockPc' \in {"idle", "wheel", "list", "callback"},
         AtList' = AtList, Free(t),
         todo' \in Seq(Timers), AtList => IsInjective(todo'),
         AtList => Range(todo') = Range(todo) \ {t},
         tockPc' = "callback" => todo' # <<>>,
         tockPc' # "idle" => tockPc # "idle"
  PROVE  WheelInv'
<1>0. /\ NumSlot \in Nat \ {0} /\ Unit \in Nat \ {0} /\ MaxLag \in Nat
      /\ now \in Nat /\ start \in Nat /\ start <= now /\ startIdx \in Slots
      /\ slot \in [Slots -> Seq(Timers)]
      /\ status \in [Timers -> {"unused", "queued", "linked", "deleted"}]
      /\ index \in [Timers -> Slots \cup {-1}]
      /\ due \in [Timers -> Int] /\ interval \in [Timers -> Intervals \cup {0}]
      /\ left \in Nat /\ todo \in Seq(Timers) /\ fault = "none"
  BY WheelType
<1>1. PICK i \in Slots \ {startIdx} :
           /\ slot' = [slot EXCEPT ![i] = <<t>> \o @]
           /\ index' = [index EXCEPT ![t] = i]
           /\ status' = [status EXCEPT ![t] = "linked"]
           /\ fault' = "none"
           /\ when - (start + Unit * Ahead(i)) \in 0..Unit
  BY LinkRight
<1>2. slot[i] \in Seq(Timers) /\ ListOf(slot[i], i) /\ t \notin Range(slot[i])
  BY <1>0, <1>1 DEF WheelInv, Lists, Free
<1> DEFINE s == <<t>> \o slot[i]
<1>3. s \in Seq(Timers) /\ IsInjective(s) /\ Range(s) = Range(slot[i]) \cup {t}
  BY <1>2, LinkedFirst DEF ListOf
<1> HIDE DEF s
<1>4. slot' = [slot EXCEPT ![i] = s]
  BY <1>1 DEF s
<1>5. /\ slot'[i] = s /\ \A j \in Slots \ {i} : slot'[j] = slot[j]
      /\ status'[t] = "linked" /\ index'[t] = i /\ due'[t] = when
      /\ \A u \in Timers \ {t} : /\ status'[u] = status[u] /\ index'[u] = index[u]
                                 /\ due'[u] = due[u]
  BY <1>0, <1>1, <1>4
<1>6. WheelTypes' /\ NoFault'
  BY <1>0, <1>1, <1>3, <1>4 DEF WheelInv, WheelTypes, WheelTypeOK, NoFault
<1>7. Behind' /\ Waiting'
  <2>1. Behind'
    BY DEF WheelInv, Behind
  <2>2. Waiting'
    BY <1>5 DEF WheelInv, Waiting
  <2> QED
    BY <2>1, <2>2
<1>8. Lists'
  <2>1. ASSUME NEW j \in Slots, j # startIdx \/ ~AtList
        PROVE  ListOf(slot[j], j)'
    <3>1. ListOf(slot[j], j) /\ t \notin Range(slot[j])
      BY <2>1 DEF WheelInv, Lists, Free
    <3>2. slot[j] \in Seq(Timers) /\ Range(slot[j]) \subseteq Timers
      BY <1>0 DEF Range
    <3>3. CASE j = i
      BY <1>3, <1>5, <3>1, <3>2, <3>3 DEF ListOf
    <3>4. CASE j # i
      BY <1>5, <3>1, <3>2, <3>4 DEF ListOf
    <3> QED
      BY <3>3, <3>4
  <2>2. AtList' => ListOf(todo, startIdx)'
    <3> SUFFICES ASSUME AtList PROVE ListOf(todo, startIdx)'
      OBVIOUS
    <3>1. ListOf(todo, startIdx)
      BY DEF WheelInv, Lists
    <3>2. Range(todo') = Range(todo) \ {t} /\ Range(todo) \subseteq Timers
      <4>1. Range(todo) \subseteq Timers
        BY <1>0 DEF Range
      <4> QED
        BY <4>1
    <3> QED
      BY <1>5, <3>1, <3>2 DEF ListOf
  <2>3. tockPc' = "callback" => todo' # <<>>
    OBVIOUS
  <2> QED
    BY <2>1, <2>2, <2>3 DEF Lists
<1>9. Armed'
  <2> SUFFICES ASSUME NEW u \in Timers, status'[u] = "linked"
               PROVE  /\ index'[u] \in Slots
                      /\ u \in Range(slot'[index'[u]])
                      /\ index'[u] = startIdx => AtList /\ u \in Range(todo')
                      /\ due'[u] - (start + Unit * Ahead(index'[u])) \in 0..Unit
    BY DEF Armed, Processing, Ahead, AtList
  <2>1. CASE u = t
    BY <1>1, <1>3, <1>5, <2>1
  <2>2. CASE u # t
    <3>1. /\ status[u] = "linked" /\ index'[u] = index[u] /\ due'[u] = due[u]
      BY <1>5, <2>2
    <3>2. /\ index[u] \in Slots /\ u \in Range(slot[index[u]])
          /\ index[u] = startIdx => AtList /\ u \in Range(todo)
          /\ due[u] - (start + Unit * Ahead(index[u])) \in 0..Unit
      BY <3>1 DEF WheelInv, Armed, Processing, AtList
    <3>3. u \in Range(slot'[index[u]])
      BY <1>3, <1>5, <3>2
    <3>4. index[u] = startIdx => u \in Range(todo')
      BY <2>2, <3>2
    <3> QED
      BY <3>1, <3>2, <3>3, <3>4
  <2> QED
    BY <2>1, <2>2
<1> QED
  BY <1>6, <1>7, <1>8, <1>9 DEF WheelInv

\* The clock shows the next unit of time.
LEMMA AdvanceRight ==
  ASSUME WithinATurn, WheelInv, Advance
  PROVE  WheelInv'
<1>1. /\ now' = now + 1 /\ now < MaxTime /\ now - start < MaxLag
      /\ \A t \in Timers : status[t] = "queued" => now + Unit < due[t]
      /\ UNCHANGED <<start, startIdx, slot, status, due, interval, index, tockPc,
                     left, todo, fault>>
  BY DEF Advance, WithinATurn, wheelVars, timerVars
<1>2. /\ NumSlot \in Nat \ {0} /\ Unit \in Nat \ {0} /\ MaxLag \in Nat
      /\ now \in Nat /\ start \in Nat /\ start <= now /\ left \in Nat
      /\ due \in [Timers -> Int] /\ MaxTime \in Nat
  BY WheelType, TimesAssumption
<1>3. WheelTypes' /\ NoFault'
  BY <1>1, <1>2 DEF WheelInv, WheelTypes, WheelTypeOK, NoFault
<1>4. Behind'
  <2>1. PICK p \in Int : p = Unit * left
    BY <1>2
  <2> QED
    BY <1>1, <1>2, <2>1 DEF WheelInv, Behind
<1>5. Waiting'
  BY <1>1, <1>2 DEF WheelInv, Waiting
<1>6. Lists' /\ Armed'
  BY <1>1 DEF WheelInv, Lists, Armed, ListOf, Processing, AtList, Ahead
<1> QED
  BY <1>3, <1>4, <1>5, <1>6 DEF WheelInv

\* A timer that is not linked is in no list.
LEMMA NotLinked ==
  ASSUME WheelInv, NEW t \in Timers, status[t] # "linked"
  PROVE  /\ Free(t)
         /\ AtList => t \notin Range(todo)
  BY DEF WheelInv, Lists, ListOf, Free

\* A timer that the loop's thread adds.
LEMMA AddTimerRight ==
  ASSUME WithinATurn, WheelInv, NEW t \in Timers, NEW d \in Delays,
         NEW iv \in {i \in Intervals : i = d} \cup {0}, AddTimer(t, d, iv)
  PROVE  WheelInv'
<1>1. /\ status[t] = "unused" /\ Link(t, now + d)
      /\ due' = [due EXCEPT ![t] = now + d]
      /\ interval' = [interval EXCEPT ![t] = iv]
      /\ UNCHANGED <<now, start, startIdx, tockPc, left, todo>>
  BY DEF AddTimer
<1>2. /\ NumSlot \in Nat \ {0} /\ Unit \in Nat \ {0} /\ MaxLag \in Nat
      /\ now \in Nat /\ start \in Nat /\ start <= now
      /\ interval \in [Timers -> Intervals \cup {0}] /\ todo \in Seq(Timers)
      /\ tockPc \in {"idle", "wheel", "list", "callback"}
  BY WheelType
<1>3. d \in Nat /\ Unit <= d /\ d + MaxLag < NumSlot * Unit
  BY TimesAssumption DEF WithinATurn
<1>4. /\ now + d \in Int /\ (now + d) - start >= Unit
      /\ (now + d) - start < NumSlot * Unit
  <2>1. now - start <= MaxLag
    BY DEF WheelInv, Behind
  <2>2. PICK n \in Int : n = NumSlot * Unit
    BY <1>2
  <2> QED
    BY <1>2, <1>3, <2>1, <2>2
<1>5. Free(t) /\ (AtList => Range(todo) = Range(todo) \ {t})
  BY <1>1, NotLinked
<1>6. interval' \in [Timers -> Intervals \cup {0}]
  BY <1>1, <1>2
<1>7. /\ AtList' = AtList /\ (AtList => IsInjective(todo'))
      /\ tockPc' = "callback" => todo' # <<>>
  BY <1>1 DEF WheelInv, Lists, ListOf, AtList
<1>8. todo' = todo /\ tockPc' = tockPc
  BY <1>1
<1> QED
  BY <1>1, <1>2, <1>4, <1>5, <1>6, <1>7, <1>8, LinkKeeps

\* A timer that the loop adds for another thread.
LEMMA AddTimerInReactorRight ==
  ASSUME WheelInv, NEW t \in Timers, AddTimerInReactor(t)
  PROVE  WheelInv'
<1>1. /\ status[t] = "queued" /\ Link(t, due[t]) /\ tockPc = "idle"
      /\ UNCHANGED <<now, start, startIdx, due, interval, tockPc, left, todo>>
  BY DEF AddTimerInReactor
<1>2. /\ NumSlot \in Nat \ {0} /\ Unit \in Nat \ {0} /\ MaxLag \in Nat
      /\ now \in Nat /\ start \in Nat /\ start <= now /\ due \in [Timers -> Int]
      /\ interval \in [Timers -> Intervals \cup {0}] /\ todo \in Seq(Timers)
  BY WheelType
<1>3. due[t] \in Int /\ due[t] - start >= Unit /\ due[t] - start < NumSlot * Unit
  BY <1>1, <1>2 DEF WheelInv, Waiting
<1>4. due' = [due EXCEPT ![t] = due[t]]
  BY <1>1, <1>2
<1>5. Free(t)
  BY <1>1, NotLinked
<1>6. ~AtList /\ AtList' = AtList /\ tockPc' = "idle"
  BY <1>1 DEF AtList
<1>7. todo' \in Seq(Timers) /\ interval' \in [Timers -> Intervals \cup {0}]
  BY <1>1, <1>2
<1> QED
  BY <1>1, <1>3, <1>4, <1>5, <1>6, <1>7, LinkKeeps

\* A timer that another thread asks for.
LEMMA AddTimerRemotelyRight ==
  ASSUME WithinATurn, WheelInv, NEW t \in Timers, NEW d \in Delays,
         NEW iv \in {i \in Intervals : i = d} \cup {0}, AddTimerRemotely(t, d, iv)
  PROVE  WheelInv'
<1>1. /\ status[t] = "unused" /\ status' = [status EXCEPT ![t] = "queued"]
      /\ due' = [due EXCEPT ![t] = now + d]
      /\ interval' = [interval EXCEPT ![t] = iv]
      /\ fault' = IF now + d < start THEN "abort" ELSE "none"
      /\ UNCHANGED <<now, start, startIdx, slot, index, tockPc, left, todo>>
  BY DEF AddTimerRemotely, wheelVars
<1>2. /\ NumSlot \in Nat \ {0} /\ Unit \in Nat \ {0} /\ MaxLag \in Nat
      /\ now \in Nat /\ start \in Nat /\ start <= now
      /\ slot \in [Slots -> Seq(Timers)] /\ todo \in Seq(Timers)
      /\ status \in [Timers -> {"unused", "queued", "linked", "deleted"}]
      /\ due \in [Timers -> Int] /\ interval \in [Timers -> Intervals \cup {0}]
  BY WheelType
<1>3. d \in Nat /\ Unit <= d /\ d + MaxLag < NumSlot * Unit
  BY TimesAssumption DEF WithinATurn
<1>4. /\ (now + d) - now >= Unit /\ (now + d) - start < NumSlot * Unit
      /\ now + d \in Int /\ ~(now + d < start)
  <2>1. now - start <= MaxLag
    BY DEF WheelInv, Behind
  <2>2. PICK n \in Int : n = NumSlot * Unit
    BY <1>2
  <2> QED
    BY <1>2, <1>3, <2>1, <2>2
<1>5. /\ status'[t] = "queued" /\ due'[t] = now + d
      /\ \A u \in Timers \ {t} : status'[u] = status[u] /\ due'[u] = due[u]
  BY <1>1, <1>2
<1>6. WheelTypes' /\ NoFault'
  BY <1>1, <1>2, <1>4 DEF WheelInv, WheelTypes, WheelTypeOK, NoFault
<1>7. Behind' /\ Waiting'
  <2>1. Behind'
    BY <1>1 DEF WheelInv, Behind
  <2>2. Waiting'
    BY <1>1, <1>4, <1>5 DEF WheelInv, Waiting
  <2> QED
    BY <2>1, <2>2
<1>8. \A s \in Seq(Timers) : \A i :
        ListOf(s, i) => \A u \in Range(s) : status'[u] = "linked" /\ index[u] = i
  <2> SUFFICES ASSUME NEW s \in Seq(Timers), NEW i, ListOf(s, i), NEW u \in Range(s)
               PROVE  status'[u] = "linked" /\ index[u] = i
    OBVIOUS
  <2>1. u \in Timers
    BY DEF Range
  <2> QED
    BY <1>1, <1>5, <2>1 DEF ListOf
<1>9. Lists'
  <2>1. \A i \in Slots : i # startIdx \/ ~AtList =>
          /\ IsInjective(slot[i])
          /\ \A u \in Range(slot[i]) : status'[u] = "linked" /\ index[u] = i
    <3> SUFFICES ASSUME NEW i \in Slots, i # startIdx \/ ~AtList
                 PROVE  /\ IsInjective(slot[i])
                        /\ \A u \in Range(slot[i]) :
                             status'[u] = "linked" /\ index[u] = i
      OBVIOUS
    <3>1. slot[i] \in Seq(Timers) /\ ListOf(slot[i], i)
      BY <1>2 DEF WheelInv, Lists
    <3> QED
      BY <1>8, <3>1 DEF ListOf
  <2>2. AtList => /\ IsInjective(todo)
                  /\ \A u \in Range(todo) :
                       status'[u] = "linked" /\ index[u] = startIdx
    BY <1>2, <1>8 DEF WheelInv, Lists, ListOf
  <2> QED
    BY <1>1, <2>1, <2>2 DEF WheelInv, Lists, AtList, ListOf
<1>10. Armed'
  BY <1>1, <1>5 DEF WheelInv, Armed, Processing, Ahead
<1> QED
  BY <1>6, <1>7, <1>9, <1>10 DEF WheelInv

\* The first timer of a list that tock() is not at leaves it.
LEMMA CancelTimerRight ==
  ASSUME WithinATurn, WheelInv, NEW t \in Timers, CancelTimer(t)
  PROVE  WheelInv'
<1>1. /\ status[t] = "linked" /\ slot[index[t]] # <<>>
      /\ Head(slot[index[t]]) = t /\ (tockPc = "idle" \/ index[t] # startIdx)
      /\ slot' = [slot EXCEPT ![index[t]] = Tail(@)]
      /\ status' = [status EXCEPT ![t] = "deleted"]
      /\ UNCHANGED <<now, start, startIdx, due, interval, index, tockPc, left,
                     todo, fault>>
  BY DEF CancelTimer, HeadsIdleList, WithinATurn
<1>2. /\ slot \in [Slots -> Seq(Timers)] /\ todo \in Seq(Timers)
      /\ status \in [Timers -> {"unused", "queued", "linked", "deleted"}]
  BY WheelType
<1>3. PICK j : j = index[t]
  OBVIOUS
<1>4. j \in Slots /\ ListOf(slot[j], j) /\ slot[j] \in Seq(Timers)
      /\ (AtList => j # startIdx)
  <2>1. j \in Slots
    BY <1>1, <1>3 DEF WheelInv, Armed
  <2>2. AtList => j # startIdx
    BY <1>1, <1>3 DEF AtList
  <2> QED
    BY <1>2, <2>1, <2>2 DEF WheelInv, Lists
<1>5. PICK s : s = Tail(slot[j])
  OBVIOUS
<1>6. /\ s \in Seq(Timers) /\ IsInjective(s)
      /\ Range(s) = Range(slot[j]) \ {t}
  BY <1>1, <1>3, <1>4, <1>5, WithoutFirst DEF ListOf
<1>7. /\ slot' = [slot EXCEPT ![j] = s]
      /\ slot'[j] = s /\ \A i \in Slots \ {j} : slot'[i] = slot[i]
      /\ status'[t] = "deleted"
      /\ \A u \in Timers \ {t} : status'[u] = status[u]
  BY <1>1, <1>2, <1>3, <1>4, <1>5
<1>8. WheelTypes' /\ NoFault'
  BY <1>1, <1>2, <1>6, <1>7 DEF WheelInv, WheelTypes, WheelTypeOK, NoFault
<1>9. Behind' /\ Waiting'
  <2>1. Behind'
    BY <1>1 DEF WheelInv, Behind
  <2>2. Waiting'
    BY <1>1, <1>7 DEF WheelInv, Waiting
  <2> QED
    BY <2>1, <2>2
<1>10. Lists'
  <2>1. ASSUME NEW i \in Slots, i # startIdx \/ ~AtList
        PROVE  /\ IsInjective(slot'[i])
               /\ \A u \in Range(slot'[i]) : status'[u] = "linked" /\ index[u] = i
    <3>1. ListOf(slot[i], i) /\ Range(slot[i]) \subseteq Timers
      <4>1. Range(slot[i]) \subseteq Timers
        BY <1>2 DEF Range
      <4> QED
        BY <2>1, <4>1 DEF WheelInv, Lists
    <3>2. CASE i = j
      BY <1>6, <1>7, <3>1, <3>2 DEF ListOf
    <3>3. CASE i # j
      BY <1>3, <1>7, <3>1, <3>3 DEF ListOf
    <3> QED
      BY <3>2, <3>3
  <2>2. AtList => /\ IsInjective(todo)
                  /\ \A u \in Range(todo) :
                       status'[u] = "linked" /\ index[u] = startIdx
    <3> SUFFICES ASSUME AtList
                 PROVE  /\ IsInjective(todo)
                        /\ \A u \in Range(todo) :
                             status'[u] = "linked" /\ index[u] = startIdx
      OBVIOUS
    <3>1. ListOf(todo, startIdx) /\ Range(todo) \subseteq Timers
      <4>1. Range(todo) \subseteq Timers
        BY <1>2 DEF Range
      <4> QED
        BY <4>1 DEF WheelInv, Lists
    <3> QED
      BY <1>3, <1>4, <1>7, <3>1 DEF ListOf
  <2> QED
    BY <1>1, <2>1, <2>2 DEF WheelInv, Lists, AtList, ListOf
<1>11. Armed'
  <2> SUFFICES ASSUME NEW u \in Timers, status'[u] = "linked"
               PROVE  /\ index[u] \in Slots
                      /\ u \in Range(slot'[index[u]])
                      /\ index[u] = startIdx => Processing(u)
                      /\ due[u] - (start + Unit * Ahead(index[u])) \in 0..Unit
    BY <1>1 DEF Armed, Processing, Ahead
  <2>1. u # t /\ status[u] = "linked"
    BY <1>7
  <2>2. /\ index[u] \in Slots
        /\ u \in Range(slot[index[u]])
        /\ index[u] = startIdx => Processing(u)
        /\ due[u] - (start + Unit * Ahead(index[u])) \in 0..Unit
    BY <2>1 DEF WheelInv, Armed
  <2> QED
    BY <1>6, <1>7, <2>1, <2>2
<1> QED
  BY <1>8, <1>9, <1>10, <1>11 DEF WheelInv

\* tock() counts the milliseconds that have passed since start_.
LEMMA TockBeginRight ==
  ASSUME WheelInv, TockBegin
  PROVE  WheelInv'
<1>1. /\ tockPc = "idle" /\ tockPc' = "wheel" /\ left' = Millis(now - start)
      /\ UNCHANGED <<now, start, startIdx, slot, status, due, interval, index,
                     todo, fault>>
  BY DEF TockBegin, TockGoto, wheelVars, timerVars
<1>2. /\ Unit \in Nat \ {0} /\ now \in Nat /\ start \in Nat /\ start <= now
  BY WheelType
<1>3. PICK d \in Nat : d = now - start
  BY <1>2
<1>4. left' \in Nat /\ d - Unit * left' \in 0..Unit
  BY <1>1, <1>3, MillisOf
<1>5. WheelTypes' /\ NoFault'
  BY <1>1, <1>4 DEF WheelInv, WheelTypes, WheelTypeOK, NoFault
<1>6. Behind'
  <2>1. PICK n \in Nat : n = left'
    BY <1>4
  <2>2. PICK p \in Int : p = Unit * n
    BY <1>2
  <2>3. start + p <= now
    <3>1. d - p \in 0..Unit
      BY <1>4, <2>1, <2>2
    <3> QED
      BY <1>2, <1>3, <3>1
  <2>4. start + Unit * left' <= now
    BY <2>1, <2>2, <2>3
  <2> QED
    BY <1>1, <2>4 DEF WheelInv, Behind
<1>7. Waiting' /\ Lists' /\ Armed'
  BY <1>1 DEF WheelInv, Waiting, Lists, Armed, ListOf, Processing, AtList, Ahead
<1> QED
  BY <1>5, <1>6, <1>7 DEF WheelInv

\* The wheel comes to the next slot.
LEMMA NextSlotRight ==
  ASSUME WheelInv, NextSlot
  PROVE  WheelInv'
<1>1. /\ tockPc = "wheel" /\ left > 0 /\ left' = left - 1
      /\ startIdx' = (startIdx + 1) % NumSlot /\ start' = start + Unit
      /\ todo' = slot[startIdx']
      /\ tockPc' = IF todo' = <<>> THEN "wheel" ELSE "list"
      /\ UNCHANGED <<now, slot, status, due, interval, index, fault>>
  BY DEF NextSlot, TockGoto, timerVars
<1>2. /\ NumSlot \in Nat \ {0} /\ Unit \in Nat \ {0} /\ MaxLag \in Nat
      /\ now \in Nat /\ start \in Nat /\ start <= now /\ startIdx \in Slots
      /\ slot \in [Slots -> Seq(Timers)] /\ due \in [Timers -> Int]
      /\ left \in Nat
  BY WheelType
<1>3. startIdx' \in Slots
  BY <1>1, <1>2, OneSlotOn
<1>4. PICK p \in Int : p = Unit * left
  BY <1>2
<1>5. Unit * left' = p - Unit /\ start + p <= now /\ p >= Unit
  <2>1. Unit * (left - 1) = p - Unit
    BY <1>2, <1>4
  <2>2. p >= Unit
    <3>1. Unit * 1 <= Unit * left
      BY <1>1, <1>2
    <3> QED
      BY <1>2, <1>4, <3>1
  <2> QED
    BY <1>1, <1>4, <2>1, <2>2 DEF WheelInv, Behind
<1>6. WheelTypes' /\ NoFault'
  <2>1. start' \in 0..now
    <3>1. start' = start + Unit /\ start + p <= now /\ p >= Unit
      BY <1>1, <1>5
    <3> QED
      BY <1>2, <3>1
  <2>2. todo' \in Seq(Timers)
    BY <1>1, <1>2, <1>3
  <2> QED
    BY <1>1, <1>2, <1>3, <2>1, <2>2 DEF WheelInv, WheelTypes, WheelTypeOK, NoFault
<1>7. Behind' /\ Waiting'
  <2>1. Behind'
    <3>1. start' + Unit * left' = start + p
      BY <1>1, <1>2, <1>4, <1>5
    <3> QED
      BY <1>1, <1>2, <1>5, <3>1 DEF WheelInv, Behind
  <2>2. Waiting'
    <3>1. PICK n \in Int : n = NumSlot * Unit
      BY <1>2
    <3> QED
      BY <1>1, <1>2, <3>1 DEF WheelInv, Waiting
  <2> QED
    BY <2>1, <2>2
<1>8. \A i \in Slots : ListOf(slot[i], i)
  BY <1>1 DEF WheelInv, Lists, AtList
<1>9. Lists'
  <2>1. \A i \in Slots : /\ IsInjective(slot[i])
                         /\ \A u \in Range(slot[i]) :
                              status[u] = "linked" /\ index[u] = i
    BY <1>8 DEF ListOf
  <2> QED
    BY <1>1, <1>3, <2>1 DEF Lists, ListOf, AtList
<1>10. Armed'
  <2> SUFFICES ASSUME NEW u \in Timers, status[u] = "linked"
               PROVE  /\ index[u] \in Slots
                      /\ u \in Range(slot[index[u]])
                      /\ index[u] = startIdx' => AtList' /\ u \in Range(todo')
                      /\ due[u] - (start' + Unit * ((index[u] - startIdx') % NumSlot))
                           \in 0..Unit
    BY <1>1 DEF Armed, Processing, Ahead, AtList
  <2>1. PICK i, a : i = index[u] /\ a = (i - startIdx) % NumSlot
    OBVIOUS
  <2>2. /\ i \in Slots /\ u \in Range(slot[i]) /\ i # startIdx
        /\ due[u] - (start + Unit * a) \in 0..Unit
    BY <1>1, <2>1 DEF WheelInv, Armed, Processing, Ahead
  <2>3. /\ a \in Nat /\ a >= 1 /\ (i - startIdx') % NumSlot = a - 1
    BY <1>1, <1>2, <2>1, <2>2, OneSlotOn
  <2>4. PICK x \in Int : x = Unit * a
    BY <1>2, <2>3
  <2>5. Unit * (a - 1) = x - Unit
    BY <1>2, <2>3, <2>4
  <2>6. due[u] - (start' + Unit * ((i - startIdx') % NumSlot)) \in 0..Unit
    BY <1>1, <1>2, <2>2, <2>3, <2>4, <2>5
  <2>7. i = startIdx' => AtList' /\ u \in Range(todo')
    <3> SUFFICES ASSUME i = startIdx' PROVE AtList' /\ u \in Range(todo')
      OBVIOUS
    <3>1. u \in Range(todo')
      BY <1>1, <2>2
    <3>2. todo' # <<>>
      BY <3>1 DEF Range
    <3> QED
      BY <1>1, <3>1, <3>2 DEF AtList
  <2> QED
    BY <2>1, <2>2, <2>6, <2>7
<1> QED
  BY <1>6, <1>7, <1>9, <1>10 DEF WheelInv

\* The wheel has come to the present.
LEMMA TockEndRight ==
  ASSUME WheelInv, TockEnd
  PROVE  WheelInv'
<1>1. /\ tockPc = "wheel" /\ tockPc' = "idle"
      /\ UNCHANGED <<now, start, startIdx, slot, status, due, interval, index,
                     left, todo, fault>>
  BY DEF TockEnd, TockGoto, wheelVars, timerVars
<1>2. WheelTypes' /\ NoFault'
  BY <1>1 DEF WheelInv, WheelTypes, WheelTypeOK, NoFault
<1>3. Behind' /\ Waiting'
  BY <1>1 DEF WheelInv, Behind, Waiting
<1>4. Lists' /\ Armed'
  BY <1>1 DEF WheelInv, Lists, Armed, ListOf, Processing, AtList, Ahead
<1> QED
  BY <1>2, <1>3, <1>4 DEF WheelInv

\* The first timer still to run is armed and in the present slot.
LEMMA HeadArmed ==
  ASSUME WheelInv, AtList, todo # <<>>
  PROVE  /\ Head(todo) \in Timers
         /\ status[Head(todo)] = "linked" /\ index[Head(todo)] = startIdx
         /\ Tail(todo) \in Seq(Timers) /\ IsInjective(Tail(todo))
         /\ Range(Tail(todo)) = Range(todo) \ {Head(todo)}
<1>1. todo \in Seq(Timers) /\ ListOf(todo, startIdx)
  BY WheelType DEF WheelInv, Lists
<1>2. /\ Head(todo) \in Range(todo) /\ Head(todo) \in Timers
      /\ Tail(todo) \in Seq(Timers) /\ IsInjective(Tail(todo))
      /\ Range(Tail(todo)) = Range(todo) \ {Head(todo)}
  BY <1>1, WithoutFirst DEF ListOf
<1> QED
  BY <1>1, <1>2 DEF ListOf

\* tock() runs no timer that is deleted or of another slot.
LEMMA RunTimerRight ==
  ASSUME WheelInv, RunTimer
  PROVE  WheelInv'
<1>1. /\ tockPc = "list" /\ tockPc' = "callback" /\ todo # <<>>
      /\ fault' = CASE status[Head(todo)] = "deleted" -> "deleted"
                    [] index[Head(todo)] # startIdx -> "abort"
                    [] OTHER -> "none"
      /\ UNCHANGED <<now, start, startIdx, slot, status, due, interval, index,
                     left, todo>>
  BY DEF RunTimer, TockGoto, wheelVars, timerVars
<1>2. status[Head(todo)] = "linked" /\ index[Head(todo)] = startIdx
  BY <1>1, HeadArmed DEF AtList
<1>3. fault' = "none"
  BY <1>1, <1>2
<1>4. WheelTypes' /\ NoFault'
  BY <1>1, <1>3 DEF WheelInv, WheelTypes, WheelTypeOK, NoFault
<1>5. Behind' /\ Waiting'
  BY <1>1 DEF WheelInv, Behind, Waiting
<1>6. Lists' /\ Armed'
  BY <1>1 DEF WheelInv, Lists, Armed, ListOf, Processing, AtList, Ahead
<1> QED
  BY <1>4, <1>5, <1>6 DEF WheelInv

\* A timer that has run is linked again, or deleted.
LEMMA TimerRanRight ==
  ASSUME WithinATurn, WheelInv, TimerRan
  PROVE  WheelInv'
<1>1. PICK t : t = Head(todo)
  OBVIOUS
<1>2. /\ tockPc = "callback" /\ tockPc' = "list" /\ todo' = Tail(todo)
      /\ CASE status[t] = "deleted" ->
                fault' = "deleted" /\ UNCHANGED <<slot, status, due, index>>
           [] status[t] # "deleted" /\ interval[t] > 0 ->
                /\ due' = [due EXCEPT ![t] = now + interval[t]]
                /\ Link(t, now + interval[t])
           [] OTHER ->
                /\ status' = [status EXCEPT ![t] = "deleted"]
                /\ UNCHANGED <<slot, due, index, fault>>
      /\ UNCHANGED <<now, start, startIdx, interval, left>>
  BY <1>1, Zenon DEF TimerRan, TockGoto
<1>3. AtList /\ AtList' /\ todo # <<>>
  BY <1>2 DEF WheelInv, Lists, AtList
<1>4. /\ t \in Timers /\ status[t] = "linked" /\ index[t] = startIdx
      /\ todo' \in Seq(Timers) /\ IsInjective(todo')
      /\ Range(todo') = Range(todo) \ {t}
  BY <1>1, <1>2, <1>3, HeadArmed
<1>5. /\ NumSlot \in Nat \ {0} /\ Unit \in Nat \ {0} /\ MaxLag \in Nat
      /\ now \in Nat /\ start \in Nat /\ start <= now /\ startIdx \in Slots
      /\ slot \in [Slots -> Seq(Timers)] /\ todo \in Seq(Timers)
      /\ status \in [Timers -> {"unused", "queued", "linked", "deleted"}]
      /\ interval \in [Timers -> Intervals \cup {0}]
  BY WheelType
<1>6. \A i \in Slots : i # startIdx => t \notin Range(slot[i])
  BY <1>4 DEF WheelInv, Lists, ListOf
<1>7. CASE interval[t] > 0
  <2>1. /\ due' = [due EXCEPT ![t] = now + interval[t]]
        /\ Link(t, now + interval[t])
    BY <1>2, <1>4, <1>7
  <2>2. PICK v \in Intervals : v = interval[t]
    BY <1>4, <1>5, <1>7
  <2>3. v \in Nat /\ Unit <= v /\ v + MaxLag < NumSlot * Unit
    BY TimesAssumption DEF WithinATurn
  <2>4. /\ now + interval[t] \in Int /\ (now + interval[t]) - start >= Unit
        /\ (now + interval[t]) - start < NumSlot * Unit
    <3>1. now - start <= MaxLag
      BY DEF WheelInv, Behind
    <3>2. PICK n \in Int : n = NumSlot * Unit
      BY <1>5
    <3> QED
      BY <1>5, <2>2, <2>3, <3>1, <3>2
  <2>5. Free(t)
    BY <1>3, <1>4, <1>6 DEF Free
  <2>6. interval' \in [Timers -> Intervals \cup {0}]
    BY <1>2, <1>5
  <2> QED
    BY <1>2, <1>3, <1>4, <2>1, <2>4, <2>5, <2>6, LinkKeeps
<1>8. CASE ~(interval[t] > 0)
  <2>1. /\ status' = [status EXCEPT ![t] = "deleted"]
        /\ UNCHANGED <<slot, due, index, fault>>
    BY <1>2, <1>4, <1>8
  <2>2. /\ status'[t] = "deleted"
        /\ \A u \in Timers \ {t} : status'[u] = status[u]
    BY <1>4, <1>5, <2>1
  <2>3. WheelTypes' /\ NoFault'
    BY <1>2, <1>4, <1>5, <2>1 DEF WheelInv, WheelTypes, WheelTypeOK, NoFault
  <2>4. Behind' /\ Waiting'
    <3>1. Behind'
      BY <1>2 DEF WheelInv, Behind
    <3>2. Waiting'
      BY <1>2, <2>1, <2>2 DEF WheelInv, Waiting
    <3> QED
      BY <3>1, <3>2
  <2>5. Lists'
    <3>1. ASSUME NEW i \in Slots, i # startIdx
          PROVE  /\ IsInjective(slot[i])
                 /\ \A u \in Range(slot[i]) :
                      status'[u] = "linked" /\ index[u] = i
      <4>1. ListOf(slot[i], i) /\ Range(slot[i]) \subseteq Timers
        <5>1. Range(slot[i]) \subseteq Timers
          BY <1>5 DEF Range
        <5> QED
          BY <3>1, <5>1 DEF WheelInv, Lists
      <4> QED
        BY <1>6, <2>2, <3>1, <4>1 DEF ListOf
    <3>2. \A u \in Range(todo') : status'[u] = "linked" /\ index[u] = startIdx
      <4>1. ListOf(todo, startIdx) /\ Range(todo) \subseteq Timers
        <5>1. Range(todo) \subseteq Timers
          BY <1>5 DEF Range
        <5> QED
          BY <1>3, <5>1 DEF WheelInv, Lists
      <4> QED
        BY <1>4, <2>2, <4>1 DEF ListOf
    <3> QED
      BY <1>2, <1>3, <1>4, <2>1, <3>1, <3>2 DEF Lists, ListOf
  <2>6. Armed'
    <3> SUFFICES ASSUME NEW u \in Timers, status'[u] = "linked"
                 PROVE  /\ index[u] \in Slots
                        /\ u \in Range(slot[index[u]])
                        /\ index[u] = startIdx => u \in Range(todo')
                        /\ due[u] - (start + Unit * Ahead(index[u])) \in 0..Unit
      BY <1>2, <1>3, <2>1 DEF Armed, Processing, Ahead, AtList
    <3>1. u # t /\ status[u] = "linked"
      BY <2>2
    <3>2. /\ index[u] \in Slots
          /\ u \in Range(slot[index[u]])
          /\ index[u] = startIdx => u \in Range(todo)
          /\ due[u] - (start + Unit * Ahead(index[u])) \in 0..Unit
      BY <3>1 DEF WheelInv, Armed, Processing
    <3> QED
      BY <1>4, <3>1, <3>2
  <2> QED
    BY <2>3, <2>4, <2>5, <2>6 DEF WheelInv
<1> QED
  BY <1>7, <1>8

\* The list has been run, and its slot is empty.
LEMMA ListEndRight ==
  ASSUME WheelInv, ListEnd
  PROVE  WheelInv'
<1>1. /\ tockPc = "list" /\ tockPc' = "wheel" /\ todo = <<>>
      /\ slot' = [slot EXCEPT ![startIdx] = <<>>]
      /\ UNCHANGED <<now, start, startIdx, status, due, interval, index,
                     left, todo, fault>>
  BY DEF ListEnd, TockGoto, timerVars
<1>2. /\ startIdx \in Slots /\ slot \in [Slots -> Seq(Timers)]
  BY WheelType
<1>3. /\ slot'[startIdx] = <<>>
      /\ \A i \in Slots \ {startIdx} : slot'[i] = slot[i]
  BY <1>1, <1>2
<1>4. WheelTypes' /\ NoFault'
  BY <1>1, <1>2 DEF WheelInv, WheelTypes, WheelTypeOK, NoFault
<1>5. Behind' /\ Waiting'
  BY <1>1 DEF WheelInv, Behind, Waiting
<1>6. Range(<<>>) = {} /\ IsInjective(<<>>)
  BY DEF Range, IsInjective
<1>7. Lists'
  <2>1. \A i \in Slots : /\ IsInjective(slot'[i])
                         /\ \A u \in Range(slot'[i]) :
                              status[u] = "linked" /\ index[u] = i
    <3> SUFFICES ASSUME NEW i \in Slots
                 PROVE  /\ IsInjective(slot'[i])
                        /\ \A u \in Range(slot'[i]) :
                             status[u] = "linked" /\ index[u] = i
      OBVIOUS
    <3>1. CASE i = startIdx
      BY <1>3, <1>6, <3>1
    <3>2. CASE i # startIdx
      BY <1>3, <3>2 DEF WheelInv, Lists, ListOf
    <3> QED
      BY <3>1, <3>2
  <2> QED
    BY <1>1, <2>1 DEF Lists, ListOf, AtList
<1>8. Armed'
  <2> SUFFICES ASSUME NEW u \in Timers, status[u] = "linked"
               PROVE  /\ index[u] \in Slots
                      /\ u \in Range(slot'[index[u]])
                      /\ index[u] # startIdx
                      /\ due[u] - (start + Unit * Ahead(index[u])) \in 0..Unit
    BY <1>1 DEF Armed, Processing, Ahead
  <2>1. /\ index[u] \in Slots
        /\ u \in Range(slot[index[u]])
        /\ index[u] = startIdx => u \in Range(<<>>)
        /\ due[u] - (start + Unit * Ahead(index[u])) \in 0..Unit
    BY <1>1 DEF WheelInv, Armed, Processing
  <2> QED
    BY <1>3, <1>6, <2>1
<1> QED
  BY <1>4, <1>5, <1>7, <1>8 DEF WheelInv

LEMMA WheelInitRight ==
  ASSUME WheelInit
  PROVE  WheelInv
<1>1. /\ NumSlot \in Nat \ {0} /\ Unit \in Nat \ {0} /\ MaxLag \in Nat
      /\ MaxTime \in Nat
  BY WheelAssumption, TimesAssumption
<1>2. /\ now = 0 /\ start = 0 /\ startIdx = 0
      /\ slot = [i \in Slots |-> <<>>]
      /\ status = [t \in Timers |-> "unused"]
      /\ due = [t \in Timers |-> 0]
      /\ interval = [t \in Timers |-> 0]
      /\ index = [t \in Timers |-> -1]
      /\ tockPc = "idle" /\ left = 0 /\ todo = <<>>
      /\ fault = "none"
  BY DEF WheelInit
<1>3. Range(<<>>) = {} /\ IsInjective(<<>>) /\ <<>> \in Seq(Timers)
  BY DEF Range, IsInjective
<1>4. startIdx \in Slots
  BY <1>1, <1>2 DEF Slots
<1>5. WheelTypes
  BY <1>1, <1>2, <1>3, <1>4 DEF WheelTypes, WheelTypeOK
<1>6. NoFault /\ Behind
  BY <1>1, <1>2 DEF NoFault, Behind
<1>7. Waiting /\ Armed
  BY <1>2 DEF Waiting, Armed
<1>8. Lists
  BY <1>2, <1>3 DEF Lists, ListOf, AtList
<1> QED
  BY <1>5, <1>6, <1>7, <1>8 DEF WheelInv

LEMMA WheelStepRight ==
  ASSUME WithinATurn, WheelInv, [WheelNext]_timeVars
  PROVE  WheelInv'
<1>1. CASE Advance
  BY <1>1, AdvanceRight
<1>2. ASSUME NEW t \in Timers, NEW d \in Delays,
             NEW iv \in {i \in Intervals : i = d} \cup {0},
             AddTimer(t, d, iv) \/ AddTimerRemotely(t, d, iv)
      PROVE  WheelInv'
  BY <1>2, AddTimerRight, AddTimerRemotelyRight
<1>3. ASSUME NEW t \in Timers, CancelTimer(t) PROVE WheelInv'
  BY <1>3, CancelTimerRight
<1>4. CASE TockStep
  BY <1>4, TockBeginRight, NextSlotRight, TockEndRight, RunTimerRight,
     TimerRanRight, ListEndRight, AddTimerInReactorRight DEF TockStep
<1>5. CASE UNCHANGED timeVars
  BY <1>5 DEF timeVars, wheelVars, timerVars, WheelInv, WheelTypes, WheelTypeOK,
              NoFault, Behind, Waiting, Lists, Armed, ListOf, Processing,
              AtList, Ahead
<1> QED
  BY <1>1, <1>2, <1>3, <1>4, <1>5 DEF WheelNext

\* The timer that runs, and every armed one, is on time.
LEMMA OnTime ==
  ASSUME WheelInv
  PROVE  TimersOnTime
<1>0. startIdx \in Slots /\ start <= now
  BY WheelType
<1>1. \A i \in Slots : /\ Ahead(i) = 0 => i = startIdx
                       /\ i = startIdx => Ahead(i) = 0
  <2> SUFFICES ASSUME NEW i \in Slots
               PROVE  /\ Ahead(i) = 0 => i = startIdx
                      /\ i = startIdx => Ahead(i) = 0
    OBVIOUS
  <2>1. PICK n : n = (startIdx + 1) % NumSlot
    OBVIOUS
  <2>2. /\ (i - startIdx) % NumSlot \in Nat
        /\ (i - i) % NumSlot = 0
        /\ i # startIdx => (i - startIdx) % NumSlot >= 1
    BY <1>0, <2>1, OneSlotOn
  <2> QED
    BY <2>2 DEF Ahead
<1>2. NoTimerMissed
  <2> SUFFICES ASSUME NEW t \in Timers, status[t] = "linked"
               PROVE  /\ t \in Range(slot[index[t]])
                      /\ due[t] - TurnOf(t) \in 0..Unit
    BY DEF NoTimerMissed
  <2>1. /\ index[t] \in Slots
        /\ t \in Range(slot[index[t]])
        /\ index[t] = startIdx => Processing(t)
        /\ due[t] - (start + Unit * Ahead(index[t])) \in 0..Unit
    BY DEF WheelInv, Armed
  <2>2. TurnOf(t) = start + Unit * Ahead(index[t])
    BY <1>1, <2>1 DEF TurnOf, Ahead
  <2> QED
    BY <2>1, <2>2
<1>3. RunsOnTime
  <2> SUFFICES ASSUME tockPc = "callback"
               PROVE  due[Head(todo)] - start \in 0..Unit
    BY <1>0 DEF RunsOnTime
  <2>1. PICK t : t = Head(todo)
    OBVIOUS
  <2>2. t \in Timers /\ status[t] = "linked" /\ index[t] = startIdx
    BY <2>1, HeadArmed DEF WheelInv, Lists, AtList
  <2>3. due[t] - (start + Unit * Ahead(startIdx)) \in 0..Unit
    BY <2>2 DEF WheelInv, Armed
  <2>4. Ahead(startIdx) = 0 /\ Unit * 0 = 0 /\ start + 0 = start
    BY <1>0, <1>1, WheelType
  <2> QED
    BY <2>1, <2>3, <2>4
<1> QED
  BY <1>2, <1>3 DEF TimersOnTime

LEMMA WheelAlways == WithinATurn => (WheelSpec => []WheelInv)
<1> SUFFICES ASSUME WithinATurn PROVE WheelSpec => []WheelInv
  OBVIOUS
<1>1. WheelInit => WheelInv
  BY WheelInitRight
<1>2. WheelInv /\ [WheelNext]_timeVars => WheelInv'
  BY WheelStepRight
<1> QED
  BY <1>1, <1>2, PTL DEF WheelSpec

\* However the timers are added, by the loop's thread or by others, run,
\* repeated and cancelled: addTimer finds a slot for each of them, tock()
\* touches none that is deleted and finds none in a slot it does not belong to
\* (TimeWheel.cc:49, 164).
THEOREM WheelNeverFails == WithinATurn => (WheelSpec => []NoFault)
<1>1. WheelInv => NoFault
  BY DEF WheelInv
<1> QED
  BY <1>1, WheelAlways, PTL

\* And every armed timer is in the list of the millisecond it is due in or the
\* one before, to which the wheel comes in this turn: it runs then.
THEOREM TimersRunOnTime == WithinATurn => (WheelSpec => []TimersOnTime)
<1>1. WheelInv => TimersOnTime
  BY OnTime
<1> QED
  BY <1>1, WheelAlways, PTL

=============================================================================
