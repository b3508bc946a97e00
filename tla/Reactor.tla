------------------------------- MODULE Reactor -------------------------------
(***************************************************************************)
(* libeva/Reactor/Reactor.cc: the dispatch loop, and the queue of functors *)
(* through which every other thread talks to it.                           *)
(*                                                                         *)
(* One thread, Owner, constructs the reactor and runs dispatch(); Others   *)
(* call queueInReactor(), runInReactor() and stop() at any time.  The      *)
(* owner calls them too, from the callbacks the loop runs.  Every access   *)
(* to a shared atomic, and every critical section of mutex_, is a step of  *)
(* its own, so all the interleavings of the C++ memory model's single      *)
(* order of seq_cst operations are explored.                               *)
(***************************************************************************)
EXTENDS Naturals, Sequences, Functions

CONSTANTS Owner,             \* the thread that runs dispatch()
          Others,            \* the threads that call into the reactor
          Functors,          \* the functors they hand over, each at most once
          MaxStops,          \* bound: calls of stop()
          MaxDispatches,     \* bound: calls of dispatch()
          OwnerQueuesEarly   \* may the owner queue functors outside dispatch()?

ASSUME OwnerAssumption == Owner \notin Others
ASSUME BoundsAssumption ==
  /\ MaxStops \in Nat
  /\ MaxDispatches \in Nat
  /\ OwnerQueuesEarly \in BOOLEAN

Threads == Others \cup {Owner}

VARIABLES
  dispatching,             \* dispatching_
  hasPendingFunctors,      \* hasPendingFunctors_
  callingPendingFunctors,  \* callingPendingFunctors_
  pendingFunctors,         \* pendingFunctors_, guarded by mutex_
  eventfd,                 \* the counter of eventfd_ is not zero
  activeEvents,            \* activeEvents_: what the poller reported
  batch,                   \* doPendingFunctors: the rest of the local functors
  pc,                      \* where the owner is
  call,                    \* where each thread is in queueInReactor or stop
  ran,                     \* history: functors executed, in order
  stops, dispatches        \* calls of stop() and of dispatch() so far

queueVars == <<hasPendingFunctors, pendingFunctors, eventfd>>
loopVars == <<callingPendingFunctors, activeEvents, batch>>
callVars == <<call, ran, stops>>
vars == <<dispatching, queueVars, loopVars, callVars, pc, dispatches>>

\* Where the owner executes code of the program, which may call the reactor:
\* outside dispatch(), in an event's callback, a timer's or a functor.
UserCode == {"outside", "ioCallback", "timerCallback", "functor"}

Positions == UserCode \cup {"while", "poll", "events", "tock", "check",
                            "swap", "run", "clear"}

-----------------------------------------------------------------------------
(* The reactor as constructed.                                             *)

Init ==
  /\ dispatching = FALSE
  /\ hasPendingFunctors = FALSE
  /\ callingPendingFunctors = FALSE
  /\ pendingFunctors = <<>>
  /\ eventfd = FALSE
  /\ activeEvents = {}
  /\ batch = <<>>
  /\ pc = "outside"
  /\ call = [t \in Threads |-> "none"]
  /\ ran = <<>>
  /\ stops = 0
  /\ dispatches = 0

-----------------------------------------------------------------------------
(* Calls of any thread.                                                    *)

MayCall(t) ==
  /\ call[t] = "none"
  /\ t = Owner => pc \in UserCode

New(f) == f \notin Range(ran) \cup Range(batch) \cup Range(pendingFunctors)

\* Mutant of PushFunctor: the loop iterates over the shared vector itself, so
\* that functors queued meanwhile join the batch.
PushIntoBatch(t, f) ==
  /\ MayCall(t)
  /\ (t = Owner /\ pc = "outside") => OwnerQueuesEarly
  /\ New(f)
  /\ IF callingPendingFunctors
       THEN batch' = Append(batch, f) /\ UNCHANGED pendingFunctors
       ELSE pendingFunctors' = Append(pendingFunctors, f) /\ UNCHANGED batch
  /\ call' = [call EXCEPT ![t] = "pushed"]
  /\ UNCHANGED <<dispatching, hasPendingFunctors, eventfd, activeEvents,
                 callingPendingFunctors, ran, stops, pc, dispatches>>

\* queueInReactor: the critical section.
PushFunctor(t, f) ==
  /\ MayCall(t)
  /\ (t = Owner /\ pc = "outside") => OwnerQueuesEarly
  /\ New(f)
  /\ pendingFunctors' = Append(pendingFunctors, f)
  /\ call' = [call EXCEPT ![t] = "pushed"]
  /\ UNCHANGED <<dispatching, hasPendingFunctors, eventfd, loopVars, ran,
                 stops, pc, dispatches>>

\* Mutant of FlagPending: no wakeup for what a functor queues.
FlagWithoutSelfWakeup(t) ==
  /\ call[t] = "pushed"
  /\ hasPendingFunctors' = TRUE
  /\ call' = [call EXCEPT ![t] = IF t # Owner THEN "waking" ELSE "none"]
  /\ UNCHANGED <<dispatching, pendingFunctors, eventfd, loopVars, ran, stops,
                 pc, dispatches>>

\* queueInReactor: hasPendingFunctors_ = true, then the test whether the
\* reactor has to be woken up.  Only the owner's test reads
\* callingPendingFunctors_, and only the owner writes it.
FlagPending(t) ==
  /\ call[t] = "pushed"
  /\ hasPendingFunctors' = TRUE
  /\ call' = [call EXCEPT ![t] =
                IF t # Owner \/ callingPendingFunctors THEN "waking" ELSE "none"]
  /\ UNCHANGED <<dispatching, pendingFunctors, eventfd, loopVars, ran, stops,
                 pc, dispatches>>

\* wakeup: the write to eventfd_.
Wakeup(t) ==
  /\ call[t] = "waking"
  /\ eventfd' = TRUE
  /\ call' = [call EXCEPT ![t] = "none"]
  /\ UNCHANGED <<dispatching, hasPendingFunctors, pendingFunctors, loopVars,
                 ran, stops, pc, dispatches>>

\* runInReactor on the reactor's own thread executes the functor on the spot.
RunInline(f) ==
  /\ MayCall(Owner)
  /\ New(f)
  /\ ran' = Append(ran, f)
  /\ UNCHANGED <<dispatching, queueVars, loopVars, call, stops, pc, dispatches>>

\* On another thread it is queueInReactor.
RunInReactor(t, f) == PushFunctor(t, f) \/ (t = Owner /\ RunInline(f))

\* Mutant of Stop: no wakeup.
StopWithoutWakeup(t) ==
  /\ MayCall(t)
  /\ stops < MaxStops
  /\ stops' = stops + 1
  /\ dispatching' = FALSE
  /\ UNCHANGED <<queueVars, loopVars, call, ran, pc, dispatches>>

Stop(t) ==
  /\ MayCall(t)
  /\ stops < MaxStops
  /\ stops' = stops + 1
  /\ dispatching' = FALSE
  /\ call' = [call EXCEPT ![t] = IF t = Owner THEN "none" ELSE "waking"]
  /\ UNCHANGED <<queueVars, loopVars, ran, pc, dispatches>>

-----------------------------------------------------------------------------
(* The owner: dispatch() and what it calls.                                *)

Goto(from, to) ==
  /\ pc = from
  /\ pc' = to

Dispatch ==
  /\ Goto("outside", "while")
  /\ call[Owner] = "none"
  /\ dispatches < MaxDispatches
  /\ dispatches' = dispatches + 1
  /\ dispatching' = TRUE
  /\ UNCHANGED <<queueVars, loopVars, callVars>>

\* Mutant of TestDispatching: the loop does not test dispatching_.
LoopForever ==
  /\ Goto("while", "poll")
  /\ UNCHANGED <<dispatching, queueVars, loopVars, callVars, dispatches>>

TestDispatching ==
  /\ Goto("while", IF dispatching THEN "poll" ELSE "outside")
  /\ UNCHANGED <<dispatching, queueVars, loopVars, callVars, dispatches>>

\* epoll_wait reports what is ready: eventfd_ when its counter is not zero,
\* and possibly events of other descriptors.
Demultiplex(io) ==
  /\ Goto("poll", "events")
  /\ eventfd \/ io
  /\ activeEvents' = (IF eventfd THEN {"wakeup"} ELSE {})
                       \cup (IF io THEN {"io"} ELSE {})
  /\ UNCHANGED <<dispatching, queueVars, callingPendingFunctors, batch,
                 callVars, dispatches>>

\* epoll_wait returns nothing after ten seconds.
PollTimeout ==
  /\ Goto("poll", "events")
  /\ ~eventfd
  /\ activeEvents' = {}
  /\ UNCHANGED <<dispatching, queueVars, callingPendingFunctors, batch,
                 callVars, dispatches>>

\* Mutant of ReadEventfd: it does not raise hasPendingFunctors_.
ReadEventfdOnly ==
  /\ pc = "events"
  /\ "wakeup" \in activeEvents
  /\ activeEvents' = activeEvents \ {"wakeup"}
  /\ eventfd' = FALSE
  /\ UNCHANGED <<dispatching, hasPendingFunctors, pendingFunctors,
                 callingPendingFunctors, batch, callVars, pc, dispatches>>

\* Event::handle of wakeupEvent_ calls readEventfd.
ReadEventfd ==
  /\ pc = "events"
  /\ "wakeup" \in activeEvents
  /\ activeEvents' = activeEvents \ {"wakeup"}
  /\ eventfd' = FALSE
  /\ hasPendingFunctors' = TRUE
  /\ UNCHANGED <<dispatching, pendingFunctors, callingPendingFunctors, batch,
                 callVars, pc, dispatches>>

\* Event::handle of another event calls back into the program.
HandleIo ==
  /\ Goto("events", "ioCallback")
  /\ "io" \in activeEvents
  /\ activeEvents' = activeEvents \ {"io"}
  /\ UNCHANGED <<dispatching, queueVars, callingPendingFunctors, batch,
                 callVars, dispatches>>

\* A callback of the program returns to the loop.
CallbackReturns ==
  /\ call[Owner] = "none"
  /\ \/ Goto("ioCallback", "events")
     \/ Goto("timerCallback", "check")
     \/ Goto("functor", "run")
  /\ UNCHANGED <<dispatching, queueVars, loopVars, callVars, dispatches>>

EventsHandled ==
  /\ activeEvents = {}
  /\ Goto("events", "tock")
  /\ UNCHANGED <<dispatching, queueVars, loopVars, callVars, dispatches>>

\* timeWheel_->tock() runs the timers that are due, if any.
Tock ==
  /\ Goto("tock", "check") \/ Goto("tock", "timerCallback")
  /\ UNCHANGED <<dispatching, queueVars, loopVars, callVars, dispatches>>

CheckPending ==
  /\ Goto("check", IF hasPendingFunctors THEN "swap" ELSE "while")
  /\ UNCHANGED <<dispatching, queueVars, loopVars, callVars, dispatches>>

\* Mutant of SwapPending: the vector is copied and not emptied.
CopyPending ==
  /\ Goto("swap", "run")
  /\ callingPendingFunctors' = TRUE
  /\ batch' = pendingFunctors
  /\ UNCHANGED <<dispatching, queueVars, activeEvents, callVars, dispatches>>

\* doPendingFunctors up to the end of its critical section.
SwapPending ==
  /\ Goto("swap", "run")
  /\ callingPendingFunctors' = TRUE
  /\ batch' = pendingFunctors
  /\ pendingFunctors' = <<>>
  /\ UNCHANGED <<dispatching, hasPendingFunctors, eventfd, activeEvents,
                 callVars, dispatches>>

RunFunctor ==
  /\ Goto("run", "functor")
  /\ batch # <<>>
  /\ ran' = Append(ran, Head(batch))
  /\ batch' = Tail(batch)
  /\ UNCHANGED <<dispatching, queueVars, callingPendingFunctors, activeEvents,
                 call, stops, dispatches>>

BatchDone ==
  /\ Goto("run", "clear")
  /\ batch = <<>>
  /\ callingPendingFunctors' = FALSE
  /\ UNCHANGED <<dispatching, queueVars, activeEvents, batch, callVars,
                 dispatches>>

\* hasPendingFunctors_ = false, after doPendingFunctors has returned.
ClearPending ==
  /\ Goto("clear", "while")
  /\ hasPendingFunctors' = FALSE
  /\ UNCHANGED <<dispatching, pendingFunctors, eventfd, loopVars, callVars,
                 dispatches>>

-----------------------------------------------------------------------------

CallStep(t) == FlagPending(t) \/ Wakeup(t)

\* What the loop does by itself once it has something to do.
LoopStep ==
  \/ TestDispatching
  \/ eventfd /\ \E io \in BOOLEAN : Demultiplex(io)
  \/ ReadEventfd \/ HandleIo \/ CallbackReturns \/ EventsHandled
  \/ Tock \/ CheckPending \/ SwapPending \/ RunFunctor \/ BatchDone
  \/ ClearPending

Next ==
  \/ \E t \in Threads :
       \/ \E f \in Functors : RunInReactor(t, f)
       \/ CallStep(t)
       \/ Stop(t)
  \/ Dispatch
  \/ \E io \in BOOLEAN : Demultiplex(io)
  \/ PollTimeout
  \/ LoopStep

Spec == Init /\ [][Next]_vars

\* A thread that has begun a call finishes it, the loop goes on while it has
\* something to do, and callbacks return.  Nothing makes epoll_wait time out
\* or other descriptors ready: the liveness checked under FairSpec is owed to
\* the wakeups alone.
FairSpec ==
  /\ Spec
  /\ WF_vars(LoopStep)
  /\ \A t \in Threads : WF_vars(CallStep(t))

-----------------------------------------------------------------------------
(* Properties.                                                             *)

\* Every variable has its type; callingPendingFunctors_ is set exactly while
\* doPendingFunctors executes the functors it swapped out, and no functor is
\* left in its local vector when it returns.
TypeOK ==
  /\ dispatching \in BOOLEAN
  /\ hasPendingFunctors \in BOOLEAN
  /\ callingPendingFunctors \in BOOLEAN
  /\ callingPendingFunctors <=> pc \in {"run", "functor"}
  /\ pendingFunctors \in Seq(Functors)
  /\ eventfd \in BOOLEAN
  /\ activeEvents \subseteq {"wakeup", "io"}
  /\ batch \in Seq(Functors)
  /\ batch # <<>> => pc \in {"run", "functor"}
  /\ pc \in Positions
  /\ call \in [Threads -> {"none", "pushed", "waking"}]
  /\ ran \in Seq(Functors)
  /\ stops \in 0..MaxStops
  /\ dispatches \in 0..MaxDispatches

\* Some thread is between its critical section and the end of its call.
Signalling == \E t \in Threads : call[t] # "none"

\* The loop cannot forget a queued functor: while one is queued, the flag is
\* up, or the eventfd is readable, or a thread is about to raise one of them.
\* This is what makes it harmless that the loop clears hasPendingFunctors_
\* (Reactor.cc:78) after functors may have been queued behind its swap.
PendingIsNoticed ==
  pendingFunctors # <<>> => hasPendingFunctors \/ eventfd \/ Signalling

\* No lost wakeup: the loop never sleeps in epoll_wait on queued functors,
\* whichever of its own steps the queueing thread's were interleaved with.
\* Holds when the owner queues nothing outside dispatch() (Reactor.cc:128
\* writes no wakeup for it then).
NoSleepOnPending ==
  pc = "poll" /\ pendingFunctors # <<>> => eventfd \/ Signalling

\* No lost stop inside dispatch(): the loop never sleeps in epoll_wait once
\* stop() has cleared dispatching_.
NoSleepAfterStop ==
  pc = "poll" /\ ~dispatching => eventfd \/ Signalling

\* A functor queued while a batch is being executed waits for the next
\* iteration, so that functors that queue functors cannot keep the loop from
\* its events and timers.
BatchIsFixed ==
  [][callingPendingFunctors =>
       batch' = batch \/ (batch # <<>> /\ batch' = Tail(batch))]_vars

Queue == INSTANCE Executor WITH todo <- batch \o pendingFunctors, done <- ran

\* The loop, its flags, its lock and its wakeups implement one queue whose
\* functors are executed in the order they were queued, each once.
Implements == Queue!Spec

\* Every functor queued while dispatch() runs is executed, unless the loop is
\* stopped first.
EveryFunctorRuns ==
  \A f \in Functors :
    (pc # "outside" /\ f \in Range(pendingFunctors)) ~>
      (f \in Range(ran) \/ pc = "outside")

\* stop() called while dispatch() runs makes dispatch() return.
StopEndsDispatch ==
  (pc # "outside" /\ ~dispatching) ~> (pc = "outside")
=============================================================================
