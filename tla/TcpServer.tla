------------------------------ MODULE TcpServer ------------------------------
(***************************************************************************)
(* libeva/Net/TcpServer.cc with the life of its connections                *)
(* (TcpConnection.cc), its acceptor (Acceptor.cc), its pool of sub reactors*)
(* (Reactor/ReactorThreadPool.cc) and their demultiplexers.                *)
(*                                                                         *)
(* The thread of the reactor Main accepts connections and owns connMap_;   *)
(* each connection lives in the thread of a reactor that is chosen round   *)
(* robin.  The threads talk through the functors they queue to each other, *)
(* and a connection is deleted when the last shared_ptr to it is gone: the *)
(* one in connMap_ and those bound into functors.  That closes its socket, *)
(* and the next connection gets the same file descriptor, by which the     *)
(* demultiplexers know their events.                                       *)
(*                                                                         *)
(* Reactor.tla shows that a reactor executes its functors in order.  Here  *)
(* a reactor is its loop: it reads the events that are ready, handles      *)
(* them, executes the functors that are queued by then and tests whether   *)
(* it has been stopped.  An event handler and a functor are one step each, *)
(* as what they share with other threads is the functor queues.            *)
(***************************************************************************)
EXTENDS Naturals, Sequences, FiniteSets, Functions

CONSTANTS Main,     \* reactor_, the reactor that accepts
          Listen,   \* the event of the acceptor's socket
          Subs,     \* the sub reactors there may be, a sequence
          SubNums,  \* the arguments of setSubReactorNum()
          Conns,    \* the clients there are: a connection each
          None      \* no connection, and no reactor

ASSUME SubsAssumption ==
  /\ Subs \in Seq(Range(Subs))
  /\ Main \notin Range(Subs) /\ SubNums \subseteq 0..Len(Subs)
  /\ \A i, j \in DOMAIN Subs : Subs[i] = Subs[j] => i = j
ASSUME NoneAssumption == /\ None \notin Conns \cup Range(Subs) \cup {Main}
                         /\ Listen \notin Conns \cup {None}
                         /\ IsFiniteSet(Conns)

Reactors == Range(Subs) \cup {Main}

\* The file descriptors of connections, numbered from 1.
Fds == 1..Cardinality(Conns)

VARIABLES
  server,       \* the life of the TcpServer
  pool,         \* reactors_ of the pool, as many as threadNum_ says
  nextIndex,    \* nextIndex_ of the pool
  connMap,      \* the connections in connMap_
  left,         \* ~TcpServer: the connections its loop has still to visit
  joined,       \* ~ReactorThreadPool: how many sub reactors are stopped
  owner,        \* owner_ of each connection, None before it is accepted
  fd,           \* its socket's file descriptor
  state,        \* state_
  registered,   \* the state_ of its event
  eventMap,     \* eventMap_ of the reactors: an event by its descriptor
  peerClosed,   \* has the peer closed the connection?
  newCalls, finCalls,   \* history: calls of newConnCb_ and of finConnCb_
  phase,        \* where each reactor's loop is
  stopped,      \* dispatching_ has been cleared
  active,       \* activeEvents_, of connections and the acceptor
  current,      \* the connection whose Event::handle is running, or None
  queue,        \* pendingFunctors_
  batch,        \* the functors of doPendingFunctors()
  done          \* how many of them it has executed

serverVars == <<server, pool, nextIndex, connMap, left, joined>>
eventVars == <<registered, eventMap>>
connVars == <<owner, fd, state, eventVars, peerClosed, newCalls, finCalls>>
loopVars == <<phase, stopped, active, current, batch, done>>
vars == <<serverVars, connVars, loopVars, queue>>

Functor(op, c) == [op |-> op, conn |-> c]

Functors == [op : {"connectEstablished", "removeConnection",
                   "connectDestroyed"},
             conn : Conns]

\* The server after start().
Init ==
  /\ server = "started" /\ nextIndex = 0
  /\ pool \in {SubSeq(Subs, 1, n) : n \in SubNums}
  /\ connMap = {} /\ left = {} /\ joined = 0
  /\ owner = [c \in Conns |-> None]
  /\ fd = [c \in Conns |-> 0]
  /\ state = [c \in Conns |-> "kDisconnected"]
  /\ registered = [c \in Conns |-> "kNew"]
  /\ eventMap = [r \in Reactors |-> [n \in Fds |-> None]]
  /\ peerClosed = [c \in Conns |-> FALSE]
  /\ newCalls = [c \in Conns |-> 0]
  /\ finCalls = [c \in Conns |-> 0]
  /\ phase = [r \in Reactors |-> "while"]
  /\ stopped = [r \in Reactors |-> FALSE]
  /\ active = [r \in Reactors |-> {}]
  /\ current = [r \in Reactors |-> None]
  /\ queue = [r \in Reactors |-> <<>>]
  /\ batch = [r \in Reactors |-> <<>>]
  /\ done = [r \in Reactors |-> 0]

\* Some shared_ptr to the connection is left; doPendingFunctors() keeps those
\* of its functors until it returns.
Referenced(c) ==
  \/ c \in connMap
  \/ \E r \in Reactors :
       \E f \in Range(queue[r]) \cup Range(batch[r]) : f.conn = c

\* The descriptor accept4() gives: the lowest that is not open.
LowestFree ==
  LET open == {fd[c] : c \in {d \in Conns : owner[d] # None /\ Referenced(d)}}
  IN  CHOOSE n \in Fds \ open : \A k \in Fds \ open : n <= k

-----------------------------------------------------------------------------
(* The demultiplexer of a reactor.  registerEvent() sees an event that is  *)
(* new, or one that it has added and that asks for nothing any more: no    *)
(* connection that has disabled its event enables it again.                *)

handleNewEvent(r, c, n) ==
  /\ registered' = [registered EXCEPT ![c] = "kAdded"]
  /\ eventMap' = [eventMap EXCEPT ![r][n] = c]

\* Line 136 is assert ( false ), and this is where every disabling of a
\* registered event comes, so every close: the build compiles the assertion
\* out, and a build that did not would end here.  (It would not compile: lines
\* 110, 129, 130 and 137 to 139 name what is not declared.)
handleExistEvent(c) ==
  /\ registered' = [registered EXCEPT ![c] = "kDeled"]
  /\ UNCHANGED eventMap

unregisterEvent(c) ==
  /\ registered' = [registered EXCEPT ![c] = "kNew"]
  /\ eventMap' = [eventMap EXCEPT ![owner[c]][fd[c]] = None]

-----------------------------------------------------------------------------
(* What the handlers do.                                                   *)

\* queueInReactor, and runInReactor on another thread.
Post(r, op, c) == queue' = [queue EXCEPT ![r] = Append(@, Functor(op, c))]

\* TcpConnection::connectEstablished, on reactor r, of descriptor n.
Establish(c, r, n) ==
  /\ handleNewEvent(r, c, n)
  /\ state' = [state EXCEPT ![c] = "kConnected"]
  /\ newCalls' = [newCalls EXCEPT ![c] = @ + 1]
  /\ UNCHANGED <<peerClosed, finCalls>>

\* Mutant of Destroy: finConnCb_ is called whatever the state.
DestroyAlwaysCalls(c) ==
  /\ state' = [state EXCEPT ![c] = "kDisconnected"]
  /\ finCalls' = [finCalls EXCEPT ![c] = @ + 1]
  /\ unregisterEvent(c)
  /\ UNCHANGED <<owner, fd, peerClosed, newCalls>>

\* Mutant of Destroy: the event is disabled, and not removed.
DestroyWithoutRemove(c) ==
  /\ state' = [state EXCEPT ![c] = "kDisconnected"]
  /\ finCalls' =
       [finCalls EXCEPT ![c] = IF state[c] = "kConnected" THEN @ + 1 ELSE @]
  /\ handleExistEvent(c)
  /\ UNCHANGED <<owner, fd, peerClosed, newCalls>>

\* TcpConnection::connectDestroyed
Destroy(c) ==
  /\ state' = [state EXCEPT ![c] = "kDisconnected"]
  /\ finCalls' =
       [finCalls EXCEPT ![c] = IF state[c] = "kConnected" THEN @ + 1 ELSE @]
  /\ unregisterEvent(c)
  /\ UNCHANGED <<owner, fd, peerClosed, newCalls>>

\* Mutant of Remove: the connection is not erased from connMap_.
RemoveWithoutErase(c) ==
  /\ Post(owner[c], "connectDestroyed", c)
  /\ UNCHANGED serverVars

\* TcpServer::removeConnectionInReactor
Remove(c) ==
  /\ connMap' = connMap \ {c}
  /\ Post(owner[c], "connectDestroyed", c)
  /\ UNCHANGED <<server, pool, nextIndex, left, joined>>

\* ReactorThreadPool::getNextReactor moves nextIndex_.
NextIndex == IF pool = <<>> THEN nextIndex ELSE (nextIndex + 1) % Len(pool)

-----------------------------------------------------------------------------
(* The loop of a reactor.                                                  *)

Goto(r, from, to) ==
  /\ phase[r] = from
  /\ phase' = [phase EXCEPT ![r] = to]

\* What epoll_wait finds: the connections of r that a read would tell of their
\* end, and the acceptor, if a client has come.
Ready(r) ==
  {c \in Conns : owner[c] = r /\ registered[c] = "kAdded" /\ peerClosed[c]}
    \union {e \in {Listen} : r = Main /\ \E c \in Conns : owner[c] = None}

\* demultiplex()

Demultiplex(r) ==
  /\ Goto(r, "while", "events")
  /\ ~stopped[r]
  /\ \E e \in {Ready(r), Ready(r) \ {Listen}} :
       active' = [active EXCEPT ![r] = e]
  /\ UNCHANGED <<serverVars, connVars, stopped, current, batch, done, queue>>

\* dispatch() returns.  A sub reactor is destroyed at the end of its thread,
\* with the functors that are still queued.
DispatchReturns(r) ==
  /\ Goto(r, "while", "exited")
  /\ stopped[r]
  /\ queue' = IF r = Main THEN queue ELSE [queue EXCEPT ![r] = <<>>]
  /\ UNCHANGED <<serverVars, connVars, stopped, active, current, batch, done>>

\* Acceptor::handleRead, when accept4() fails or poll() tells of an error.
AcceptFails ==
  /\ phase[Main] = "events" /\ Listen \in active[Main]
  /\ active' = [active EXCEPT ![Main] = @ \ {Listen}]
  /\ UNCHANGED <<serverVars, connVars, phase, stopped, current, batch, done,
                 queue>>

\* Acceptor::handleRead and TcpServer::handleNewConnection.
HandleNewConnection(c) ==
  LET r == IF pool = <<>> THEN Main ELSE pool[nextIndex + 1] IN
  /\ phase[Main] = "events" /\ Listen \in active[Main]
  /\ active' = [active EXCEPT ![Main] = @ \ {Listen}]
  /\ owner[c] = None
  /\ fd' = [fd EXCEPT ![c] = LowestFree]
  /\ nextIndex' = NextIndex
  /\ connMap' = connMap \cup {c}
  /\ owner' = [owner EXCEPT ![c] = r]
  /\ IF r = Main
       THEN Establish(c, r, LowestFree) /\ UNCHANGED queue
       ELSE /\ Post(r, "connectEstablished", c)
            /\ UNCHANGED <<state, eventVars, peerClosed, newCalls, finCalls>>
  /\ UNCHANGED <<server, pool, left, joined, phase, stopped, current, batch,
                 done>>

\* Mutant of HandleClose: the connection is destroyed at once.
HandleCloseDestroys(r, c) ==
  /\ Goto(r, "events", "handling")
  /\ c \in active[r]
  /\ current' = [current EXCEPT ![r] = c]
  /\ state' = [state EXCEPT ![c] = "kDisconnected"]
  /\ unregisterEvent(c)
  /\ finCalls' = [finCalls EXCEPT ![c] = @ + 1]
  /\ connMap' = connMap \ {c}
  /\ UNCHANGED <<server, pool, nextIndex, left, joined, owner, fd, peerClosed,
                 newCalls, stopped, active, batch, done, queue>>

\* handleRead reads 0 and calls handleClose, whose closeCb_ is
\* TcpServer::removeConnection.
HandleClose(r, c) ==
  /\ Goto(r, "events", "handling")
  /\ c \in active[r]
  /\ current' = [current EXCEPT ![r] = c]
  /\ state' = [state EXCEPT ![c] = "kDisconnected"]
  /\ handleExistEvent(c)
  /\ finCalls' = [finCalls EXCEPT ![c] = @ + 1]
  /\ IF r = Main THEN Remove(c)
     ELSE Post(Main, "removeConnection", c) /\ UNCHANGED serverVars
  /\ UNCHANGED <<owner, fd, peerClosed, newCalls, stopped, active, batch, done>>

\* Event::handle returns.
EventHandled(r) ==
  /\ Goto(r, "handling", "events")
  /\ active' = [active EXCEPT ![r] = @ \ {current[r]}]
  /\ current' = [current EXCEPT ![r] = None]
  /\ UNCHANGED <<serverVars, connVars, stopped, batch, done, queue>>

SwapPending(r) ==
  /\ Goto(r, "events", "functors")
  /\ active[r] = {}
  /\ batch' = [batch EXCEPT ![r] = queue[r]]
  /\ queue' = [queue EXCEPT ![r] = <<>>]
  /\ UNCHANGED <<serverVars, connVars, stopped, active, current, done>>

RunFunctor(r) ==
  LET c == batch[r][done[r] + 1].conn
      op == batch[r][done[r] + 1].op IN
  /\ phase[r] = "functors"
  /\ done[r] < Len(batch[r])
  /\ done' = [done EXCEPT ![r] = @ + 1]
  /\ \/ /\ op = "connectEstablished" /\ Establish(c, r, fd[c])
        /\ UNCHANGED <<owner, fd, serverVars, queue>>
     \/ /\ op = "removeConnection" /\ Remove(c)
        /\ UNCHANGED connVars
     \/ /\ op = "connectDestroyed" /\ Destroy(c)
        /\ UNCHANGED <<serverVars, queue>>
  /\ UNCHANGED <<phase, stopped, active, current, batch>>

\* doPendingFunctors() returns, and its functors are gone.
BatchDone(r) ==
  /\ Goto(r, "functors", "while")
  /\ done[r] = Len(batch[r])
  /\ batch' = [batch EXCEPT ![r] = <<>>]
  /\ done' = [done EXCEPT ![r] = 0]
  /\ UNCHANGED <<serverVars, connVars, stopped, active, current, queue>>

-----------------------------------------------------------------------------
(* The program: it stops the main reactor, and destroys the server once    *)
(* dispatch() has returned.                                                *)

StopMain ==
  /\ ~stopped[Main]
  /\ stopped' = [stopped EXCEPT ![Main] = TRUE]
  /\ UNCHANGED <<serverVars, connVars, phase, active, current, batch, done,
                 queue>>

DtorBegin ==
  /\ server = "started" /\ phase[Main] = "exited"
  /\ server' = "destroying"
  /\ left' = connMap
  /\ UNCHANGED <<pool, nextIndex, connMap, joined, connVars, loopVars, queue>>

\* An iteration of ~TcpServer's loop.
DtorConnection(c) ==
  /\ server = "destroying" /\ c \in left
  /\ left' = left \ {c}
  /\ connMap' = connMap \ {c}
  /\ Post(owner[c], "connectDestroyed", c)
  /\ UNCHANGED <<server, pool, nextIndex, joined, connVars, loopVars>>

\* ~ReactorThreadPool: ~ReactorThread of the next one stops its reactor.
DtorStopSub ==
  /\ server = "destroying" /\ left = {}
  /\ joined < Len(pool)
  /\ ~stopped[pool[joined + 1]]
  /\ stopped' = [stopped EXCEPT ![pool[joined + 1]] = TRUE]
  /\ UNCHANGED <<serverVars, connVars, phase, active, current, batch, done,
                 queue>>

\* Mutant of DtorJoinSub: the thread is not waited for.
DtorDetachSub ==
  /\ server = "destroying" /\ joined < Len(pool)
  /\ stopped[pool[joined + 1]]
  /\ joined' = joined + 1
  /\ UNCHANGED <<server, pool, nextIndex, connMap, left, connVars, loopVars,
                 queue>>

\* Then it joins its thread.
DtorJoinSub ==
  /\ server = "destroying" /\ joined < Len(pool)
  /\ stopped[pool[joined + 1]] /\ phase[pool[joined + 1]] = "exited"
  /\ joined' = joined + 1
  /\ UNCHANGED <<server, pool, nextIndex, connMap, left, connVars, loopVars,
                 queue>>

DtorEnd ==
  /\ server = "destroying" /\ left = {} /\ joined = Len(pool)
  /\ server' = "gone"
  /\ UNCHANGED <<pool, nextIndex, connMap, left, joined, connVars, loopVars,
                 queue>>

PeerCloses(c) ==
  /\ owner[c] # None /\ ~peerClosed[c]
  /\ peerClosed' = [peerClosed EXCEPT ![c] = TRUE]
  /\ UNCHANGED <<serverVars, owner, fd, state, eventVars, newCalls, finCalls,
                 loopVars, queue>>

-----------------------------------------------------------------------------

LoopStep(r) ==
  /\ r \in Range(pool) \cup {Main}
  /\ \/ Demultiplex(r) \/ DispatchReturns(r)
     \/ \E c \in Conns : HandleClose(r, c)
     \/ r = Main /\ (AcceptFails \/ \E c \in Conns : HandleNewConnection(c))
     \/ EventHandled(r) \/ SwapPending(r) \/ RunFunctor(r) \/ BatchDone(r)

DtorStep ==
  \/ DtorBegin \/ \E c \in Conns : DtorConnection(c)
  \/ DtorStopSub \/ DtorJoinSub \/ DtorEnd

Next ==
  \/ \E c \in Conns : PeerCloses(c)
  \/ \E r \in Reactors : LoopStep(r)
  \/ StopMain
  \/ DtorStep

Spec == Init /\ [][Next]_vars

\* Every loop goes on, and the destructor, once begun, does too.
FairSpec ==
  /\ Spec
  /\ \A r \in Reactors : WF_vars(LoopStep(r))
  /\ WF_vars(DtorStep)

-----------------------------------------------------------------------------
(* Properties.                                                             *)

\* Every variable has its type.
TypeOK ==
  /\ server \in {"started", "destroying", "gone"}
  /\ pool \in Seq(Range(Subs))
  /\ nextIndex \in Nat /\ (nextIndex = 0 \/ nextIndex < Len(pool))
  /\ connMap \subseteq Conns /\ left \subseteq connMap
  /\ joined \in 0..Len(pool)
  /\ owner \in [Conns -> Reactors \cup {None}]
  /\ state \in [Conns -> {"kDisconnected", "kConnected"}]
  /\ fd \in [Conns -> 0..Cardinality(Conns)]
  /\ registered \in [Conns -> {"kNew", "kAdded", "kDeled"}]
  /\ eventMap \in [Reactors -> [Fds -> Conns \cup {None}]]
  /\ peerClosed \in [Conns -> BOOLEAN]
  /\ newCalls \in [Conns -> Nat] /\ finCalls \in [Conns -> Nat]
  /\ phase \in [Reactors ->
                 {"while", "events", "handling", "functors", "exited"}]
  /\ stopped \in [Reactors -> BOOLEAN]
  /\ active \in [Reactors -> SUBSET (Conns \cup {Listen})]
  /\ current \in [Reactors -> Conns \cup {None}]
  /\ queue \in [Reactors -> Seq(Functors)]
  /\ batch \in [Reactors -> Seq(Functors)]
  /\ done \in [Reactors -> Nat] /\ \A r \in Reactors : done[r] <= Len(batch[r])

\* The program sees each connection begin at most once and end at most once,
\* and never end before it has begun, whether the peer or the server ends it.
CallbacksPaired ==
  \A c \in Conns : finCalls[c] <= newCalls[c] /\ newCalls[c] <= 1

\* A connection is not deleted while a plain pointer to its event is held: by
\* the loop that is about to handle the event, or is handling it, or by the
\* demultiplexer of a running reactor.
NoDanglingEvent ==
  /\ \A r \in Reactors : \A c \in active[r] \ {Listen} : Referenced(c)
  /\ \A c \in Conns :
       owner[c] # None /\ ~Referenced(c) =>
         registered[c] = "kNew" \/ phase[owner[c]] = "exited"

\* Reactor r comes to this functor next.
Executes(r, op, c) ==
  /\ phase[r] = "functors" /\ done[r] < Len(batch[r])
  /\ batch[r][done[r] + 1] = Functor(op, c)

\* Where handleClose is to be called, an event that was found active is still
\* found by its descriptor (Demultiplexer.cc:60), its connection is connected
\* (TcpConnection.cc:156) and, where the main reactor removes it at once, is
\* in connMap_ (TcpServer.cc:100).
CloseAsserts ==
  \A r \in Reactors : \A c \in active[r] \ {Listen} :
    /\ eventMap[r][fd[c]] = c
    /\ c # current[r] => /\ state[c] = "kConnected"
                         /\ r = Main => c \in connMap

\* Where a connection is to be established, on any reactor, its descriptor
\* finds no event (Demultiplexer.cc:121).
EstablishAsserts ==
  /\ \A r \in Reactors : \A c \in Conns :
       Executes(r, "connectEstablished", c) => eventMap[r][fd[c]] = None
  /\ Listen \in active[Main] /\ pool = <<>> /\ (\E c \in Conns : owner[c] = None)
       => eventMap[Main][LowestFree] = None

\* Where a connection is to be destroyed, its descriptor finds its event
\* (Demultiplexer.cc:106, 107), which is disabled unless connectDestroyed is
\* about to do that (108) and has not been removed before (110, as meant).
DestroyAsserts ==
  \A r \in Reactors : \A c \in Conns :
    Executes(r, "connectDestroyed", c) =>
      /\ eventMap[r][fd[c]] = c
      /\ registered[c] # "kNew"
      /\ state[c] = "kDisconnected" => registered[c] # "kAdded"

\* What these assertions say of the connections is true where the code comes
\* to them, in every interleaving of the threads: Demultiplexer.cc:60, 106 to
\* 108 and 121, 110 as meant, TcpConnection.cc:156, and TcpServer.cc:100 for a
\* connection that is removed, at once or by a functor.  A descriptor is used
\* again, on whichever reactor, only when the old event has been removed, and
\* no connection is removed or destroyed twice.  Not among them is
\* Demultiplexer.cc:136, which is false wherever it is reached: see
\* handleExistEvent.
AssertionsHold ==
  /\ CloseAsserts
  /\ \A c \in Conns : Executes(Main, "removeConnection", c) => c \in connMap
  /\ EstablishAsserts
  /\ DestroyAsserts

\* No callback of the program runs once the server is destroyed.
NoCallbackAfterDtor ==
  [][server = "gone" => UNCHANGED <<newCalls, finCalls>>]_vars

\* A connection that the peer has closed is deleted in the end, unless the
\* main reactor is stopped.
ClosedIsDeleted ==
  \A c \in Conns :
    (c \in connMap /\ peerClosed[c]) ~> (~Referenced(c) \/ stopped[Main])
=============================================================================
