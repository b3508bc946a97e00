--------------------------- MODULE TcpServerProofs ---------------------------
(***************************************************************************)
(* The callbacks, the assertions and the lifetime of the connections of    *)
(* TcpServer.tla are right for every number of connections and of sub      *)
(* reactors.                                                               *)
(*                                                                         *)
(* The functors that a reactor has still to execute are one sequence,      *)
(* Todo, whether they are in its queue or in the batch it executes.  The   *)
(* inductive invariant Inv follows a connection through it: it is made by  *)
(* connectEstablished, which comes before every other functor of the       *)
(* connection in its reactor's sequence; from then on it is in connMap_,   *)
(* or its connectDestroyed is on the way, or its reactor's loop is over.   *)
(* Ends and FoundOnly add what only the assertions need: there is one      *)
(* connectDestroyed of a connection, and a descriptor finds no old event.  *)
(***************************************************************************)
EXTENDS TcpServer, FiniteSetTheorems, SequenceTheorems,
        WellFoundedInduction, TLAPS

\* What is left of batch b, of which d are executed, and of queue q.
Rest(b, d, q) ==
  [i \in 1..((Len(b) - d) + Len(q)) |->
     IF i <= Len(b) - d THEN b[d + i] ELSE q[i - (Len(b) - d)]]

\* The functors that each reactor has still to execute, in order.
Todo == [r \in Reactors |-> Rest(batch[r], done[r], queue[r])]

\* The connections that are not deleted.
Refs == {c \in Conns : Referenced(c)}

-----------------------------------------------------------------------------
(* The inductive invariant.                                                *)

\* Events are handled before functors are executed.
Phases ==
  \A r \in Reactors :
    /\ phase[r] \notin {"events", "handling"} => active[r] = {}
    /\ phase[r] # "functors" => batch[r] = <<>> /\ done[r] = 0

\* The loop handles events of its own connections, which are registered, and
\* enabled until they are handled.
Handled ==
  \A r \in Reactors : \A c \in Conns :
    c \in active[r] =>
      /\ owner[c] = r /\ registered[c] # "kNew"
      /\ registered[c] = "kAdded" \/ (phase[r] = "handling" /\ c = current[r])

\* Nothing is known of a client that has not come.
Unseen ==
  \A c \in Conns : owner[c] = None =>
    /\ c \notin Refs /\ registered[c] = "kNew" /\ newCalls[c] = 0

\* What a connection's callbacks have to do with its state.
Calls ==
  \A c \in Conns :
    /\ registered[c] = "kAdded" <=> state[c] = "kConnected"
    /\ state[c] = "kConnected" => newCalls[c] = 1 /\ finCalls[c] = 0
    /\ finCalls[c] <= newCalls[c] /\ newCalls[c] <= 1

\* Every functor is with the reactor that must execute it, and none of a
\* connection precedes its connectEstablished.
Homes ==
  \A r \in Reactors : \A i \in 1..Len(Todo[r]) :
    /\ Todo[r][i].op = "removeConnection" => r = Main
    /\ Todo[r][i].op # "removeConnection" => owner[Todo[r][i].conn] = r
    /\ Todo[r][i].op = "connectEstablished" =>
         /\ newCalls[Todo[r][i].conn] = 0
         /\ \A j \in 1..(i - 1) : Todo[r][j].conn # Todo[r][i].conn

\* The functor is to be executed by the connection's reactor.
Due(op, c) ==
  \E i \in 1..Len(Todo[owner[c]]) : Todo[owner[c]][i] = Functor(op, c)

\* An accepted connection is established sooner or later; while it waits for
\* that or is registered it is in the map, or about to be destroyed, unless
\* its reactor's loop is over.
Kept ==
  \A c \in Conns : owner[c] # None /\ phase[owner[c]] # "exited" =>
    /\ newCalls[c] = 0 => Due("connectEstablished", c)
    /\ newCalls[c] = 0 \/ registered[c] # "kNew" =>
         c \in connMap \/ Due("connectDestroyed", c)

\* As long as the server is there, a connection that has not ended is in the
\* map, and one that has ended is removed from it once.
Removals ==
  server = "started" =>
    /\ \A c \in Conns :
         owner[c] # None /\ (newCalls[c] = 0 \/ registered[c] = "kAdded") =>
           c \in connMap
    /\ \A i \in 1..Len(Todo[Main]) :
         Todo[Main][i].op = "removeConnection" =>
           /\ Todo[Main][i].conn \in connMap
           /\ registered[Todo[Main][i].conn] # "kAdded"
           /\ newCalls[Todo[Main][i].conn] = 1
           /\ \A j \in 1..(i - 1) : Todo[Main][j] # Todo[Main][i]

\* Connections that are not deleted have descriptors of their own.
Descriptors ==
  /\ \A c \in Conns : owner[c] # None => fd[c] \in Fds
  /\ \A c, d \in Refs : fd[c] = fd[d] => c = d

\* A registered event is found by its descriptor.
Found ==
  \A c \in Conns : registered[c] # "kNew" => eventMap[owner[c]][fd[c]] = c

\* The destructor waits for the loops.
Joined ==
  /\ server = "started" => left = {}
  /\ server # "started" => phase[Main] = "exited"
  /\ \A i \in 1..joined : phase[pool[i]] = "exited"
  /\ server = "gone" => joined = Len(pool)

Inv == /\ TypeOK /\ Phases /\ Handled /\ Unseen /\ Calls /\ Homes /\ Kept
       /\ Removals /\ Descriptors /\ Found /\ Joined

\* A connection that has been established, and has not been destroyed, is
\* registered.
Whole(c) == newCalls[c] = 0 \/ registered[c] # "kNew"

\* A connection is destroyed once: its connectDestroyed is posted when it is
\* taken out of the map, and there is no other.
Ends ==
  /\ \A c \in connMap : Whole(c)
  /\ \A r \in Reactors : \A i \in 1..Len(Todo[r]) :
       Todo[r][i].op = "connectDestroyed" =>
         /\ Todo[r][i].conn \notin connMap /\ Whole(Todo[r][i].conn)
         /\ \A j \in 1..(i - 1) : Todo[r][j] # Todo[r][i]

\* A descriptor finds no event but one that is registered under it, and that
\* is an event of an established connection.
FoundOnly ==
  /\ \A r \in Reactors : \A n \in Fds : eventMap[r][n] # None =>
       /\ registered[eventMap[r][n]] # "kNew"
       /\ owner[eventMap[r][n]] = r /\ fd[eventMap[r][n]] = n
  /\ \A c \in Conns : registered[c] # "kNew" => newCalls[c] = 1

-----------------------------------------------------------------------------
(* The functors that are left, as a sequence.                              *)

LEMMA RestType ==
  ASSUME NEW S, NEW b \in Seq(S), NEW q \in Seq(S), NEW d \in 0..Len(b)
  PROVE  /\ Rest(b, d, q) \in Seq(S)
         /\ Len(Rest(b, d, q)) = (Len(b) - d) + Len(q)
BY DEF Rest

LEMMA RestAppend ==
  ASSUME NEW S, NEW b \in Seq(S), NEW q \in Seq(S), NEW d \in 0..Len(b),
         NEW f \in S
  PROVE  Rest(b, d, Append(q, f)) = Append(Rest(b, d, q), f)
<1> DEFINE m == Len(b) - d
           old == Rest(b, d, q)
           new == Rest(b, d, Append(q, f))
<1>1. /\ m \in Nat /\ Len(q) \in Nat
      /\ Append(q, f) \in Seq(S) /\ Len(Append(q, f)) = Len(q) + 1
  OBVIOUS
<1>2. old \in Seq(S) /\ Len(old) = m + Len(q)
  BY RestType
<1>3. new \in Seq(S) /\ Len(new) = m + (Len(q) + 1)
  BY <1>1, RestType
<1>4. Append(old, f) \in Seq(S) /\ Len(Append(old, f)) = m + (Len(q) + 1)
  <2> HIDE DEF old, m
  <2> QED
    BY <1>1, <1>2
<1>5. ASSUME NEW i \in 1..(m + (Len(q) + 1))
      PROVE  new[i] = Append(old, f)[i]
  <2>1. new[i] = IF i <= m THEN b[d + i] ELSE Append(q, f)[i - m]
    BY <1>1 DEF Rest
  <2>2. i <= m + Len(q) => old[i] = IF i <= m THEN b[d + i] ELSE q[i - m]
    BY <1>1 DEF Rest
  <2>3. Append(old, f)[i] = IF i <= m + Len(q) THEN old[i] ELSE f
    <3> HIDE DEF old, m
    <3> QED
      BY <1>1, <1>2
  <2>4. i - m \in 1..(Len(q) + 1) =>
          Append(q, f)[i - m] = IF i - m <= Len(q) THEN q[i - m] ELSE f
    BY <1>1
  <2> HIDE DEF old, new, m
  <2> QED
    BY <1>1, <2>1, <2>2, <2>3, <2>4
<1> HIDE DEF old, new, m
<1> QED
  BY <1>3, <1>4, <1>5, SeqEqual DEF old, new

LEMMA RestTail ==
  ASSUME NEW S, NEW b \in Seq(S), NEW q \in Seq(S), NEW d \in 0..Len(b),
         d < Len(b)
  PROVE  /\ Rest(b, d, q) # <<>>
         /\ Rest(b, d, q)[1] = b[d + 1]
         /\ Rest(b, d + 1, q) = Tail(Rest(b, d, q))
<1> DEFINE n == (Len(b) - d) + Len(q)
           old == Rest(b, d, q)
           new == Rest(b, d + 1, q)
<1>1. Len(b) - d \in Nat \ {0} /\ Len(q) \in Nat /\ n \in Nat \ {0}
  OBVIOUS
<1>2. old \in Seq(S) /\ Len(old) = n
  BY RestType
<1>3. new \in Seq(S) /\ Len(new) = n - 1
  <2>1. d + 1 \in 0..Len(b) /\ (Len(b) - (d + 1)) + Len(q) = n - 1
    OBVIOUS
  <2>2. new \in Seq(S) /\ Len(new) = (Len(b) - (d + 1)) + Len(q)
    <3> DEFINE e == d + 1
    <3> HIDE DEF e
    <3>1. Rest(b, e, q) \in Seq(S) /\ Len(Rest(b, e, q)) = (Len(b) - e) + Len(q)
      BY <2>1, RestType DEF e
    <3> QED
      BY <3>1 DEF e
  <2> HIDE DEF new, n
  <2> QED
    BY <2>1, <2>2
<1>4. old # <<>> /\ old[1] = b[d + 1]
  <2>1. old[1] = b[d + 1]
    BY <1>1 DEF Rest
  <2> HIDE DEF old, n
  <2> QED
    BY <1>1, <1>2, <2>1
<1>5. Tail(old) \in Seq(S) /\ Len(Tail(old)) = n - 1
  <2> HIDE DEF old, n
  <2> QED
    BY <1>1, <1>2, <1>4
<1>6. ASSUME NEW i \in 1..(n - 1)
      PROVE  new[i] = Tail(old)[i]
  <2>1. new[i] = IF i <= Len(b) - (d + 1) THEN b[(d + 1) + i]
                 ELSE q[i - (Len(b) - (d + 1))]
    BY <1>1 DEF Rest
  <2>2. old[i + 1] = IF i + 1 <= Len(b) - d THEN b[d + (i + 1)]
                     ELSE q[(i + 1) - (Len(b) - d)]
    BY <1>1 DEF Rest
  <2>3. Tail(old)[i] = old[i + 1]
    <3> HIDE DEF old, n
    <3> QED
      BY <1>1, <1>2, <1>4
  <2>4. /\ (d + 1) + i = d + (i + 1)
        /\ i - (Len(b) - (d + 1)) = (i + 1) - (Len(b) - d)
        /\ i <= Len(b) - (d + 1) <=> i + 1 <= Len(b) - d
    BY <1>1
  <2> HIDE DEF old, new, n
  <2> QED
    BY <2>1, <2>2, <2>3, <2>4
<1>7. new = Tail(old)
  <2> HIDE DEF old, new, n
  <2> QED
    BY <1>3, <1>5, <1>6, SeqEqual
<1> QED
  BY <1>4, <1>7

LEMMA RestOfQueue ==
  ASSUME NEW S, NEW b \in Seq(S), NEW q \in Seq(S)
  PROVE  Rest(b, Len(b), q) = q /\ Rest(<<>>, 0, q) = q /\ Rest(b, 0, <<>>) = b
<1>1. /\ Rest(b, Len(b), q) = [i \in 1..Len(q) |-> q[i]]
      /\ Rest(<<>>, 0, q) = [i \in 1..Len(q) |-> q[i]]
  BY DEF Rest
<1>2. Rest(b, 0, <<>>) = [i \in 1..Len(b) |-> b[i]]
  BY DEF Rest
<1> QED
  BY <1>1, <1>2

-----------------------------------------------------------------------------
(* The lowest free descriptor.                                             *)

LEMMA LowestExists ==
  ASSUME NEW n \in Nat, NEW F \in SUBSET (1..n), F # {}
  PROVE  \E m \in F : \A k \in F : m <= k
<1> DEFINE R == StrictSubsetOrdering(1..n)
           T == {1..k : k \in F}
<1>1. IsWellFoundedOn(R, SUBSET (1..n))
  BY FS_Interval, FS_StrictSubsetOrderingWellFounded,
     FS_FiniteSubsetsOfFinite, 1 \in Int, n \in Int
<1>2. T \subseteq SUBSET (1..n) /\ T # {}
  <2>1. \A k \in F : 1..k \in SUBSET (1..n)
    OBVIOUS
  <2> QED
    BY <2>1
<1>3. PICK t \in T : \A u \in T : <<u, t>> \notin R
  <2> HIDE DEF R, T
  <2> QED
    BY <1>1, <1>2, WFMin
<1>4. PICK m \in F : t = 1..m
  OBVIOUS
<1>5. ASSUME NEW k \in F, ~(m <= k)
      PROVE  FALSE
  <2>1. (1..k) \subseteq (1..m) /\ m \in 1..m /\ m \notin 1..k
    BY <1>5
  <2>2. <<1..k, t>> \in R
    BY <1>4, <2>1, 1..k \in SUBSET (1..n), 1..m \in SUBSET (1..n)
       DEF StrictSubsetOrdering
  <2> QED
    BY <1>3, <2>2
<1> QED
  BY <1>5

\* A client that has not come finds a descriptor that no connection has.
LEMMA LowestFreeIsFree ==
  ASSUME TypeOK, NEW c \in Conns, owner[c] = None
  PROVE  /\ LowestFree \in Fds
         /\ \A d \in Refs : owner[d] # None => fd[d] # LowestFree
<1> DEFINE N == Cardinality(Conns)
           Open == {d \in Conns : owner[d] # None /\ Referenced(d)}
           open == {fd[d] : d \in Open}
<1>1. /\ IsFiniteSet(Conns \ {c}) /\ Cardinality(Conns \ {c}) = N - 1
      /\ N \in Nat \ {0}
  BY NoneAssumption, FS_RemoveElement, FS_CardinalityType, FS_EmptySet
<1>2. IsFiniteSet(Fds) /\ Cardinality(Fds) = N
  BY <1>1, FS_Interval, 1 \in Int, N \in Int DEF Fds
<1>3. Fds \ open # {}
  <2> SUFFICES ASSUME Fds \subseteq open PROVE FALSE
    OBVIOUS
  <2>1. \A n \in Fds : \E d \in Conns \ {c} : fd[d] = n
    OBVIOUS
  <2> DEFINE g == [n \in Fds |-> CHOOSE d \in Conns \ {c} : fd[d] = n]
  <2>2. g \in [Fds -> Conns \ {c}] /\ \A n \in Fds : fd[g[n]] = n
    BY <2>1
  <2>3. \E x, y \in Fds : x # y /\ g[x] = g[y]
    <3> HIDE DEF g
    <3> QED
      BY <1>1, <1>2, <2>2, FS_PigeonHole
  <2> QED
    BY <2>2, <2>3
<1>4. \E n \in Fds \ open : \A k \in Fds \ open : n <= k
  BY <1>1, <1>3, LowestExists DEF Fds
<1>5. LowestFree \in Fds \ open
  BY <1>4 DEF LowestFree
<1> QED
  BY <1>5 DEF Refs

-----------------------------------------------------------------------------
(* What the invariant says of the functors and of the references.          *)

LEMMA TodoType ==
  ASSUME TypeOK
  PROVE  Todo \in [Reactors -> Seq(Functors)]
<1> SUFFICES ASSUME NEW r \in Reactors
             PROVE  Rest(batch[r], done[r], queue[r]) \in Seq(Functors)
  BY DEF Todo
<1> QED
  BY RestType DEF TypeOK

\* A functor that is left keeps its connection.
LEMMA TodoKeeps ==
  ASSUME TypeOK, NEW r \in Reactors, NEW i \in 1..Len(Todo[r])
  PROVE  Todo[r][i].conn \in Refs
<1> DEFINE b == batch[r]
           q == queue[r]
           n == Len(b) - done[r]
<1>1. b \in Seq(Functors) /\ q \in Seq(Functors) /\ done[r] \in 0..Len(b)
  BY DEF TypeOK
<1>2. Todo[r] = Rest(b, done[r], q) /\ Len(Todo[r]) = n + Len(q)
  BY <1>1, RestType DEF Todo
<1>3. Todo[r][i] = IF i <= n THEN b[done[r] + i] ELSE q[i - n]
  BY <1>1, <1>2 DEF Rest
<1>4. Todo[r][i] \in Range(q) \cup Range(b)
  <2>1. CASE i <= n
    BY <1>1, <1>2, <1>3, <2>1, done[r] + i \in DOMAIN b DEF Range
  <2>2. CASE ~(i <= n)
    BY <1>1, <1>2, <1>3, <2>2, i - n \in DOMAIN q DEF Range
  <2> QED
    BY <2>1, <2>2
<1>5. Todo[r][i].conn \in Conns
  <2>1. Todo[r] \in Seq(Functors)
    BY TodoType
  <2>2. Todo[r][i] \in Functors
    BY <2>1
  <2> QED
    BY <2>2 DEF Functors
<1> QED
  BY <1>4, <1>5 DEF Refs, Referenced

\* The functor that is executed next is the first of those that are left.
LEMMA ExecutesFirst ==
  ASSUME TypeOK, NEW r \in Reactors, NEW op, NEW c, Executes(r, op, c)
  PROVE  /\ Todo[r] \in Seq(Functors) /\ 1 \in 1..Len(Todo[r])
         /\ Todo[r][1] = Functor(op, c)
<1>1. /\ batch[r] \in Seq(Functors) /\ queue[r] \in Seq(Functors)
      /\ done[r] \in 0..Len(batch[r]) /\ done[r] < Len(batch[r])
      /\ batch[r][done[r] + 1] = Functor(op, c)
  BY DEF TypeOK, Executes
<1>2. /\ Rest(batch[r], done[r], queue[r]) # <<>>
      /\ Rest(batch[r], done[r], queue[r])[1] = batch[r][done[r] + 1]
  BY <1>1, RestTail
<1>3. Todo[r] # <<>> /\ Todo[r][1] = Functor(op, c)
  BY <1>1, <1>2 DEF Todo
<1>4. Todo[r] \in Seq(Functors)
  BY TodoType
<1> QED
  BY <1>3, <1>4

\* A connection whose reactor runs is not deleted while it is registered.
LEMMA RegisteredKept ==
  ASSUME TypeOK, Unseen, Kept, NEW c \in Conns, registered[c] # "kNew",
         phase[owner[c]] # "exited"
  PROVE  c \in Refs
<1>1. owner[c] \in Reactors
  BY DEF TypeOK, Unseen
<1>2. CASE c \in connMap
  BY <1>2 DEF Refs, Referenced
<1>3. CASE Due("connectDestroyed", c)
  BY <1>1, <1>3, TodoKeeps DEF Due, Functor
<1> QED
  BY <1>1, <1>2, <1>3, NoneAssumption DEF Kept, Unseen

-----------------------------------------------------------------------------
(* What the steps do to Todo and Refs.                                     *)

LEMMA PostTodo ==
  ASSUME TypeOK, NEW r \in Reactors, NEW op, NEW c,
         Functor(op, c) \in Functors, Post(r, op, c), UNCHANGED <<batch, done>>
  PROVE  Todo' = [Todo EXCEPT ![r] = Append(@, Functor(op, c))]
<1>1. \A s \in Reactors :
        /\ batch[s] \in Seq(Functors) /\ queue[s] \in Seq(Functors)
        /\ done[s] \in 0..Len(batch[s])
  BY DEF TypeOK
<1>2. Rest(batch[r], done[r], Append(queue[r], Functor(op, c)))
        = Append(Rest(batch[r], done[r], queue[r]), Functor(op, c))
  <2> DEFINE f == Functor(op, c)
  <2>1. f \in Functors
    OBVIOUS
  <2> HIDE DEF f
  <2>2. Rest(batch[r], done[r], Append(queue[r], f))
          = Append(Rest(batch[r], done[r], queue[r]), f)
    BY <1>1, <2>1, RestAppend
  <2> QED
    BY <2>2 DEF f
<1>3. queue' = [queue EXCEPT ![r] = Append(@, Functor(op, c))]
  BY DEF Post
<1>4. queue \in [Reactors -> Seq(Functors)]
  BY DEF TypeOK
<1>5. ASSUME NEW s \in Reactors
      PROVE  Rest(batch[s], done[s], queue'[s]) =
               [Todo EXCEPT ![r] = Append(@, Functor(op, c))][s]
  <2>1. CASE s = r
    BY <1>2, <1>3, <1>4, <2>1 DEF Todo
  <2>2. CASE s # r
    BY <1>3, <1>4, <2>2 DEF Todo
  <2> QED
    BY <2>1, <2>2
<1> QED
  BY <1>5 DEF Todo

\* A step that only appends a functor keeps no other connection.
LEMMA PostRefs ==
  ASSUME TypeOK, NEW r \in Reactors, NEW op, NEW c \in Conns,
         Functor(op, c) \in Functors, Post(r, op, c), UNCHANGED batch,
         connMap' \subseteq connMap \cup {c}
  PROVE  Refs' \subseteq Refs \cup {c}
<1> SUFFICES ASSUME NEW d \in Conns, d # c, Referenced(d)'
             PROVE  Referenced(d)
  BY DEF Refs
<1>1. CASE d \in connMap'
  BY <1>1 DEF Referenced
<1>2. ASSUME NEW s \in Reactors,
             NEW f \in Range(queue'[s]) \cup Range(batch'[s]), f.conn = d
      PROVE  f \in Range(queue[s]) \cup Range(batch[s])
  <2>1. CASE f \in Range(batch'[s])
    BY <2>1
  <2>2. CASE f \in Range(queue'[s])
    <3> DEFINE q == queue[s]
               g == Functor(op, c)
    <3>1. g.conn = c
      BY DEF Functor
    <3>2. q \in Seq(Functors) /\ queue'[s] \in {q, Append(q, g)}
      BY DEF TypeOK, Post
    <3>3. g \in Functors
      OBVIOUS
    <3> HIDE DEF g, q
    <3>4. Range(queue'[s]) \subseteq Range(q) \cup {g}
      BY <3>2, <3>3 DEF Range
    <3> QED
      BY <1>2, <2>2, <3>1, <3>4 DEF q
  <2> QED
    BY <1>2, <2>1, <2>2
<1> QED
  BY <1>1, <1>2 DEF Referenced

\* A functor is executed: it is the first of those that are left.
LEMMA RunTodo ==
  ASSUME TypeOK, NEW r \in Reactors, done[r] < Len(batch[r]),
         done' = [done EXCEPT ![r] = @ + 1], UNCHANGED batch
  PROVE  /\ Todo[r] # <<>> /\ Todo[r][1] = batch[r][done[r] + 1]
         /\ UNCHANGED queue => Todo' = [Todo EXCEPT ![r] = Tail(@)]
         /\ \A s \in Reactors : \A op, c :
              Functor(op, c) \in Functors /\ Post(s, op, c) =>
                Todo' = [[Todo EXCEPT ![r] = Tail(@)]
                           EXCEPT ![s] = Append(@, Functor(op, c))]
<1>1. \A s \in Reactors :
        /\ batch[s] \in Seq(Functors) /\ queue[s] \in Seq(Functors)
        /\ done[s] \in 0..Len(batch[s])
  BY DEF TypeOK
<1>2. /\ Rest(batch[r], done[r], queue[r]) # <<>>
      /\ Rest(batch[r], done[r], queue[r])[1] = batch[r][done[r] + 1]
      /\ Rest(batch[r], done[r] + 1, queue[r])
           = Tail(Rest(batch[r], done[r], queue[r]))
  BY <1>1, RestTail
<1>3. /\ queue \in [Reactors -> Seq(Functors)]
      /\ done \in [Reactors -> Nat]
  BY DEF TypeOK
<1>4. Todo[r] # <<>> /\ Todo[r][1] = batch[r][done[r] + 1]
  BY <1>2 DEF Todo
<1>5. ASSUME UNCHANGED queue
      PROVE  Todo' = [Todo EXCEPT ![r] = Tail(@)]
  <2>1. ASSUME NEW s \in Reactors
        PROVE  Rest(batch'[s], done'[s], queue'[s]) =
                 [Todo EXCEPT ![r] = Tail(@)][s]
    <3>1. CASE s = r
      BY <1>2, <1>3, <1>5, <3>1 DEF Todo
    <3>2. CASE s # r
      BY <1>3, <1>5, <3>2 DEF Todo
    <3> QED
      BY <3>1, <3>2
  <2> QED
    BY <2>1 DEF Todo
<1>6. ASSUME NEW s \in Reactors, NEW op, NEW c,
             Functor(op, c) \in Functors, Post(s, op, c)
      PROVE  Todo' = [[Todo EXCEPT ![r] = Tail(@)]
                        EXCEPT ![s] = Append(@, Functor(op, c))]
  <2>1. /\ done[r] + 1 \in 0..Len(batch[r])
        /\ done' \in [Reactors -> Nat]
        /\ \A t \in Reactors : done'[t] \in 0..Len(batch[t])
    BY <1>1, <1>3
  <2>2. Rest(batch[s], done'[s], Append(queue[s], Functor(op, c)))
          = Append(Rest(batch[s], done'[s], queue[s]), Functor(op, c))
    <3> DEFINE f == Functor(op, c)
    <3>1. f \in Functors
      BY <1>6
    <3> HIDE DEF f
    <3>2. Rest(batch[s], done'[s], Append(queue[s], f))
            = Append(Rest(batch[s], done'[s], queue[s]), f)
      BY <1>1, <2>1, <3>1, RestAppend
    <3> QED
      BY <3>2 DEF f
  <2>3. queue' = [queue EXCEPT ![s] = Append(@, Functor(op, c))]
    BY <1>6 DEF Post
  <2>4. ASSUME NEW t \in Reactors
        PROVE  Rest(batch'[t], done'[t], queue'[t]) =
                 [[Todo EXCEPT ![r] = Tail(@)]
                    EXCEPT ![s] = Append(@, Functor(op, c))][t]
    <3>1. Rest(batch[t], done'[t], queue[t]) = [Todo EXCEPT ![r] = Tail(@)][t]
      <4>1. CASE t = r
        BY <1>2, <1>3, <4>1 DEF Todo
      <4>2. CASE t # r
        BY <1>3, <4>2 DEF Todo
      <4> QED
        BY <4>1, <4>2
    <3>2. CASE t = s
      BY <1>3, <2>2, <2>3, <3>1, <3>2 DEF Todo
    <3>3. CASE t # s
      BY <1>3, <2>3, <3>1, <3>3 DEF Todo
    <3> QED
      BY <3>2, <3>3
  <2> QED
    BY <2>4 DEF Todo
<1> QED
  BY <1>4, <1>5, <1>6

-----------------------------------------------------------------------------
(* The steps that leave the connections alone.                             *)

LEMMA Quiet ==
  ASSUME Inv,
         UNCHANGED <<connMap, owner, fd, registered, eventMap, state, newCalls,
                     finCalls>>,
         \A r \in Reactors :
           \/ Todo'[r] = Todo[r]
           \/ Todo'[r] = <<>> /\ phase'[r] = "exited",
         Refs' \subseteq Refs,
         \A r \in Reactors : phase[r] = "exited" => phase'[r] = "exited",
         server' = "started" => server = "started"
  PROVE  /\ Unseen' /\ Calls' /\ Homes' /\ Kept' /\ Removals' /\ Descriptors'
         /\ Found'
<1> USE DEF Inv
<1>1. Unseen'
  BY DEF Unseen
<1>2. Calls'
  BY DEF Calls
<1>3. Homes'
  BY DEF Homes
<1>4. Kept'
  <2> SUFFICES ASSUME NEW c \in Conns, owner[c] # None,
                      phase'[owner[c]] # "exited"
               PROVE  /\ newCalls[c] = 0 => Due("connectEstablished", c)'
                      /\ newCalls[c] = 0 \/ registered[c] # "kNew" =>
                           c \in connMap \/ Due("connectDestroyed", c)'
    BY DEF Kept
  <2>1. owner[c] \in Reactors
    BY DEF TypeOK
  <2>2. Todo'[owner[c]] = Todo[owner[c]] /\ phase[owner[c]] # "exited"
    BY <2>1
  <2>3. ASSUME NEW op
        PROVE  Due(op, c)' <=> Due(op, c)
    BY <2>2 DEF Due
  <2> QED
    BY <2>2, <2>3 DEF Kept
<1>5. Removals'
  BY Main \in Reactors DEF Removals, Reactors
<1>6. Descriptors'
  BY DEF Descriptors
<1>7. Found'
  BY DEF Found
<1> QED
  BY <1>1, <1>2, <1>3, <1>4, <1>5, <1>6, <1>7

\* The rest of the invariant in such steps.
LEMMA StillTodo ==
  ASSUME UNCHANGED <<queue, batch, done, connMap>>
  PROVE  Todo' = Todo /\ Refs' = Refs
BY DEF Todo, Refs, Referenced

\* The steps that change no functor and no reference.
LEMMA LightSteps ==
  ASSUME Inv,
         \/ \E c \in Conns : PeerCloses(c)
         \/ \E r \in Reactors : Demultiplex(r) \/ EventHandled(r)
         \/ AcceptFails \/ StopMain \/ DtorBegin \/ DtorStopSub
         \/ DtorJoinSub \/ DtorEnd
         \/ UNCHANGED vars
  PROVE  Inv'
<1> USE DEF Inv
<1> DEFINE Light ==
      /\ UNCHANGED <<queue, batch, done, connMap>>
      /\ UNCHANGED <<owner, fd, registered, eventMap, state, newCalls,
                     finCalls>>
      /\ \A r \in Reactors : phase[r] = "exited" <=> phase'[r] = "exited"
      /\ server' = "started" => server = "started"
<1>1. ASSUME Light, TypeOK', Phases', Handled', Joined'
      PROVE  Inv'
  BY <1>1, StillTodo, Quiet
<1>2. CASE \E c \in Conns : PeerCloses(c)
  <2> PICK c \in Conns : PeerCloses(c)
    BY <1>2
  <2> USE DEF PeerCloses, serverVars, loopVars, eventVars
  <2>1. Light
    OBVIOUS
  <2>2. TypeOK'
    BY DEF TypeOK
  <2>3. Phases' /\ Handled' /\ Joined'
    BY DEF Phases, Handled, Joined
  <2> QED
    BY <1>1, <2>1, <2>2, <2>3
<1>3. ASSUME NEW r \in Reactors, Demultiplex(r)
      PROVE  Inv'
  <2> USE <1>3 DEF Demultiplex, serverVars, connVars, eventVars, Goto
  <2>0. /\ phase = [s \in Reactors |-> phase[s]]
        /\ active = [s \in Reactors |-> active[s]]
    BY DEF TypeOK
  <2>1. Light
    BY <2>0
  <2>2. Ready(r) \subseteq Conns \cup {Listen}
    BY DEF Ready
  <2>3. TypeOK'
    BY <2>2 DEF TypeOK
  <2>4. Phases'
    BY <2>0 DEF Phases
  <2>5. Handled'
    BY <2>0, NoneAssumption DEF Handled, Ready
  <2>6. Joined'
    BY <2>1 DEF Joined, TypeOK
  <2> QED
    BY <1>1, <2>1, <2>3, <2>4, <2>5, <2>6
<1>4. ASSUME NEW r \in Reactors, EventHandled(r)
      PROVE  Inv'
  <2> USE <1>4 DEF EventHandled, serverVars, connVars, eventVars, Goto
  <2>0. /\ phase = [s \in Reactors |-> phase[s]]
        /\ active = [s \in Reactors |-> active[s]]
    BY DEF TypeOK
  <2>1. Light
    BY <2>0
  <2>3. TypeOK'
    BY DEF TypeOK
  <2>4. Phases'
    BY <2>0 DEF Phases
  <2>5. Handled'
    BY <2>0 DEF Handled, TypeOK
  <2>6. Joined'
    BY <2>1 DEF Joined, TypeOK
  <2> QED
    BY <1>1, <2>1, <2>3, <2>4, <2>5, <2>6
<1>5. CASE AcceptFails
  <2> USE <1>5 DEF AcceptFails, serverVars, connVars, eventVars
  <2>1. Light
    OBVIOUS
  <2>2. Main \in Reactors
    BY DEF Reactors
  <2>3. TypeOK'
    BY DEF TypeOK
  <2>4. Phases'
    BY DEF Phases, TypeOK
  <2>5. Handled'
    BY DEF Handled, TypeOK
  <2>6. Joined'
    BY DEF Joined
  <2> QED
    BY <1>1, <2>1, <2>3, <2>4, <2>5, <2>6
<1>6. CASE StopMain
  <2> USE <1>6 DEF StopMain, serverVars, connVars, eventVars
  <2>1. Light
    OBVIOUS
  <2>2. TypeOK'
    BY DEF TypeOK
  <2>3. Phases' /\ Handled' /\ Joined'
    BY DEF Phases, Handled, Joined
  <2> QED
    BY <1>1, <2>1, <2>2, <2>3
<1>7. CASE DtorBegin
  <2> USE <1>7 DEF DtorBegin, loopVars, connVars, eventVars
  <2>1. Light
    OBVIOUS
  <2>2. TypeOK'
    BY DEF TypeOK
  <2>3. Phases' /\ Handled' /\ Joined'
    BY DEF Phases, Handled, Joined
  <2> QED
    BY <1>1, <2>1, <2>2, <2>3
<1>8. CASE DtorStopSub
  <2> USE <1>8 DEF DtorStopSub, serverVars, connVars, eventVars
  <2>1. Light
    OBVIOUS
  <2>2. TypeOK'
    BY DEF TypeOK
  <2>3. Phases' /\ Handled' /\ Joined'
    BY DEF Phases, Handled, Joined
  <2> QED
    BY <1>1, <2>1, <2>2, <2>3
<1>9. CASE DtorJoinSub
  <2> USE <1>9 DEF DtorJoinSub, loopVars, connVars, eventVars
  <2>1. Light
    OBVIOUS
  <2>2. TypeOK'
    BY DEF TypeOK
  <2>3. Phases' /\ Handled'
    BY DEF Phases, Handled
  <2>4. Joined'
    BY DEF Joined, TypeOK
  <2> QED
    BY <1>1, <2>1, <2>2, <2>3, <2>4
<1>10. CASE DtorEnd
  <2> USE <1>10 DEF DtorEnd, loopVars, connVars, eventVars
  <2>1. Light
    OBVIOUS
  <2>2. TypeOK'
    BY DEF TypeOK
  <2>3. Phases' /\ Handled' /\ Joined'
    BY DEF Phases, Handled, Joined
  <2> QED
    BY <1>1, <2>1, <2>2, <2>3
<1>11. CASE UNCHANGED vars
  <2> USE <1>11 DEF vars, serverVars, loopVars, connVars, eventVars
  <2>1. Light
    OBVIOUS
  <2>2. TypeOK'
    BY DEF TypeOK
  <2>3. Phases' /\ Handled' /\ Joined'
    BY DEF Phases, Handled, Joined
  <2> QED
    BY <1>1, <2>1, <2>2, <2>3
<1> QED
  BY <1>2, <1>3, <1>4, <1>5, <1>6, <1>7, <1>8, <1>9, <1>10, <1>11

\* The steps that move functors.
LEMMA MovedTodo ==
  ASSUME TypeOK, Phases, NEW r \in Reactors,
         SwapPending(r) \/ BatchDone(r) \/ DispatchReturns(r)
  PROVE  /\ UNCHANGED <<connMap, owner, fd, registered, eventMap, state,
                        newCalls, finCalls, server, pool, joined, left>>
         /\ \A s \in Reactors :
              \/ Todo'[s] = Todo[s]
              \/ Todo'[s] = <<>> /\ phase'[s] = "exited"
         /\ \A s \in Reactors :
              Range(queue'[s]) \cup Range(batch'[s])
                \subseteq Range(queue[s]) \cup Range(batch[s])
         /\ \A s \in Reactors : phase[s] = "exited" => phase'[s] = "exited"
<1>1. /\ queue \in [Reactors -> Seq(Functors)]
      /\ batch \in [Reactors -> Seq(Functors)]
      /\ done \in [Reactors -> Nat]
      /\ phase = [s \in Reactors |-> phase[s]]
  BY DEF TypeOK
<1>2. Range(<<>>) = {}
  BY DEF Range
<1>3. CASE SwapPending(r)
  <2> USE <1>3 DEF SwapPending, serverVars, connVars, eventVars, Goto
  <2>1. batch[r] = <<>> /\ done[r] = 0
    BY DEF Phases
  <2>2. Rest(batch'[r], done'[r], queue'[r]) = Rest(batch[r], done[r], queue[r])
    BY <1>1, <2>1, RestOfQueue
  <2> QED
    BY <1>1, <1>2, <2>1, <2>2 DEF Todo
<1>4. CASE BatchDone(r)
  <2> USE <1>4 DEF BatchDone, serverVars, connVars, eventVars, Goto
  <2>1. Rest(batch'[r], done'[r], queue'[r]) = Rest(batch[r], done[r], queue[r])
    BY <1>1, RestOfQueue
  <2> QED
    BY <1>1, <1>2, <2>1 DEF Todo
<1>5. CASE DispatchReturns(r)
  <2> USE <1>5 DEF DispatchReturns, serverVars, connVars, eventVars, Goto
  <2>1. batch[r] = <<>> /\ done[r] = 0
    BY DEF Phases
  <2>2. queue'[r] \in {queue[r], <<>>}
    BY <1>1
  <2>3. Todo'[r] = Todo[r] \/ Todo'[r] = <<>>
    BY <1>1, <2>1, <2>2, RestOfQueue DEF Todo
  <2> QED
    BY <1>1, <1>2, <2>1, <2>2, <2>3 DEF Todo
<1> QED
  BY <1>3, <1>4, <1>5

LEMMA MovingSteps ==
  ASSUME Inv, NEW r \in Reactors,
         SwapPending(r) \/ BatchDone(r) \/ DispatchReturns(r)
  PROVE  Inv'
<1> USE DEF Inv
<1>1. /\ UNCHANGED <<connMap, owner, fd, registered, eventMap, state, newCalls,
                     finCalls, server, pool, joined, left>>
      /\ \A s \in Reactors :
           \/ Todo'[s] = Todo[s]
           \/ Todo'[s] = <<>> /\ phase'[s] = "exited"
      /\ \A s \in Reactors :
           Range(queue'[s]) \cup Range(batch'[s])
             \subseteq Range(queue[s]) \cup Range(batch[s])
      /\ \A s \in Reactors : phase[s] = "exited" => phase'[s] = "exited"
  BY MovedTodo
<1>2. phase = [s \in Reactors |-> phase[s]]
  BY DEF TypeOK
<1>3. TypeOK' /\ Phases' /\ Handled'
  <2>1. CASE SwapPending(r)
    <3> USE <2>1 DEF SwapPending, serverVars, connVars, eventVars, Goto
    <3>1. batch[r] = <<>> /\ done[r] = 0 /\ active[r] = {}
      BY DEF Phases
    <3>2. TypeOK'
      BY <3>1 DEF TypeOK
    <3> QED
      BY <1>2, <3>1, <3>2 DEF Phases, Handled
  <2>2. CASE BatchDone(r)
    <3> USE <2>2 DEF BatchDone, serverVars, connVars, eventVars, Goto
    <3>1. active[r] = {}
      BY DEF Phases
    <3>2. TypeOK'
      BY <3>1 DEF TypeOK
    <3>3. batch'[r] = <<>> /\ done'[r] = 0
      BY DEF TypeOK
    <3>4. Phases'
      BY <1>2, <3>1, <3>3 DEF Phases, TypeOK
    <3>5. Handled'
      BY <1>2, <3>1 DEF Handled
    <3> QED
      BY <3>2, <3>4, <3>5
  <2>3. CASE DispatchReturns(r)
    <3> USE <2>3 DEF DispatchReturns, serverVars, connVars, eventVars, Goto
    <3>1. batch[r] = <<>> /\ done[r] = 0 /\ active[r] = {}
      BY DEF Phases
    <3>2. TypeOK'
      BY <3>1 DEF TypeOK
    <3> QED
      BY <1>2, <3>1, <3>2 DEF Phases, Handled
  <2> QED
    BY <2>1, <2>2, <2>3
<1>4. Refs' \subseteq Refs
  BY <1>1 DEF Refs, Referenced
<1>5. Joined'
  <2>1. \A i \in 1..joined : pool[i] \in Reactors
    BY DEF TypeOK, Reactors
  <2>2. Main \in Reactors
    BY DEF Reactors
  <2> QED
    BY <1>1, <2>1, <2>2 DEF Joined
<1> QED
  BY <1>1, <1>3, <1>4, <1>5, Quiet

-----------------------------------------------------------------------------
(* A functor more, and a functor less.                                     *)

LEMMA OneMore ==
  ASSUME NEW T \in [Reactors -> Seq(Functors)], NEW r \in Reactors,
         NEW f \in Functors, NEW U, U = [T EXCEPT ![r] = Append(@, f)]
  PROVE  /\ U \in [Reactors -> Seq(Functors)]
         /\ Len(U[r]) = Len(T[r]) + 1 /\ U[r][Len(T[r]) + 1] = f
         /\ \A i \in 1..Len(T[r]) : U[r][i] = T[r][i]
         /\ \A s \in Reactors : s # r => U[s] = T[s]
OBVIOUS

LEMMA OneLess ==
  ASSUME NEW T \in [Reactors -> Seq(Functors)], NEW r \in Reactors,
         T[r] # <<>>, NEW U, U = [T EXCEPT ![r] = Tail(@)]
  PROVE  /\ U \in [Reactors -> Seq(Functors)]
         /\ Len(T[r]) \in Nat \ {0} /\ Len(U[r]) = Len(T[r]) - 1
         /\ \A i \in 1..(Len(T[r]) - 1) : U[r][i] = T[r][i + 1]
         /\ \A s \in Reactors : s # r => U[s] = T[s]
OBVIOUS

\* The reactor of an accepted connection.
LEMMA OwnerType ==
  ASSUME Inv, NEW c \in Refs
  PROVE  c \in Conns /\ owner[c] # None /\ owner[c] \in Reactors
BY DEF Inv, TypeOK, Unseen, Refs

\* A functor that is posted to a connection's reactor, or to the main one, and
\* establishes nothing.
LEMMA PostedHomes ==
  ASSUME Inv, NEW r \in Reactors, NEW f \in Functors,
         Todo' = [Todo EXCEPT ![r] = Append(@, f)],
         \/ f.op = "removeConnection" /\ r = Main
         \/ f.op = "connectDestroyed" /\ r = owner[f.conn],
         UNCHANGED <<owner, newCalls>>
  PROVE  Homes'
<1>1. Todo \in [Reactors -> Seq(Functors)]
  BY TodoType DEF Inv
<1>2. /\ Todo' \in [Reactors -> Seq(Functors)]
      /\ Len(Todo'[r]) = Len(Todo[r]) + 1 /\ Todo'[r][Len(Todo[r]) + 1] = f
      /\ \A i \in 1..Len(Todo[r]) : Todo'[r][i] = Todo[r][i]
      /\ \A s \in Reactors : s # r => Todo'[s] = Todo[s]
  BY <1>1, OneMore
<1> SUFFICES ASSUME NEW s \in Reactors, NEW i \in 1..Len(Todo'[s])
             PROVE  /\ Todo'[s][i].op = "removeConnection" => s = Main
                    /\ Todo'[s][i].op # "removeConnection" =>
                         owner[Todo'[s][i].conn] = s
                    /\ Todo'[s][i].op = "connectEstablished" =>
                         /\ newCalls[Todo'[s][i].conn] = 0
                         /\ \A j \in 1..(i - 1) :
                              Todo'[s][j].conn # Todo'[s][i].conn
  BY DEF Homes
<1>3. CASE s # r
  BY <1>2, <1>3 DEF Homes, Inv
<1>4. CASE s = r /\ i = Len(Todo[r]) + 1
  BY <1>2, <1>4
<1>5. CASE s = r /\ i \in 1..Len(Todo[r])
  <2>1. \A j \in 1..(i - 1) : Todo'[s][j] = Todo[s][j]
    BY <1>1, <1>2, <1>5
  <2> QED
    BY <1>2, <1>5, <2>1 DEF Homes, Inv
<1> QED
  BY <1>1, <1>2, <1>3, <1>4, <1>5

\* What is due stays due.
LEMMA PostedDue ==
  ASSUME Inv, NEW r \in Reactors, NEW f \in Functors,
         Todo' = [Todo EXCEPT ![r] = Append(@, f)],
         UNCHANGED owner
  PROVE  \A c \in Conns : owner[c] \in Reactors => \A op :
           /\ Due(op, c) => Due(op, c)'
           /\ r = owner[c] /\ f = Functor(op, c) => Due(op, c)'
<1>1. Todo \in [Reactors -> Seq(Functors)]
  BY TodoType DEF Inv
<1>2. /\ Todo' \in [Reactors -> Seq(Functors)]
      /\ Len(Todo'[r]) = Len(Todo[r]) + 1 /\ Todo'[r][Len(Todo[r]) + 1] = f
      /\ \A i \in 1..Len(Todo[r]) : Todo'[r][i] = Todo[r][i]
      /\ \A s \in Reactors : s # r => Todo'[s] = Todo[s]
  BY <1>1, OneMore
<1> SUFFICES ASSUME NEW c \in Conns, owner[c] \in Reactors, NEW op
             PROVE  /\ Due(op, c) => Due(op, c)'
                    /\ r = owner[c] /\ f = Functor(op, c) => Due(op, c)'
  OBVIOUS
<1>3. Due(op, c)' <=> \E i \in 1..Len(Todo'[owner[c]]) :
                        Todo'[owner[c]][i] = Functor(op, c)
  BY DEF Due, Functor
<1>4. \A s \in Reactors : \A i \in 1..Len(Todo[s]) :
        i \in 1..Len(Todo'[s]) /\ Todo'[s][i] = Todo[s][i]
  BY <1>1, <1>2
<1>5. ASSUME Due(op, c)
      PROVE  Due(op, c)'
  <2>1. PICK i \in 1..Len(Todo[owner[c]]) :
               Todo[owner[c]][i] = Functor(op, c)
    BY <1>5 DEF Due
  <2> QED
    BY <1>3, <1>4, <2>1
<1>6. ASSUME r = owner[c], f = Functor(op, c)
      PROVE  Due(op, c)'
  <2>1. Len(Todo[r]) + 1 \in 1..Len(Todo'[r])
    BY <1>1, <1>2
  <2> QED
    BY <1>2, <1>3, <1>6, <2>1
<1> QED
  BY <1>5, <1>6

-----------------------------------------------------------------------------
(* The end of a connection.                                                *)

LEMMA HandleCloseStep ==
  ASSUME Inv, NEW r \in Reactors, NEW c \in Conns, HandleClose(r, c)
  PROVE  Inv'
<1> USE DEF Inv
<1> DEFINE op == IF r = Main THEN "connectDestroyed" ELSE "removeConnection"
           f == Functor(op, c)
<1>1. /\ phase[r] = "events" /\ c \in active[r]
      /\ owner[c] = r /\ registered[c] = "kAdded" /\ state[c] = "kConnected"
      /\ newCalls[c] = 1 /\ finCalls[c] = 0
  BY DEF HandleClose, Goto, Handled, Calls
<1>2. /\ phase' = [phase EXCEPT ![r] = "handling"]
      /\ current' = [current EXCEPT ![r] = c]
      /\ state' = [state EXCEPT ![c] = "kDisconnected"]
      /\ registered' = [registered EXCEPT ![c] = "kDeled"]
      /\ finCalls' = [finCalls EXCEPT ![c] = @ + 1]
      /\ connMap' = IF r = Main THEN connMap \ {c} ELSE connMap
      /\ Post(Main, op, c)
      /\ UNCHANGED <<server, pool, nextIndex, left, joined, owner, fd,
                     eventMap, peerClosed, newCalls, stopped, active, batch,
                     done>>
  BY <1>1 DEF HandleClose, Goto, handleExistEvent, Remove, serverVars
<1>3. Main \in Reactors /\ f \in Functors
  BY DEF Reactors, Functor, Functors
<1>4. Todo' = [Todo EXCEPT ![Main] = Append(@, f)]
  BY <1>2, <1>3, PostTodo
<1>5. c \in Refs
  BY <1>1, RegisteredKept
<1>6. Refs' \subseteq Refs
  <2>1. Refs' \subseteq Refs \cup {c}
    BY <1>2, <1>3, PostRefs
  <2> QED
    BY <1>5, <2>1
<1>7. f.op = op /\ f.conn = c
  BY DEF Functor
<1>8. Todo \in [Reactors -> Seq(Functors)]
  BY TodoType
<1>9. /\ Todo' \in [Reactors -> Seq(Functors)]
      /\ Len(Todo'[Main]) = Len(Todo[Main]) + 1
      /\ Todo'[Main][Len(Todo[Main]) + 1] = f
      /\ \A i \in 1..Len(Todo[Main]) : Todo'[Main][i] = Todo[Main][i]
      /\ \A s \in Reactors : s # Main => Todo'[s] = Todo[s]
  <2> HIDE DEF f
  <2> QED
    BY <1>3, <1>4, <1>8, OneMore
<1> HIDE DEF f
<1>10. TypeOK'
  <2>1. queue' \in [Reactors -> Seq(Functors)]
    BY <1>2, <1>3 DEF TypeOK, Post, f
  <2>2. left' \subseteq connMap' /\ connMap' \subseteq Conns
    BY <1>1, <1>2 DEF TypeOK, Joined
  <2>3. /\ phase' \in [Reactors ->
                      {"while", "events", "handling", "functors", "exited"}]
        /\ current' \in [Reactors -> Conns \cup {None}]
    BY <1>2 DEF TypeOK
  <2>4. /\ state' \in [Conns -> {"kDisconnected", "kConnected"}]
        /\ registered' \in [Conns -> {"kNew", "kAdded", "kDeled"}]
        /\ finCalls' \in [Conns -> Nat]
    BY <1>2 DEF TypeOK
  <2> QED
    BY <1>2, <2>1, <2>2, <2>3, <2>4 DEF TypeOK
<1>11. Phases'
  BY <1>1, <1>2 DEF Phases, TypeOK
<1>12. Handled'
  BY <1>1, <1>2 DEF Handled, TypeOK
<1>13. Unseen'
  BY <1>1, <1>2, <1>6, NoneAssumption DEF Unseen, TypeOK, Reactors
<1>14. Calls'
  BY <1>1, <1>2 DEF Calls, TypeOK
<1>15. Homes'
  BY <1>1, <1>2, <1>3, <1>4, <1>7, PostedHomes
<1>16. Kept'
  <2> SUFFICES ASSUME NEW d \in Conns, owner[d] # None,
                      phase'[owner[d]] # "exited"
               PROVE  /\ newCalls[d] = 0 => Due("connectEstablished", d)'
                      /\ newCalls[d] = 0 \/ registered'[d] # "kNew" =>
                           d \in connMap' \/ Due("connectDestroyed", d)'
    BY <1>2 DEF Kept
  <2>1. owner[d] \in Reactors /\ phase[owner[d]] # "exited"
    BY <1>1, <1>2 DEF TypeOK
  <2>2. \A o : Due(o, d) => Due(o, d)'
    BY <1>2, <1>3, <1>4, <2>1, PostedDue
  <2>3. c = d /\ r = Main => Due("connectDestroyed", d)'
    BY <1>1, <1>2, <1>3, <1>4, <2>1, PostedDue DEF f
  <2> QED
    BY <1>1, <1>2, <2>1, <2>2, <2>3 DEF Kept, TypeOK
<1>17. Removals'
  <2> SUFFICES ASSUME server = "started"
               PROVE  Removals'
    BY <1>2 DEF Removals
  <2>1. c \in connMap
    BY <1>1, NoneAssumption DEF Removals, Reactors
  <2>2. ASSUME NEW d \in Conns, owner[d] # None,
               newCalls[d] = 0 \/ registered'[d] = "kAdded"
        PROVE  d \in connMap'
    BY <1>1, <1>2, <2>2 DEF Removals, TypeOK
  <2>3. \A i \in 1..Len(Todo[Main]) :
          Todo[Main][i].op = "removeConnection" => Todo[Main][i].conn # c
    BY <1>1 DEF Removals
  <2>4. ASSUME NEW i \in 1..Len(Todo'[Main]),
               Todo'[Main][i].op = "removeConnection"
        PROVE  /\ Todo'[Main][i].conn \in connMap'
               /\ registered'[Todo'[Main][i].conn] # "kAdded"
               /\ newCalls[Todo'[Main][i].conn] = 1
               /\ \A j \in 1..(i - 1) : Todo'[Main][j] # Todo'[Main][i]
    <3>0. Len(Todo[Main]) \in Nat
      BY <1>3, <1>8
    <3>1. CASE i = Len(Todo[Main]) + 1
      <4>1. r # Main /\ op = "removeConnection"
        BY <1>7, <1>9, <2>4, <3>1
      <4>2. \A j \in 1..(i - 1) : Todo'[Main][j] # f
        BY <1>7, <1>9, <2>3, <3>0, <3>1, <4>1
      <4>3. Todo'[Main][i] = f /\ f.conn = c
        BY <1>7, <1>9, <3>1
      <4>4. c \in connMap' /\ registered'[c] = "kDeled" /\ newCalls[c] = 1
        BY <1>1, <1>2, <2>1, <4>1 DEF TypeOK
      <4> QED
        BY <4>2, <4>3, <4>4
    <3>2. CASE i \in 1..Len(Todo[Main])
      <4>1. \A j \in 1..i : Todo'[Main][j] = Todo[Main][j]
        BY <1>9, <3>0, <3>2
      <4>2. Todo[Main][i].conn \in Conns
        <5>1. Todo[Main][i] \in Functors
          BY <1>3, <1>8, <3>2
        <5> QED
          BY <5>1 DEF Functors
      <4>3. Todo[Main][i].op = "removeConnection" /\ Todo[Main][i].conn # c
        BY <2>3, <2>4, <3>2, <4>1
      <4>4. registered'[Todo[Main][i].conn] = registered[Todo[Main][i].conn]
        BY <1>2, <4>2, <4>3 DEF TypeOK
      <4>5. Todo'[Main][i] = Todo[Main][i]
        BY <3>2, <4>1
      <4> QED
        BY <1>2, <3>0, <3>2, <4>1, <4>2, <4>3, <4>4, <4>5 DEF Removals
    <3> QED
      BY <1>9, <3>0, <3>1, <3>2
  <2> QED
    BY <1>2, <2>2, <2>4 DEF Removals
<1>18. Descriptors'
  BY <1>2, <1>6 DEF Descriptors
<1>19. Found'
  BY <1>1, <1>2 DEF Found, TypeOK
<1>20. Joined'
  <2>1. \A i \in 1..joined : pool[i] \in Reactors
    BY DEF TypeOK, Reactors
  <2> QED
    BY <1>1, <1>2, <1>3, <2>1 DEF Joined, TypeOK
<1> QED
  BY <1>10, <1>11, <1>12, <1>13, <1>14, <1>15, <1>16, <1>17, <1>18, <1>19,
     <1>20

LEMMA DtorConnectionStep ==
  ASSUME Inv, NEW c \in Conns, DtorConnection(c)
  PROVE  Inv'
<1> USE DEF Inv
<1> DEFINE f == Functor("connectDestroyed", c)
           r == owner[c]
<1>1. /\ server = "destroying" /\ left' = left \ {c}
      /\ connMap' = connMap \ {c} /\ c \in connMap
      /\ Post(r, "connectDestroyed", c)
      /\ UNCHANGED <<server, pool, nextIndex, joined, owner, fd, state,
                     registered, eventMap, peerClosed, newCalls, finCalls,
                     phase, stopped, active, current, batch, done>>
  BY DEF DtorConnection, TypeOK, connVars, eventVars, loopVars
<1>2. c \in Refs
  BY <1>1 DEF Refs, Referenced
<1>3. /\ r \in Reactors /\ f \in Functors
      /\ f.op = "connectDestroyed" /\ f.conn = c
  BY <1>2, OwnerType DEF Functor, Functors
<1>4. Todo' = [Todo EXCEPT ![r] = Append(@, f)]
  <2> HIDE DEF r
  <2> QED
    BY <1>1, <1>3, PostTodo
<1>5. Refs' \subseteq Refs
  <2> HIDE DEF r
  <2>1. Refs' \subseteq Refs \cup {c}
    BY <1>1, <1>3, PostRefs
  <2> QED
    BY <1>2, <2>1
<1>6. TypeOK'
  <2>1. queue' \in [Reactors -> Seq(Functors)]
    BY <1>1, <1>3 DEF TypeOK, Post
  <2> QED
    BY <1>1, <2>1 DEF TypeOK
<1>7. Phases' /\ Handled' /\ Calls' /\ Found' /\ Joined'
  BY <1>1 DEF Phases, Handled, Calls, Found, Joined
<1>8. Unseen'
  BY <1>1, <1>5 DEF Unseen
<1>9. Homes'
  <2> HIDE DEF f
  <2> QED
    BY <1>1, <1>3, <1>4, PostedHomes
<1>10. Kept'
  <2> SUFFICES ASSUME NEW d \in Conns, owner[d] # None,
                      phase[owner[d]] # "exited"
               PROVE  /\ newCalls[d] = 0 => Due("connectEstablished", d)'
                      /\ newCalls[d] = 0 \/ registered[d] # "kNew" =>
                           d \in connMap' \/ Due("connectDestroyed", d)'
    BY <1>1 DEF Kept
  <2>1. owner[d] \in Reactors
    BY DEF TypeOK
  <2>2. \A o : Due(o, d) => Due(o, d)'
    <3> HIDE DEF f, r
    <3> QED
      BY <1>1, <1>3, <1>4, <2>1, PostedDue
  <2>3. c = d => Due("connectDestroyed", d)'
    BY <1>1, <1>3, <1>4, <2>1, PostedDue
  <2> QED
    BY <1>1, <2>1, <2>2, <2>3 DEF Kept
<1>11. Removals'
  BY <1>1 DEF Removals
<1>12. Descriptors'
  BY <1>1, <1>5 DEF Descriptors
<1> QED
  BY <1>6, <1>7, <1>8, <1>9, <1>10, <1>11, <1>12

-----------------------------------------------------------------------------
(* The beginning of a connection.                                          *)

LEMMA HandleNewConnectionStep ==
  ASSUME Inv, NEW c \in Conns, HandleNewConnection(c)
  PROVE  Inv'
<1> USE DEF Inv
<1> DEFINE r == IF pool = <<>> THEN Main ELSE pool[nextIndex + 1]
           n == LowestFree
           f == Functor("connectEstablished", c)
<1>1. /\ phase[Main] = "events" /\ Listen \in active[Main]
      /\ active' = [active EXCEPT ![Main] = @ \ {Listen}]
      /\ owner[c] = None
      /\ fd' = [fd EXCEPT ![c] = n]
      /\ nextIndex' = NextIndex
      /\ connMap' = connMap \cup {c}
      /\ owner' = [owner EXCEPT ![c] = r]
      /\ UNCHANGED <<server, pool, left, joined, phase, stopped, current, batch,
                     done>>
      /\ IF r = Main THEN Establish(c, r, n) /\ UNCHANGED queue
         ELSE /\ Post(r, "connectEstablished", c)
              /\ UNCHANGED <<state, registered, eventMap, peerClosed, newCalls,
                             finCalls>>
  BY DEF HandleNewConnection, eventVars
<1>2. r \in Reactors /\ Main \in Reactors
  BY DEF TypeOK, Reactors
<1>3. nextIndex' \in Nat /\ (nextIndex' = 0 \/ nextIndex' < Len(pool))
  <2>1. CASE pool = <<>>
    BY <1>1, <2>1 DEF NextIndex, TypeOK
  <2>2. CASE pool # <<>>
    <3>1. Len(pool) \in Nat \ {0} /\ nextIndex + 1 \in Nat
      BY <2>2 DEF TypeOK
    <3>2. (nextIndex + 1) % Len(pool) \in 0..(Len(pool) - 1)
      BY <3>1
    <3> QED
      BY <1>1, <2>2, <3>1, <3>2 DEF NextIndex
  <2> QED
    BY <2>1, <2>2
<1>4. f \in Functors /\ f.op = "connectEstablished" /\ f.conn = c
  BY DEF Functor, Functors
<1>5. n \in Fds /\ \A d \in Refs : owner[d] # None => fd[d] # n
  BY <1>1, LowestFreeIsFree
<1>6. /\ c \notin Refs /\ registered[c] = "kNew" /\ newCalls[c] = 0
      /\ state[c] = "kDisconnected" /\ finCalls[c] = 0
  BY <1>1 DEF Unseen, Calls, TypeOK
<1> HIDE DEF r, n, f
<1>7. Refs' \subseteq Refs \cup {c}
  <2>1. CASE r = Main
    BY <1>1, <2>1 DEF Refs, Referenced
  <2>2. CASE r # Main
    BY <1>1, <1>2, <1>4, <2>2, PostRefs DEF f
  <2> QED
    BY <2>1, <2>2
<1>8. Todo \in [Reactors -> Seq(Functors)]
  BY TodoType
<1>9. \A s \in Reactors : \A i \in 1..Len(Todo[s]) :
        /\ Todo[s][i].conn \in Conns /\ Todo[s][i].conn # c
        /\ Todo[s][i] \in Functors
  <2> TAKE s \in Reactors
  <2> TAKE i \in 1..Len(Todo[s])
  <2>1. Todo[s][i] \in Functors
    BY <1>8
  <2>2. Todo[s][i].conn \in Conns
    BY <2>1 DEF Functors
  <2>3. Todo[s][i].conn \in Refs
    BY TodoKeeps
  <2> QED
    BY <1>6, <2>1, <2>2, <2>3
<1>10. /\ Todo' \in [Reactors -> Seq(Functors)]
       /\ \A s \in Reactors : \A i \in 1..Len(Todo[s]) :
            i \in 1..Len(Todo'[s]) /\ Todo'[s][i] = Todo[s][i]
       /\ \A s \in Reactors : \A i \in 1..Len(Todo'[s]) :
            \/ i \in 1..Len(Todo[s])
            \/ /\ r # Main /\ s = r /\ i = Len(Todo[r]) + 1
               /\ Todo'[s][i] = f
       /\ r # Main => /\ Len(Todo[r]) + 1 \in 1..Len(Todo'[r])
                      /\ Todo'[r][Len(Todo[r]) + 1] = f
  <2>1. CASE r = Main
    <3>1. Todo' = Todo
      BY <1>1, <2>1 DEF Todo
    <3> QED
      BY <1>8, <2>1, <3>1
  <2>2. CASE r # Main
    <3>1. Todo' = [Todo EXCEPT ![r] = Append(@, f)]
      BY <1>1, <1>2, <1>4, <2>2, PostTodo DEF f
    <3>2. /\ Todo' \in [Reactors -> Seq(Functors)]
          /\ Len(Todo'[r]) = Len(Todo[r]) + 1 /\ Todo'[r][Len(Todo[r]) + 1] = f
          /\ \A i \in 1..Len(Todo[r]) : Todo'[r][i] = Todo[r][i]
          /\ \A s \in Reactors : s # r => Todo'[s] = Todo[s]
      BY <1>2, <1>4, <1>8, <3>1, OneMore
    <3>3. \A s \in Reactors : Len(Todo[s]) \in Nat
      BY <1>8
    <3>4. ASSUME NEW s \in Reactors, NEW i \in 1..Len(Todo'[s])
          PROVE  \/ i \in 1..Len(Todo[s])
                 \/ s = r /\ i = Len(Todo[r]) + 1 /\ Todo'[s][i] = f
      BY <3>2, <3>3
    <3>5. ASSUME NEW s \in Reactors, NEW i \in 1..Len(Todo[s])
          PROVE  i \in 1..Len(Todo'[s]) /\ Todo'[s][i] = Todo[s][i]
      BY <3>2, <3>3
    <3>6. Len(Todo[r]) + 1 \in 1..Len(Todo'[r])
      BY <1>2, <3>2, <3>3
    <3> QED
      BY <2>2, <3>2, <3>4, <3>5, <3>6
  <2> QED
    BY <2>1, <2>2
<1>11. /\ r = Main =>
            /\ registered' = [registered EXCEPT ![c] = "kAdded"]
            /\ eventMap' = [eventMap EXCEPT ![Main][n] = c]
            /\ state' = [state EXCEPT ![c] = "kConnected"]
            /\ newCalls' = [newCalls EXCEPT ![c] = @ + 1]
            /\ UNCHANGED <<peerClosed, finCalls, queue>>
       /\ r # Main =>
            UNCHANGED <<state, registered, eventMap, peerClosed, newCalls,
                        finCalls>>
  BY <1>1 DEF Establish, handleNewEvent
<1>12. \A d \in Conns : d # c =>
         /\ owner'[d] = owner[d] /\ registered'[d] = registered[d]
         /\ newCalls'[d] = newCalls[d] /\ fd'[d] = fd[d]
  BY <1>1, <1>11 DEF TypeOK
<1>13. TypeOK'
  <2>1. queue' \in [Reactors -> Seq(Functors)]
    <3>1. CASE r = Main
      BY <1>11, <3>1 DEF TypeOK
    <3>2. CASE r # Main
      <4>1. queue' = [queue EXCEPT ![r] = Append(@, f)]
        BY <1>1, <3>2 DEF Post, f
      <4>2. queue \in [Reactors -> Seq(Functors)]
        BY DEF TypeOK
      <4> QED
        BY <1>2, <1>4, <4>1, <4>2
    <3> QED
      BY <3>1, <3>2
  <2>2. /\ state' \in [Conns -> {"kDisconnected", "kConnected"}]
        /\ registered' \in [Conns -> {"kNew", "kAdded", "kDeled"}]
        /\ newCalls' \in [Conns -> Nat] /\ finCalls' \in [Conns -> Nat]
        /\ peerClosed' \in [Conns -> BOOLEAN]
    <3>1. CASE r = Main
      <4>1. newCalls' \in [Conns -> Nat]
        <5>1. newCalls \in [Conns -> Nat]
          BY DEF TypeOK
        <5>2. newCalls' = [newCalls EXCEPT ![c] = @ + 1]
          BY <1>11, <3>1
        <5> QED
          BY <5>1, <5>2
      <4>2. registered' \in [Conns -> {"kNew", "kAdded", "kDeled"}]
        BY <1>11, <3>1 DEF TypeOK
      <4>3. state' \in [Conns -> {"kDisconnected", "kConnected"}]
        BY <1>11, <3>1 DEF TypeOK
      <4>4. UNCHANGED <<finCalls, peerClosed>>
        BY <1>11, <3>1
      <4> QED
        BY <4>1, <4>2, <4>3, <4>4 DEF TypeOK
    <3>2. CASE r # Main
      BY <1>11, <3>2 DEF TypeOK
    <3> QED
      BY <3>1, <3>2
  <2>3. eventMap' \in [Reactors -> [Fds -> Conns \cup {None}]]
    <3>0. eventMap \in [Reactors -> [Fds -> Conns \cup {None}]]
      BY DEF TypeOK
    <3>1. CASE r = Main
      <4>1. eventMap' = [eventMap EXCEPT ![Main][n] = c]
        BY <1>11, <3>1
      <4> QED
        BY <1>2, <1>5, <3>0, <4>1
    <3>2. CASE r # Main
      BY <1>11, <3>0, <3>2
    <3> QED
      BY <3>1, <3>2
  <2>4. /\ owner' \in [Conns -> Reactors \cup {None}]
        /\ fd' \in [Conns -> 0..Cardinality(Conns)]
        /\ active' \in [Reactors -> SUBSET (Conns \cup {Listen})]
        /\ connMap' \subseteq Conns /\ left' \subseteq connMap'
    <3>1. n \in 0..Cardinality(Conns)
      BY <1>5, NoneAssumption, FS_CardinalityType DEF Fds
    <3> QED
      BY <1>1, <1>2, <3>1 DEF TypeOK
  <2> QED
    BY <1>1, <1>3, <2>1, <2>2, <2>3, <2>4 DEF TypeOK
<1>14. Phases'
  BY <1>1, <1>2 DEF Phases, TypeOK
<1>15. Handled'
  <2> SUFFICES ASSUME NEW s \in Reactors, NEW d \in Conns, d \in active'[s]
               PROVE  /\ owner'[d] = s /\ registered'[d] # "kNew"
                      /\ \/ registered'[d] = "kAdded"
                         \/ phase[s] = "handling" /\ d = current[s]
    BY <1>1 DEF Handled
  <2>1. d \in active[s]
    BY <1>1 DEF TypeOK
  <2>2. d # c
    BY <1>6, <2>1 DEF Handled
  <2> QED
    BY <1>12, <2>1, <2>2 DEF Handled
<1>16. Unseen'
  BY <1>1, <1>2, <1>7, <1>11, NoneAssumption DEF Unseen, TypeOK, Reactors
<1>17. Calls'
  <2>1. CASE r = Main
    BY <1>6, <1>11, <2>1 DEF Calls, TypeOK
  <2>2. CASE r # Main
    BY <1>11, <2>2 DEF Calls
  <2> QED
    BY <2>1, <2>2
<1>18. Joined'
  BY <1>1 DEF Joined
<1>19. Descriptors'
  <2>1. \A d \in Refs : d \in Conns /\ owner[d] # None
    BY OwnerType
  <2>2. \A d \in Refs' : d = c \/ d \in Refs
    BY <1>7
  <2>3. \A d \in Conns : fd'[d] = IF d = c THEN n ELSE fd[d]
    BY <1>1 DEF TypeOK
  <2>4. \A d, e \in Refs' : fd'[d] = fd'[e] => d = e
    BY <1>5, <2>1, <2>2, <2>3 DEF Descriptors
  <2>5. \A d \in Conns : owner'[d] # None => fd'[d] \in Fds
    BY <1>1, <1>5, <2>3 DEF Descriptors, TypeOK
  <2> QED
    BY <2>4, <2>5 DEF Descriptors
<1>20. Homes'
  <2> SUFFICES ASSUME NEW s \in Reactors, NEW i \in 1..Len(Todo'[s])
               PROVE  /\ Todo'[s][i].op = "removeConnection" => s = Main
                      /\ Todo'[s][i].op # "removeConnection" =>
                           owner'[Todo'[s][i].conn] = s
                      /\ Todo'[s][i].op = "connectEstablished" =>
                           /\ newCalls'[Todo'[s][i].conn] = 0
                           /\ \A j \in 1..(i - 1) :
                                Todo'[s][j].conn # Todo'[s][i].conn
    BY DEF Homes
  <2>0. Len(Todo[s]) \in Nat
    BY <1>8
  <2>1. CASE i \in 1..Len(Todo[s])
    <3>1. Todo'[s][i] = Todo[s][i]
      BY <1>10, <2>1
    <3>2. \A j \in 1..(i - 1) : Todo'[s][j] = Todo[s][j]
      BY <1>10, <2>0, <2>1
    <3> QED
      BY <1>9, <1>12, <2>1, <3>1, <3>2 DEF Homes
  <2>2. CASE r # Main /\ s = r /\ i = Len(Todo[r]) + 1 /\ Todo'[s][i] = f
    <3>1. \A j \in 1..(i - 1) : Todo'[s][j].conn # c
      BY <1>9, <1>10, <2>0, <2>2
    <3>2. owner'[c] = r /\ newCalls'[c] = 0
      BY <1>1, <1>6, <1>11, <2>2 DEF TypeOK
    <3> QED
      BY <1>4, <2>2, <3>1, <3>2
  <2> QED
    BY <1>10, <2>1, <2>2
<1>21. Kept'
  <2> SUFFICES ASSUME NEW d \in Conns, owner'[d] # None,
                      phase[owner'[d]] # "exited"
               PROVE  /\ newCalls'[d] = 0 => Due("connectEstablished", d)'
                      /\ newCalls'[d] = 0 \/ registered'[d] # "kNew" =>
                           d \in connMap' \/ Due("connectDestroyed", d)'
    BY <1>1 DEF Kept
  <2>1. CASE d = c
    <3>1. d \in connMap' /\ owner'[d] = r
      BY <1>1, <2>1 DEF TypeOK
    <3>2. r = Main => newCalls'[d] = 1
      BY <1>6, <1>11, <2>1 DEF TypeOK
    <3>3. r # Main => Due("connectEstablished", d)'
      BY <1>10, <2>1, <3>1 DEF Due, f, Functor
    <3> QED
      BY <3>1, <3>2, <3>3
  <2>2. CASE d # c
    <3>1. owner[d] \in Reactors /\ owner'[d] = owner[d]
      BY <1>12, <2>2 DEF TypeOK
    <3>2. ASSUME NEW op, Due(op, d)
          PROVE  Due(op, d)'
      <4>1. PICK i \in 1..Len(Todo[owner[d]]) :
                   Todo[owner[d]][i] = Functor(op, d)
        BY <3>2 DEF Due
      <4>2. i \in 1..Len(Todo'[owner[d]]) /\ Todo'[owner[d]][i] = Functor(op, d)
        BY <1>10, <3>1, <4>1
      <4> QED
        BY <3>1, <4>2 DEF Due, Functor
    <3> QED
      BY <1>1, <1>12, <2>2, <3>1, <3>2 DEF Kept
  <2> QED
    BY <2>1, <2>2
<1>22. Removals'
  <2> SUFFICES ASSUME server = "started"
               PROVE  Removals'
    BY <1>1 DEF Removals
  <2>1. ASSUME NEW d \in Conns, owner'[d] # None,
               newCalls'[d] = 0 \/ registered'[d] = "kAdded"
        PROVE  d \in connMap'
    BY <1>1, <1>12, <2>1 DEF Removals
  <2>2. ASSUME NEW i \in 1..Len(Todo'[Main]),
               Todo'[Main][i].op = "removeConnection"
        PROVE  /\ Todo'[Main][i].conn \in connMap'
               /\ registered'[Todo'[Main][i].conn] # "kAdded"
               /\ newCalls'[Todo'[Main][i].conn] = 1
               /\ \A j \in 1..(i - 1) : Todo'[Main][j] # Todo'[Main][i]
    <3>1. i \in 1..Len(Todo[Main]) /\ Len(Todo[Main]) \in Nat
      BY <1>2, <1>8, <1>10
    <3>2. Todo'[Main][i] = Todo[Main][i]
      BY <1>2, <1>10, <3>1
    <3>3. \A j \in 1..(i - 1) : Todo'[Main][j] = Todo[Main][j]
      BY <1>2, <1>10, <3>1
    <3> QED
      BY <1>1, <1>2, <1>9, <1>12, <2>2, <3>1, <3>2, <3>3 DEF Removals
  <2> QED
    BY <1>1, <2>1, <2>2 DEF Removals
<1>23. Found'
  <2> SUFFICES ASSUME NEW d \in Conns, registered'[d] # "kNew"
               PROVE  eventMap'[owner'[d]][fd'[d]] = d
    BY DEF Found
  <2>1. CASE d = c
    BY <1>1, <1>2, <1>5, <1>6, <1>11, <2>1 DEF TypeOK
  <2>2. CASE d # c
    <3>1. registered[d] # "kNew" /\ owner[d] # None
      BY <1>12, <2>2 DEF Unseen
    <3>2. owner[d] \in Reactors /\ fd[d] \in Fds
      BY <3>1 DEF TypeOK, Descriptors
    <3>3. owner[d] = Main => fd[d] # n
      BY <1>1, <1>5, <3>1, RegisteredKept
    <3>4. eventMap'[owner[d]][fd[d]] = eventMap[owner[d]][fd[d]]
      BY <1>2, <1>5, <1>11, <3>2, <3>3 DEF TypeOK
    <3> QED
      BY <1>12, <2>2, <3>1, <3>4 DEF Found
  <2> QED
    BY <2>1, <2>2
<1> QED
  BY <1>13, <1>14, <1>15, <1>16, <1>17, <1>18, <1>19, <1>20, <1>21, <1>22,
     <1>23

-----------------------------------------------------------------------------
(* A functor is executed.                                                  *)

First(r) == Todo[r][1]

\* How many functors of s are gone when r has executed one.
Fewer(s, r) == IF s = r THEN 1 ELSE 0

\* r has executed a functor, which may have posted a connectDestroyed.
Ran(r) ==
  /\ Todo' \in [Reactors -> Seq(Functors)]
  /\ \A s \in Reactors : \A i \in 1..(Len(Todo[s]) - Fewer(s, r)) :
       i \in 1..Len(Todo'[s]) /\ Todo'[s][i] = Todo[s][i + Fewer(s, r)]
  /\ \A s \in Reactors : \A i \in 1..Len(Todo'[s]) :
       \/ i <= Len(Todo[s]) - Fewer(s, r)
       \/ /\ Todo'[s][i].op = "connectDestroyed"
          /\ owner[Todo'[s][i].conn] = s

\* What is known of the functor.
LEMMA FirstFacts ==
  ASSUME Inv, NEW r \in Reactors, RunFunctor(r)
  PROVE  /\ phase[r] = "functors" /\ active[r] = {}
         /\ Todo[r] # <<>> /\ Len(Todo[r]) \in Nat \ {0}
         /\ First(r) = batch[r][done[r] + 1] /\ First(r) \in Functors
         /\ First(r) = Functor(First(r).op, First(r).conn)
         /\ First(r).conn \in Refs /\ First(r).conn \in Conns
         /\ owner[First(r).conn] \in Reactors /\ owner[First(r).conn] # None
         /\ First(r).op = "removeConnection" => r = Main
         /\ First(r).op # "removeConnection" => owner[First(r).conn] = r
         /\ First(r).op = "connectEstablished" => newCalls[First(r).conn] = 0
         /\ \A i \in 2..Len(Todo[r]) :
              Todo[r][i].op = "connectEstablished" =>
                Todo[r][i].conn # First(r).conn
<1> USE DEF Inv
<1>1. /\ phase[r] = "functors" /\ done[r] < Len(batch[r])
      /\ done' = [done EXCEPT ![r] = @ + 1] /\ UNCHANGED batch
  BY DEF RunFunctor
<1>2. Todo[r] # <<>> /\ Todo[r][1] = batch[r][done[r] + 1]
  BY <1>1, RunTodo
<1>3. Todo[r] \in Seq(Functors) /\ Len(Todo[r]) \in Nat \ {0}
  BY <1>2, TodoType
<1>4. First(r) \in Functors /\ 1 \in 1..Len(Todo[r])
  BY <1>3 DEF First
<1>5. First(r) = Functor(First(r).op, First(r).conn)
  BY <1>4 DEF Functors, Functor
<1>6. First(r).conn \in Refs
  BY <1>4, TodoKeeps DEF First
<1>7. /\ First(r).op = "removeConnection" => r = Main
      /\ First(r).op # "removeConnection" => owner[First(r).conn] = r
      /\ First(r).op = "connectEstablished" => newCalls[First(r).conn] = 0
  BY <1>4 DEF Homes, First
<1>8. ASSUME NEW i \in 2..Len(Todo[r]), Todo[r][i].op = "connectEstablished"
      PROVE  Todo[r][i].conn # First(r).conn
  BY <1>3, <1>8, i \in 1..Len(Todo[r]), 1 \in 1..(i - 1) DEF Homes, First
<1>9. active[r] = {}
  BY <1>1 DEF Phases
<1> QED
  BY <1>1, <1>2, <1>3, <1>4, <1>5, <1>6, <1>7, <1>8, <1>9, OwnerType DEF First

LEMMA RanAlone ==
  ASSUME Inv, NEW r \in Reactors, Todo[r] # <<>>,
         Todo' = [Todo EXCEPT ![r] = Tail(@)]
  PROVE  Ran(r)
<1>1. Todo \in [Reactors -> Seq(Functors)]
  BY TodoType DEF Inv
<1>2. /\ Todo' \in [Reactors -> Seq(Functors)]
      /\ Len(Todo[r]) \in Nat \ {0} /\ Len(Todo'[r]) = Len(Todo[r]) - 1
      /\ \A i \in 1..(Len(Todo[r]) - 1) : Todo'[r][i] = Todo[r][i + 1]
      /\ \A s \in Reactors : s # r => Todo'[s] = Todo[s]
  BY <1>1, OneLess
<1>3. \A s \in Reactors : Len(Todo[s]) \in Nat
  BY <1>1
<1>4. \A s \in Reactors : Len(Todo'[s]) = Len(Todo[s]) - Fewer(s, r)
  BY <1>2, <1>3 DEF Fewer
<1>5. ASSUME NEW s \in Reactors, NEW i \in 1..(Len(Todo[s]) - Fewer(s, r))
      PROVE  i \in 1..Len(Todo'[s]) /\ Todo'[s][i] = Todo[s][i + Fewer(s, r)]
  <2>1. CASE s = r
    BY <1>2, <1>4, <2>1 DEF Fewer
  <2>2. CASE s # r
    BY <1>2, <1>3, <2>2 DEF Fewer
  <2> QED
    BY <2>1, <2>2
<1>6. \A s \in Reactors : \A i \in 1..Len(Todo'[s]) :
        i <= Len(Todo[s]) - Fewer(s, r)
  BY <1>4
<1> QED
  BY <1>2, <1>5, <1>6 DEF Ran

\* T is what is left once r has executed its functor, which posts f to q.
ThenPosted(T, r, q, f) ==
  /\ T \in [Reactors -> Seq(Functors)]
  /\ Len(T[r]) = Len(Todo[r]) - 1
  /\ \A i \in 1..(Len(Todo[r]) - 1) : T[r][i] = Todo[r][i + 1]
  /\ \A s \in Reactors : s # r => T[s] = Todo[s]
  /\ f \in Functors /\ f.op = "connectDestroyed" /\ owner[f.conn] = q
  /\ Todo' = [T EXCEPT ![q] = Append(@, f)]

LEMMA RanPosting ==
  ASSUME Inv, NEW r \in Reactors, Todo[r] # <<>>,
         NEW q \in Reactors, NEW f, NEW T, ThenPosted(T, r, q, f)
  PROVE  Ran(r) /\ \E i \in 1..Len(Todo'[q]) : Todo'[q][i] = f
<1>0. /\ T \in [Reactors -> Seq(Functors)]
      /\ Len(T[r]) = Len(Todo[r]) - 1
      /\ \A i \in 1..(Len(Todo[r]) - 1) : T[r][i] = Todo[r][i + 1]
      /\ \A s \in Reactors : s # r => T[s] = Todo[s]
      /\ f \in Functors /\ f.op = "connectDestroyed" /\ owner[f.conn] = q
  BY DEF ThenPosted
<1>1. Todo \in [Reactors -> Seq(Functors)]
  BY TodoType DEF Inv
<1>2. Len(Todo[r]) \in Nat \ {0} /\ Len(T[r]) = Len(Todo[r]) - 1
  BY <1>0, <1>1
<1>3. Todo' = [T EXCEPT ![q] = Append(@, f)]
  BY DEF ThenPosted
<1>4. /\ Todo' \in [Reactors -> Seq(Functors)]
      /\ Len(Todo'[q]) = Len(T[q]) + 1 /\ Todo'[q][Len(T[q]) + 1] = f
      /\ \A i \in 1..Len(T[q]) : Todo'[q][i] = T[q][i]
      /\ \A s \in Reactors : s # q => Todo'[s] = T[s]
  <2> DEFINE U == Todo'
  <2>1. U = [T EXCEPT ![q] = Append(@, f)] /\ T \in [Reactors -> Seq(Functors)]
    BY <1>0, <1>2, <1>3
  <2> HIDE DEF U
  <2>2. /\ U \in [Reactors -> Seq(Functors)]
        /\ Len(U[q]) = Len(T[q]) + 1 /\ U[q][Len(T[q]) + 1] = f
        /\ \A i \in 1..Len(T[q]) : U[q][i] = T[q][i]
        /\ \A s \in Reactors : s # q => U[s] = T[s]
    BY <1>0, <2>1, OneMore
  <2> QED
    BY <1>0, <2>2 DEF U
<1>5. \A s \in Reactors : Len(Todo[s]) \in Nat /\ Len(T[s]) \in Nat
  BY <1>0, <1>1, <1>2
<1>6. \A s \in Reactors : Len(T[s]) = Len(Todo[s]) - Fewer(s, r)
  BY <1>0, <1>2, <1>5 DEF Fewer
<1>7. ASSUME NEW s \in Reactors, NEW i \in 1..(Len(Todo[s]) - Fewer(s, r))
      PROVE  i \in 1..Len(Todo'[s]) /\ Todo'[s][i] = Todo[s][i + Fewer(s, r)]
  <2>1. T[s][i] = Todo[s][i + Fewer(s, r)]
    <3>1. CASE s = r
      BY <1>0, <1>2, <3>1 DEF Fewer
    <3>2. CASE s # r
      BY <1>0, <1>2, <1>5, <3>2 DEF Fewer
    <3> QED
      BY <1>0, <3>1, <3>2
  <2>2. i \in 1..Len(T[s])
    BY <1>0, <1>6
  <2>3. i \in 1..Len(Todo'[s]) /\ Todo'[s][i] = T[s][i]
    <3>1. CASE s = q
      BY <1>0, <1>4, <1>5, <2>2, <3>1
    <3>2. CASE s # q
      BY <1>0, <1>4, <2>2, <3>2
    <3> QED
      BY <1>0, <3>1, <3>2
  <2> QED
    BY <1>0, <2>1, <2>3
<1>8. ASSUME NEW s \in Reactors, NEW i \in 1..Len(Todo'[s]),
             ~(i <= Len(Todo[s]) - Fewer(s, r))
      PROVE  s = q /\ Todo'[s][i] = f
  <2>1. ~(i <= Len(T[s]))
    BY <1>0, <1>6, <1>8
  <2>2. s = q
    BY <1>0, <1>4, <1>5, <2>1
  <2>3. i = Len(T[q]) + 1
    BY <1>0, <1>4, <1>5, <2>1, <2>2
  <2> QED
    BY <1>0, <1>4, <2>2, <2>3
<1>9. Len(Todo'[q]) \in 1..Len(Todo'[q]) /\ Todo'[q][Len(Todo'[q])] = f
  BY <1>0, <1>4, <1>5
<1>10. \A s \in Reactors : \A i \in 1..Len(Todo'[s]) :
         \/ i <= Len(Todo[s]) - Fewer(s, r)
         \/ /\ Todo'[s][i].op = "connectDestroyed"
            /\ owner[Todo'[s][i].conn] = s
  BY <1>0, <1>8
<1>11. Ran(r)
  BY <1>0, <1>4, <1>7, <1>10 DEF Ran
<1> QED
  BY <1>0, <1>9, <1>11

LEMMA RanHomes ==
  ASSUME Inv, NEW r \in Reactors, RunFunctor(r), Ran(r), UNCHANGED owner,
         \A c \in Conns :
           \/ newCalls'[c] = newCalls[c]
           \/ c = First(r).conn /\ First(r).op = "connectEstablished"
  PROVE  Homes'
<1> SUFFICES ASSUME NEW s \in Reactors, NEW i \in 1..Len(Todo'[s])
             PROVE  /\ Todo'[s][i].op = "removeConnection" => s = Main
                    /\ Todo'[s][i].op # "removeConnection" =>
                         owner[Todo'[s][i].conn] = s
                    /\ Todo'[s][i].op = "connectEstablished" =>
                         /\ newCalls'[Todo'[s][i].conn] = 0
                         /\ \A j \in 1..(i - 1) :
                              Todo'[s][j].conn # Todo'[s][i].conn
  BY DEF Homes
<1>1. Todo \in [Reactors -> Seq(Functors)]
  BY TodoType DEF Inv
<1>2. CASE ~(i <= Len(Todo[s]) - Fewer(s, r))
  BY <1>2 DEF Ran
<1>3. CASE i <= Len(Todo[s]) - Fewer(s, r)
  <2> DEFINE k == i + Fewer(s, r)
             g == Todo[s][k]
  <2>1. Fewer(s, r) \in {0, 1} /\ Len(Todo[s]) \in Nat /\ i \in Nat \ {0}
    BY <1>1 DEF Fewer, Ran
  <2>2. /\ k \in 1..Len(Todo[s])
        /\ \A j \in 1..i : j \in 1..(Len(Todo[s]) - Fewer(s, r))
        /\ \A j \in 1..(i - 1) : j + Fewer(s, r) \in 1..(k - 1)
    BY <1>3, <2>1
  <2>3. \A j \in 1..i : Todo'[s][j] = Todo[s][j + Fewer(s, r)]
    BY <2>2 DEF Ran
  <2>4. Todo'[s][i] = g
    BY <2>1, <2>3
  <2> HIDE DEF k
  <2>5. g \in Functors /\ g.conn \in Conns
    <3>1. g \in Functors
      BY <1>1, <2>2
    <3> QED
      BY <3>1 DEF Functors
  <2>6. /\ g.op = "removeConnection" => s = Main
        /\ g.op # "removeConnection" => owner[g.conn] = s
        /\ g.op = "connectEstablished" =>
             /\ newCalls[g.conn] = 0
             /\ \A j \in 1..(k - 1) : Todo[s][j].conn # g.conn
    BY <2>2 DEF Homes, Inv
  <2>7. ASSUME g.op = "connectEstablished"
        PROVE  newCalls'[g.conn] = newCalls[g.conn]
    <3> SUFFICES ASSUME g.conn = First(r).conn,
                        First(r).op = "connectEstablished"
                 PROVE  FALSE
      BY <2>5
    <3>1. s = r
      BY <2>6, <2>7, FirstFacts
    <3>2. k \in 2..Len(Todo[r])
      BY <2>1, <2>2, <3>1 DEF k, Fewer
    <3> QED
      BY <2>7, <3>1, <3>2, FirstFacts
  <2>8. ASSUME g.op = "connectEstablished", NEW j \in 1..(i - 1)
        PROVE  Todo'[s][j].conn # g.conn
    <3>1. j \in 1..i /\ j + Fewer(s, r) \in 1..(k - 1)
      BY <2>1, <2>2
    <3>2. Todo'[s][j] = Todo[s][j + Fewer(s, r)]
      BY <2>3, <3>1
    <3> HIDE DEF g
    <3> QED
      BY <2>6, <2>8, <3>1, <3>2
  <2> HIDE DEF g
  <2> QED
    BY <2>4, <2>6, <2>7, <2>8
<1> QED
  BY <1>2, <1>3

\* Only what is executed is not due any more.
LEMMA RanDue ==
  ASSUME Inv, NEW r \in Reactors, RunFunctor(r), Ran(r), UNCHANGED owner
  PROVE  \A c \in Conns : owner[c] \in Reactors => \A op :
           Due(op, c) => \/ Due(op, c)'
                         \/ First(r) = Functor(op, c)
<1> SUFFICES ASSUME NEW c \in Conns, owner[c] \in Reactors, NEW op,
                    Due(op, c), First(r) # Functor(op, c)
             PROVE  Due(op, c)'
  OBVIOUS
<1> DEFINE s == owner[c]
<1>1. PICK i \in 1..Len(Todo[s]) : Todo[s][i] = Functor(op, c)
  BY DEF Due
<1>2. Len(Todo[s]) \in Nat /\ Fewer(s, r) \in {0, 1}
  BY TodoType DEF Inv, Fewer
<1>3. i - Fewer(s, r) \in 1..(Len(Todo[s]) - Fewer(s, r))
  BY <1>1, <1>2 DEF Fewer, First
<1>4. /\ i - Fewer(s, r) \in 1..Len(Todo'[s])
      /\ Todo'[s][i - Fewer(s, r)] = Todo[s][i]
  <2>1. (i - Fewer(s, r)) + Fewer(s, r) = i
    BY <1>2
  <2> QED
    BY <1>3, <2>1 DEF Ran
<1> QED
  BY <1>1, <1>4 DEF Due, Functor

\* The removals that are left, after one step.
LEMMA RanRemovals ==
  ASSUME Inv, NEW r \in Reactors, RunFunctor(r), Ran(r), server = "started",
         \A c \in Conns :
           \/ /\ connMap' \cap {c} = connMap \cap {c}
              /\ registered'[c] = registered[c] /\ newCalls'[c] = newCalls[c]
           \/ c = First(r).conn
  PROVE  \A i \in 1..Len(Todo'[Main]) :
           Todo'[Main][i].op = "removeConnection" =>
             /\ Todo'[Main][i].conn = First(r).conn =>
                  /\ First(r).op # "removeConnection"
                  /\ newCalls[First(r).conn] = 1 /\ First(r).conn \in connMap
             /\ Todo'[Main][i].conn # First(r).conn =>
                  /\ Todo'[Main][i].conn \in connMap'
                  /\ registered'[Todo'[Main][i].conn] # "kAdded"
                  /\ newCalls'[Todo'[Main][i].conn] = 1
             /\ \A j \in 1..(i - 1) : Todo'[Main][j] # Todo'[Main][i]
<1> SUFFICES ASSUME NEW i \in 1..Len(Todo'[Main]),
                    Todo'[Main][i].op = "removeConnection"
             PROVE  /\ Todo'[Main][i].conn = First(r).conn =>
                         /\ First(r).op # "removeConnection"
                         /\ newCalls[First(r).conn] = 1
                         /\ First(r).conn \in connMap
                    /\ Todo'[Main][i].conn # First(r).conn =>
                         /\ Todo'[Main][i].conn \in connMap'
                         /\ registered'[Todo'[Main][i].conn] # "kAdded"
                         /\ newCalls'[Todo'[Main][i].conn] = 1
                    /\ \A j \in 1..(i - 1) : Todo'[Main][j] # Todo'[Main][i]
  OBVIOUS
<1> DEFINE k == i + Fewer(Main, r)
           g == Todo[Main][k]
<1>1. Todo \in [Reactors -> Seq(Functors)] /\ Main \in Reactors
  BY TodoType DEF Inv, Reactors
<1>2. /\ Fewer(Main, r) \in {0, 1} /\ Len(Todo[Main]) \in Nat
      /\ i \in Nat \ {0}
  BY <1>1 DEF Fewer, Ran
<1>3. i <= Len(Todo[Main]) - Fewer(Main, r)
  BY <1>1 DEF Ran
<1>4. /\ k \in 1..Len(Todo[Main])
      /\ \A j \in 1..i : j \in 1..(Len(Todo[Main]) - Fewer(Main, r))
      /\ \A j \in 1..(i - 1) : j + Fewer(Main, r) \in 1..(k - 1)
  BY <1>2, <1>3
<1>5. \A j \in 1..i : Todo'[Main][j] = Todo[Main][j + Fewer(Main, r)]
  BY <1>1, <1>4 DEF Ran
<1>6. Todo'[Main][i] = g
  BY <1>2, <1>5
<1> HIDE DEF k
<1>7. g \in Functors /\ g.conn \in Conns /\ g.op = "removeConnection"
  <2>1. g \in Functors
    BY <1>1, <1>4
  <2> QED
    BY <1>6, <2>1 DEF Functors
<1>8. /\ g.conn \in connMap /\ registered[g.conn] # "kAdded"
      /\ newCalls[g.conn] = 1
      /\ \A j \in 1..(k - 1) : Todo[Main][j] # g
  BY <1>4, <1>7 DEF Removals, Inv
<1>9. ASSUME NEW j \in 1..(i - 1)
      PROVE  Todo'[Main][j] # g
  <2>1. j \in 1..i /\ j + Fewer(Main, r) \in 1..(k - 1)
    BY <1>2, <1>4
  <2>2. Todo'[Main][j] = Todo[Main][j + Fewer(Main, r)]
    BY <1>5, <2>1
  <2> HIDE DEF g
  <2> QED
    BY <1>8, <2>1, <2>2
<1>10. ASSUME g.conn = First(r).conn, First(r).op = "removeConnection"
       PROVE  FALSE
  <2>1. r = Main /\ First(r) = g
    BY <1>7, <1>10, FirstFacts DEF Functors, Functor
  <2>2. k \in 2..Len(Todo[Main])
    BY <1>2, <1>4, <2>1 DEF k, Fewer
  <2> QED
    BY <1>8, <2>1, <2>2, 1 \in 1..(k - 1) DEF First
<1> HIDE DEF g
<1> QED
  BY <1>6, <1>7, <1>8, <1>9, <1>10

\* What a functor leaves alone.
LEMMA RunFrame ==
  ASSUME Inv, NEW r \in Reactors, RunFunctor(r)
  PROVE  /\ done' = [done EXCEPT ![r] = @ + 1] /\ done[r] < Len(batch[r])
         /\ UNCHANGED <<phase, stopped, active, current, batch, server, pool,
                        nextIndex, left, joined, owner, fd, peerClosed>>
         /\ \/ /\ First(r).op = "connectEstablished"
               /\ Establish(First(r).conn, r, fd[First(r).conn])
               /\ UNCHANGED <<connMap, queue>>
            \/ /\ First(r).op = "removeConnection" /\ r = Main
               /\ connMap' = connMap \ {First(r).conn}
               /\ Post(owner[First(r).conn], "connectDestroyed", First(r).conn)
               /\ UNCHANGED <<state, registered, eventMap, newCalls, finCalls>>
            \/ /\ First(r).op = "connectDestroyed"
               /\ Destroy(First(r).conn)
               /\ UNCHANGED <<connMap, queue>>
<1>1. First(r) = batch[r][done[r] + 1]
  BY FirstFacts
<1>2. First(r).op = "removeConnection" => r = Main
  BY FirstFacts
<1> QED
  BY <1>1, <1>2 DEF RunFunctor, serverVars, connVars, eventVars, Establish,
                    Destroy, Remove

\* The parts of the invariant that do not look at the functor.
LEMMA RunLoops ==
  ASSUME Inv, NEW r \in Reactors, RunFunctor(r),
         \A c \in Conns : registered'[c] = registered[c] \/ owner[c] = r
  PROVE  Phases' /\ Handled' /\ Joined'
<1> USE DEF Inv
<1>1. /\ UNCHANGED <<phase, active, current, batch, server, pool, left, joined,
                     owner>>
      /\ phase[r] = "functors" /\ active[r] = {}
      /\ done' = [done EXCEPT ![r] = @ + 1]
  BY RunFrame, FirstFacts
<1>2. Phases'
  BY <1>1 DEF Phases, TypeOK
<1>3. Handled'
  BY <1>1 DEF Handled
<1>4. Joined'
  BY <1>1 DEF Joined
<1> QED
  BY <1>2, <1>3, <1>4

LEMMA EstablishedStep ==
  ASSUME Inv, NEW r \in Reactors, RunFunctor(r),
         First(r).op = "connectEstablished"
  PROVE  Inv'
<1> USE DEF Inv
<1> DEFINE c == First(r).conn
           n == fd[First(r).conn]
<1>1. /\ c \in Refs /\ c \in Conns /\ owner[c] = r /\ newCalls[c] = 0
      /\ Todo[r] # <<>> /\ phase[r] = "functors"
      /\ First(r) = Functor("connectEstablished", c)
  BY FirstFacts
<1>2. /\ done' = [done EXCEPT ![r] = @ + 1] /\ done[r] < Len(batch[r])
      /\ UNCHANGED <<phase, stopped, active, current, batch, server, pool,
                     nextIndex, left, joined, owner, fd, peerClosed, connMap,
                     queue, finCalls>>
      /\ registered' = [registered EXCEPT ![c] = "kAdded"]
      /\ eventMap' = [eventMap EXCEPT ![r][n] = c]
      /\ state' = [state EXCEPT ![c] = "kConnected"]
      /\ newCalls' = [newCalls EXCEPT ![c] = @ + 1]
  BY RunFrame DEF Establish, handleNewEvent
<1> HIDE DEF c, n
<1>3. Todo' = [Todo EXCEPT ![r] = Tail(@)]
  BY <1>2, RunTodo
<1>4. Ran(r)
  BY <1>1, <1>3, RanAlone
<1>5. Refs' = Refs
  BY <1>2 DEF Refs, Referenced
<1>6. /\ registered'[c] = "kAdded" /\ state'[c] = "kConnected"
      /\ newCalls'[c] = 1 /\ finCalls[c] = 0
      /\ \A d \in Conns : d # c =>
           /\ registered'[d] = registered[d] /\ state'[d] = state[d]
           /\ newCalls'[d] = newCalls[d]
  <2>1. finCalls[c] = 0
    BY <1>1 DEF Calls, TypeOK
  <2>2. newCalls'[c] = 1 /\ \A d \in Conns : d # c => newCalls'[d] = newCalls[d]
    BY <1>1, <1>2 DEF TypeOK
  <2> QED
    BY <1>1, <1>2, <2>1, <2>2 DEF TypeOK
<1>7. n \in Fds
  BY <1>1, NoneAssumption DEF Descriptors, n, c, Reactors, Unseen
<1>8. TypeOK'
  <2>1. newCalls' \in [Conns -> Nat]
    BY <1>1, <1>2 DEF TypeOK
  <2>2. /\ registered' \in [Conns -> {"kNew", "kAdded", "kDeled"}]
        /\ state' \in [Conns -> {"kDisconnected", "kConnected"}]
    BY <1>2 DEF TypeOK
  <2>3. eventMap' \in [Reactors -> [Fds -> Conns \cup {None}]]
    BY <1>1, <1>2, <1>7 DEF TypeOK
  <2>4. /\ done' \in [Reactors -> Nat]
        /\ \A s \in Reactors : done'[s] <= Len(batch'[s])
    BY <1>2 DEF TypeOK
  <2> QED
    BY <1>2, <2>1, <2>2, <2>3, <2>4 DEF TypeOK
<1>9. Phases' /\ Handled' /\ Joined'
  BY <1>1, <1>6, RunLoops
<1>10. Unseen'
  BY <1>1, <1>2, <1>5, <1>6, OwnerType DEF Unseen
<1>11. Calls'
  BY <1>2, <1>6 DEF Calls
<1>12. Homes'
  BY <1>2, <1>4, <1>6, RanHomes DEF c
<1>13. Kept'
  <2> SUFFICES ASSUME NEW d \in Conns, owner[d] # None,
                      phase[owner[d]] # "exited"
               PROVE  /\ newCalls'[d] = 0 => Due("connectEstablished", d)'
                      /\ newCalls'[d] = 0 \/ registered'[d] # "kNew" =>
                           d \in connMap \/ Due("connectDestroyed", d)'
    BY <1>2 DEF Kept
  <2>1. owner[d] \in Reactors
    BY DEF TypeOK
  <2>2. \A op : Due(op, d) => Due(op, d)' \/ First(r) = Functor(op, d)
    BY <1>2, <1>4, <2>1, RanDue
  <2>3. CASE d = c
    <3>1. d \in connMap \/ Due("connectDestroyed", d)
      BY <1>1, <2>3 DEF Kept
    <3>2. First(r) # Functor("connectDestroyed", d)
      BY <1>1 DEF Functor
    <3> QED
      BY <1>6, <2>2, <2>3, <3>1, <3>2
  <2>4. CASE d # c
    <3>1. \A op : First(r) # Functor(op, d)
      BY <1>1, <2>4 DEF Functor
    <3> QED
      BY <1>6, <2>2, <2>4, <3>1 DEF Kept
  <2> QED
    BY <2>3, <2>4
<1>14. Removals'
  <2> SUFFICES ASSUME server = "started"
               PROVE  Removals'
    BY <1>2 DEF Removals
  <2>1. ASSUME NEW d \in Conns, owner[d] # None,
               newCalls'[d] = 0 \/ registered'[d] = "kAdded"
        PROVE  d \in connMap
    BY <1>1, <1>6, <2>1 DEF Removals
  <2>2. \A i \in 1..Len(Todo'[Main]) :
          Todo'[Main][i].op = "removeConnection" =>
            /\ Todo'[Main][i].conn # c
            /\ Todo'[Main][i].conn # c =>
                 /\ Todo'[Main][i].conn \in connMap'
                 /\ registered'[Todo'[Main][i].conn] # "kAdded"
                 /\ newCalls'[Todo'[Main][i].conn] = 1
            /\ \A j \in 1..(i - 1) : Todo'[Main][j] # Todo'[Main][i]
    BY <1>1, <1>2, <1>4, <1>6, RanRemovals DEF c
  <2> QED
    BY <1>2, <2>1, <2>2 DEF Removals
<1>15. Descriptors'
  BY <1>2, <1>5 DEF Descriptors
<1>16. Found'
  <2> SUFFICES ASSUME NEW d \in Conns, registered'[d] # "kNew"
               PROVE  eventMap'[owner[d]][fd[d]] = d
    BY <1>2 DEF Found
  <2>1. CASE d = c
    BY <1>1, <1>2, <1>7, <2>1 DEF TypeOK, c, n
  <2>2. CASE d # c
    <3>1. registered[d] # "kNew" /\ owner[d] # None
      BY <1>6, <2>2 DEF Unseen
    <3>2. owner[d] \in Reactors /\ fd[d] \in Fds
      BY <3>1 DEF TypeOK, Descriptors
    <3>3. owner[d] = r => fd[d] # n
      BY <1>1, <2>2, <3>1, RegisteredKept DEF Descriptors, n, c
    <3>4. eventMap'[owner[d]][fd[d]] = eventMap[owner[d]][fd[d]]
      BY <1>2, <1>7, <3>2, <3>3 DEF TypeOK
    <3> QED
      BY <3>1, <3>4 DEF Found
  <2> QED
    BY <2>1, <2>2
<1> QED
  BY <1>8, <1>9, <1>10, <1>11, <1>12, <1>13, <1>14, <1>15, <1>16

\* A removal posts the connectDestroyed of its connection.
LEMMA RemovedTodo ==
  ASSUME Inv, NEW r \in Reactors, RunFunctor(r),
         First(r).op = "removeConnection"
  PROVE  \E T : ThenPosted(T, r, owner[First(r).conn],
                          Functor("connectDestroyed", First(r).conn))
<1> USE DEF Inv
<1> DEFINE c == First(r).conn
           q == owner[First(r).conn]
           f == Functor("connectDestroyed", First(r).conn)
           T == [Todo EXCEPT ![r] = Tail(@)]
<1>1. /\ c \in Conns /\ q \in Reactors /\ Todo[r] # <<>>
      /\ done' = [done EXCEPT ![r] = @ + 1] /\ done[r] < Len(batch[r])
      /\ UNCHANGED batch
      /\ Post(q, "connectDestroyed", c)
  BY FirstFacts, RunFrame
<1>2. f \in Functors /\ f.op = "connectDestroyed" /\ f.conn = c
  BY <1>1 DEF Functor, Functors
<1>3. Todo' = [T EXCEPT ![q] = Append(@, f)]
  <2> HIDE DEF c, q
  <2>1. \A s \in Reactors : \A op, d :
          Functor(op, d) \in Functors /\ Post(s, op, d) =>
            Todo' = [[Todo EXCEPT ![r] = Tail(@)]
                       EXCEPT ![s] = Append(@, Functor(op, d))]
    BY <1>1, RunTodo
  <2> QED
    BY <1>1, <1>2, <2>1 DEF c
<1>4. /\ T \in [Reactors -> Seq(Functors)]
      /\ Len(T[r]) = Len(Todo[r]) - 1
      /\ \A i \in 1..(Len(Todo[r]) - 1) : T[r][i] = Todo[r][i + 1]
      /\ \A s \in Reactors : s # r => T[s] = Todo[s]
  BY <1>1, TodoType, OneLess
<1>5. owner[f.conn] = q
  BY <1>2
<1> HIDE DEF f, T, q
<1>6. ThenPosted(T, r, q, f)
  BY <1>2, <1>3, <1>4, <1>5 DEF ThenPosted
<1> QED
  BY <1>6 DEF q, f

LEMMA RemovedStep ==
  ASSUME Inv, NEW r \in Reactors, RunFunctor(r),
         First(r).op = "removeConnection"
  PROVE  Inv'
<1> USE DEF Inv
<1> DEFINE c == First(r).conn
           q == owner[First(r).conn]
           f == Functor("connectDestroyed", First(r).conn)
<1>1. /\ c \in Refs /\ c \in Conns /\ q \in Reactors /\ r = Main
      /\ Todo[r] # <<>> /\ phase[r] = "functors" /\ Len(Todo[r]) \in Nat \ {0}
      /\ First(r) = Functor("removeConnection", c)
  BY FirstFacts
<1>2. /\ done' = [done EXCEPT ![r] = @ + 1] /\ done[r] < Len(batch[r])
      /\ UNCHANGED <<phase, stopped, active, current, batch, server, pool,
                     nextIndex, left, joined, owner, fd, peerClosed, state,
                     registered, eventMap, newCalls, finCalls>>
      /\ connMap' = connMap \ {c}
      /\ Post(q, "connectDestroyed", c)
  BY RunFrame
<1>3. f \in Functors /\ f.op = "connectDestroyed" /\ f.conn = c
  BY <1>1 DEF Functor, Functors
<1> HIDE DEF c, q
<1>4. f = Functor("connectDestroyed", c) /\ q = owner[c]
  BY DEF c, q
<1>5. server = "started" /\ left = {}
  BY <1>1 DEF Joined, TypeOK
<1>6. PICK T : ThenPosted(T, r, q, f)
  BY <1>4, RemovedTodo DEF c
<1>7. Ran(r) /\ \E i \in 1..Len(Todo'[q]) : Todo'[q][i] = f
  <2> HIDE DEF f
  <2> QED
    BY <1>1, <1>6, RanPosting
<1>8. Refs' \subseteq Refs
  <2>1. Refs' \subseteq Refs \cup {c}
    BY <1>1, <1>2, <1>3, <1>4, PostRefs
  <2> QED
    BY <1>1, <2>1
<1>9. registered[c] # "kAdded" /\ newCalls[c] = 1
  BY <1>1, <1>5, 1 \in 1..Len(Todo[Main]) DEF Removals, First, c
<1> HIDE DEF f
<1>10. TypeOK'
  <2>1. queue' \in [Reactors -> Seq(Functors)]
    <3>1. queue' = [queue EXCEPT ![q] = Append(@, f)]
      BY <1>2, <1>4 DEF Post
    <3>2. queue \in [Reactors -> Seq(Functors)]
      BY DEF TypeOK
    <3> QED
      BY <1>1, <1>3, <3>1, <3>2
  <2>2. /\ done' \in [Reactors -> Nat]
        /\ \A s \in Reactors : done'[s] <= Len(batch'[s])
    BY <1>2 DEF TypeOK
  <2>3. connMap' \subseteq Conns /\ left' \subseteq connMap'
    BY <1>2, <1>5 DEF TypeOK
  <2> QED
    BY <1>2, <2>1, <2>2, <2>3 DEF TypeOK
<1>11. Phases' /\ Handled' /\ Joined'
  BY <1>2, RunLoops
<1>12. Unseen'
  BY <1>2, <1>8 DEF Unseen
<1>13. Calls'
  BY <1>2 DEF Calls
<1>14. Homes'
  BY <1>2, <1>7, RanHomes
<1>15. Kept'
  <2> SUFFICES ASSUME NEW d \in Conns, owner[d] # None,
                      phase[owner[d]] # "exited"
               PROVE  /\ newCalls[d] = 0 => Due("connectEstablished", d)'
                      /\ newCalls[d] = 0 \/ registered[d] # "kNew" =>
                           d \in connMap' \/ Due("connectDestroyed", d)'
    BY <1>2 DEF Kept
  <2>1. owner[d] \in Reactors
    BY DEF TypeOK
  <2>2. \A op : Due(op, d) => Due(op, d)' \/ First(r) = Functor(op, d)
    BY <1>2, <1>7, <2>1, RanDue
  <2>3. /\ First(r) # Functor("connectEstablished", d)
        /\ First(r) # Functor("connectDestroyed", d)
    BY <1>1 DEF Functor
  <2>4. d = c => Due("connectDestroyed", d)'
    BY <1>2, <1>4, <1>7 DEF Due, Functor
  <2> QED
    BY <1>2, <2>2, <2>3, <2>4 DEF Kept
<1>16. Removals'
  <2>1. ASSUME NEW d \in Conns, owner[d] # None,
               newCalls[d] = 0 \/ registered[d] = "kAdded"
        PROVE  d \in connMap'
    BY <1>2, <1>5, <1>9, <2>1 DEF Removals
  <2>2. \A d \in Conns : connMap' \cap {d} = connMap \cap {d} \/ d = c
    BY <1>2
  <2>3. \A i \in 1..Len(Todo'[Main]) :
          Todo'[Main][i].op = "removeConnection" =>
            /\ Todo'[Main][i].conn # c
            /\ Todo'[Main][i].conn # c =>
                 /\ Todo'[Main][i].conn \in connMap'
                 /\ registered'[Todo'[Main][i].conn] # "kAdded"
                 /\ newCalls'[Todo'[Main][i].conn] = 1
            /\ \A j \in 1..(i - 1) : Todo'[Main][j] # Todo'[Main][i]
    BY <1>2, <1>5, <1>7, <2>2, RanRemovals DEF c
  <2> QED
    BY <1>2, <2>1, <2>3 DEF Removals
<1>17. Descriptors'
  BY <1>2, <1>8 DEF Descriptors
<1>18. Found'
  BY <1>2 DEF Found
<1> QED
  BY <1>10, <1>11, <1>12, <1>13, <1>14, <1>15, <1>16, <1>17, <1>18

LEMMA DestroyedStep ==
  ASSUME Inv, NEW r \in Reactors, RunFunctor(r),
         First(r).op = "connectDestroyed"
  PROVE  Inv'
<1> USE DEF Inv
<1> DEFINE c == First(r).conn
           n == fd[First(r).conn]
<1>1. /\ c \in Refs /\ c \in Conns /\ owner[c] = r /\ owner[c] # None
      /\ Todo[r] # <<>> /\ phase[r] = "functors"
      /\ First(r) = Functor("connectDestroyed", c)
  BY FirstFacts
<1>2. /\ done' = [done EXCEPT ![r] = @ + 1] /\ done[r] < Len(batch[r])
      /\ UNCHANGED <<phase, stopped, active, current, batch, server, pool,
                     nextIndex, left, joined, owner, fd, peerClosed, connMap,
                     queue, newCalls>>
      /\ registered' = [registered EXCEPT ![c] = "kNew"]
      /\ eventMap' = [eventMap EXCEPT ![owner[c]][n] = None]
      /\ state' = [state EXCEPT ![c] = "kDisconnected"]
      /\ finCalls' = [finCalls EXCEPT
                        ![c] = IF state[c] = "kConnected" THEN @ + 1 ELSE @]
  BY RunFrame DEF Destroy, unregisterEvent
<1> HIDE DEF c, n
<1>3. Todo' = [Todo EXCEPT ![r] = Tail(@)]
  BY <1>2, RunTodo
<1>4. Ran(r)
  BY <1>1, <1>3, RanAlone
<1>5. Refs' = Refs
  BY <1>2 DEF Refs, Referenced
<1>6. /\ registered'[c] = "kNew" /\ state'[c] = "kDisconnected"
      /\ \A d \in Conns : d # c =>
           /\ registered'[d] = registered[d] /\ state'[d] = state[d]
           /\ finCalls'[d] = finCalls[d]
  BY <1>1, <1>2 DEF TypeOK
<1>7. n \in Fds
  BY <1>1 DEF Descriptors, n, c
<1>8. TypeOK'
  <2>1. finCalls' \in [Conns -> Nat]
    BY <1>1, <1>2 DEF TypeOK
  <2>2. /\ registered' \in [Conns -> {"kNew", "kAdded", "kDeled"}]
        /\ state' \in [Conns -> {"kDisconnected", "kConnected"}]
    BY <1>2 DEF TypeOK
  <2>3. eventMap' \in [Reactors -> [Fds -> Conns \cup {None}]]
    BY <1>1, <1>2, <1>7 DEF TypeOK
  <2>4. /\ done' \in [Reactors -> Nat]
        /\ \A s \in Reactors : done'[s] <= Len(batch'[s])
    BY <1>2 DEF TypeOK
  <2> QED
    BY <1>2, <2>1, <2>2, <2>3, <2>4 DEF TypeOK
<1>9. Phases' /\ Handled' /\ Joined'
  BY <1>1, <1>6, RunLoops
<1>10. Unseen'
  BY <1>1, <1>2, <1>5, <1>6 DEF Unseen
<1>11. Calls'
  <2>1. finCalls'[c] <= newCalls[c]
    BY <1>1, <1>2 DEF Calls, TypeOK
  <2> QED
    BY <1>2, <1>6, <2>1 DEF Calls
<1>12. Homes'
  BY <1>2, <1>4, RanHomes
<1>13. Kept'
  <2> SUFFICES ASSUME NEW d \in Conns, owner[d] # None,
                      phase[owner[d]] # "exited"
               PROVE  /\ newCalls[d] = 0 => Due("connectEstablished", d)'
                      /\ newCalls[d] = 0 \/ registered'[d] # "kNew" =>
                           d \in connMap \/ Due("connectDestroyed", d)'
    BY <1>2 DEF Kept
  <2>1. owner[d] \in Reactors
    BY DEF TypeOK
  <2>2. \A op : Due(op, d) => Due(op, d)' \/ First(r) = Functor(op, d)
    BY <1>2, <1>4, <2>1, RanDue
  <2>3. CASE d = c
    <3>1. newCalls[d] # 0
      <4> SUFFICES ASSUME newCalls[d] = 0 PROVE FALSE
        OBVIOUS
      <4>1. PICK i \in 1..Len(Todo[r]) :
                   Todo[r][i] = Functor("connectEstablished", d)
        BY <1>1, <2>3 DEF Kept, Due
      <4>2. i # 1
        BY <1>1, <4>1 DEF First, Functor
      <4>3. i \in 2..Len(Todo[r])
        BY <4>2
      <4> QED
        BY <2>3, <4>1, <4>3, FirstFacts DEF c, Functor
    <3> QED
      BY <1>6, <2>3, <3>1
  <2>4. CASE d # c
    <3>1. \A op : First(r) # Functor(op, d)
      BY <1>1, <2>4 DEF Functor
    <3> QED
      BY <1>6, <2>2, <2>4, <3>1 DEF Kept
  <2> QED
    BY <2>3, <2>4
<1>14. Removals'
  <2> SUFFICES ASSUME server = "started"
               PROVE  Removals'
    BY <1>2 DEF Removals
  <2>1. ASSUME NEW d \in Conns, owner[d] # None,
               newCalls[d] = 0 \/ registered'[d] = "kAdded"
        PROVE  d \in connMap
    BY <1>6, <2>1 DEF Removals
  <2>2. \A i \in 1..Len(Todo'[Main]) :
          Todo'[Main][i].op = "removeConnection" =>
            /\ Todo'[Main][i].conn = c => newCalls[c] = 1 /\ c \in connMap
            /\ Todo'[Main][i].conn # c =>
                 /\ Todo'[Main][i].conn \in connMap'
                 /\ registered'[Todo'[Main][i].conn] # "kAdded"
                 /\ newCalls'[Todo'[Main][i].conn] = 1
            /\ \A j \in 1..(i - 1) : Todo'[Main][j] # Todo'[Main][i]
    BY <1>1, <1>2, <1>4, <1>6, RanRemovals DEF c
  <2> QED
    BY <1>2, <1>6, <2>1, <2>2 DEF Removals
<1>15. Descriptors'
  BY <1>2, <1>5 DEF Descriptors
<1>16. Found'
  <2> SUFFICES ASSUME NEW d \in Conns, registered'[d] # "kNew"
               PROVE  eventMap'[owner[d]][fd[d]] = d
    BY <1>2 DEF Found
  <2>1. d # c /\ registered[d] # "kNew" /\ owner[d] # None
    BY <1>6 DEF Unseen
  <2>2. owner[d] \in Reactors /\ fd[d] \in Fds
    BY <2>1 DEF TypeOK, Descriptors
  <2>3. owner[d] = r => fd[d] # n
    BY <1>1, <2>1, RegisteredKept DEF Descriptors, n, c
  <2>4. eventMap'[owner[d]][fd[d]] = eventMap[owner[d]][fd[d]]
    BY <1>1, <1>2, <1>7, <2>2, <2>3 DEF TypeOK
  <2> QED
    BY <2>1, <2>4 DEF Found
<1> QED
  BY <1>8, <1>9, <1>10, <1>11, <1>12, <1>13, <1>14, <1>15, <1>16

-----------------------------------------------------------------------------
(* The invariant holds.                                                    *)

LEMMA InitInv == Init => Inv
<1> SUFFICES ASSUME Init PROVE Inv
  OBVIOUS
<1> USE DEF Init
<1>1. \A r \in Reactors : queue[r] = <<>> /\ batch[r] = <<>> /\ done[r] = 0
  OBVIOUS
<1>2. /\ queue \in [Reactors -> Seq(Functors)]
      /\ batch \in [Reactors -> Seq(Functors)]
  BY <1>1
<1>3. pool \in Seq(Range(Subs))
  <2>1. PICK n \in SubNums : pool = SubSeq(Subs, 1, n)
    OBVIOUS
  <2>2. n \in 0..Len(Subs) /\ Subs \in Seq(Range(Subs))
    BY SubsAssumption
  <2> DEFINE S == Range(Subs)
  <2> HIDE DEF S
  <2>3. SubSeq(Subs, 1, n) \in Seq(S)
    BY <2>2 DEF S
  <2> QED
    BY <2>1, <2>3 DEF S
<1>4. \A r \in Reactors : Todo[r] = <<>>
  <2>1. <<>> \in Seq(Functors)
    OBVIOUS
  <2>2. Rest(<<>>, 0, <<>>) = <<>>
    BY <2>1, RestOfQueue
  <2> QED
    BY <1>1, <2>2 DEF Todo
<1>5. Refs = {}
  BY <1>1 DEF Refs, Referenced, Range
<1>6. TypeOK
  <2>1. fd \in [Conns -> 0..Cardinality(Conns)]
    BY NoneAssumption, FS_CardinalityType
  <2>2. joined \in 0..Len(pool)
    BY <1>3
  <2> QED
    BY <1>1, <1>2, <1>3, <2>1, <2>2 DEF TypeOK
<1>7. Phases /\ Handled /\ Unseen /\ Calls
  BY <1>5 DEF Phases, Handled, Unseen, Calls
<1>8. Homes /\ Kept /\ Descriptors /\ Found
  BY <1>4, <1>5 DEF Homes, Kept, Descriptors, Found
<1>9. Removals /\ Joined
  BY <1>4, Main \in Reactors DEF Removals, Joined, Reactors
<1> QED
  BY <1>6, <1>7, <1>8, <1>9 DEF Inv

LEMMA NextInv == Inv /\ [Next]_vars => Inv'
<1> SUFFICES ASSUME Inv, [Next]_vars PROVE Inv'
  OBVIOUS
<1>1. ASSUME NEW r \in Reactors, RunFunctor(r)
      PROVE  Inv'
  <2>1. First(r).op \in {"connectEstablished", "removeConnection",
                         "connectDestroyed"}
    BY <1>1, FirstFacts DEF Functors
  <2> QED
    BY <1>1, <2>1, EstablishedStep, RemovedStep, DestroyedStep
<1>2. ASSUME NEW r \in Reactors, LoopStep(r)
      PROVE  Inv'
  BY <1>1, <1>2, LightSteps, MovingSteps, HandleCloseStep,
     HandleNewConnectionStep DEF LoopStep
<1>3. ASSUME DtorStep
      PROVE  Inv'
  BY <1>3, LightSteps, DtorConnectionStep DEF DtorStep
<1> QED
  BY <1>2, <1>3, LightSteps DEF Next

-----------------------------------------------------------------------------
(* What the invariant does not need, and the assertions do.                *)

\* In this step every reactor loses at most the first of the functors that it
\* has still to execute, or all, and f is the only one that may be posted.
Moves(f) ==
  \A s \in Reactors : \E k \in {0, 1} : \A i \in 1..Len(Todo'[s]) :
    \/ i + k <= Len(Todo[s]) /\ Todo'[s][i] = Todo[s][i + k]
    \/ i + k = Len(Todo[s]) + 1 /\ Todo'[s][i] = f

LEMMA MovesNone ==
  ASSUME TypeOK, NEW f,
         \A s \in Reactors : Todo'[s] = Todo[s] \/ Todo'[s] = <<>>
  PROVE  Moves(f)
<1> SUFFICES ASSUME NEW s \in Reactors
             PROVE  \A i \in 1..Len(Todo'[s]) :
                      i + 0 <= Len(Todo[s]) /\ Todo'[s][i] = Todo[s][i + 0]
  BY DEF Moves
<1>1. Todo[s] \in Seq(Functors)
  BY TodoType
<1> QED
  BY <1>1

LEMMA MovesPosted ==
  ASSUME TypeOK, NEW r \in Reactors, NEW f \in Functors,
         Todo' = [Todo EXCEPT ![r] = Append(@, f)]
  PROVE  Moves(f)
<1>1. Todo \in [Reactors -> Seq(Functors)]
  BY TodoType
<1>2. /\ Len(Todo'[r]) = Len(Todo[r]) + 1 /\ Todo'[r][Len(Todo[r]) + 1] = f
      /\ \A i \in 1..Len(Todo[r]) : Todo'[r][i] = Todo[r][i]
      /\ \A s \in Reactors : s # r => Todo'[s] = Todo[s]
  BY <1>1, OneMore
<1> SUFFICES ASSUME NEW s \in Reactors
             PROVE  \A i \in 1..Len(Todo'[s]) :
                      \/ /\ i + 0 <= Len(Todo[s])
                         /\ Todo'[s][i] = Todo[s][i + 0]
                      \/ i + 0 = Len(Todo[s]) + 1 /\ Todo'[s][i] = f
  BY DEF Moves
<1>3. Len(Todo[s]) \in Nat
  BY <1>1
<1>4. CASE s = r
  BY <1>2, <1>3, <1>4
<1>5. CASE s # r
  BY <1>2, <1>3, <1>5
<1> QED
  BY <1>4, <1>5

LEMMA MovesRun ==
  ASSUME TypeOK, NEW r \in Reactors, Todo[r] # <<>>, NEW f,
         Todo' = [Todo EXCEPT ![r] = Tail(@)]
  PROVE  Moves(f)
<1>1. Todo \in [Reactors -> Seq(Functors)]
  BY TodoType
<1>2. /\ Len(Todo[r]) \in Nat \ {0} /\ Len(Todo'[r]) = Len(Todo[r]) - 1
      /\ \A i \in 1..(Len(Todo[r]) - 1) : Todo'[r][i] = Todo[r][i + 1]
      /\ \A s \in Reactors : s # r => Todo'[s] = Todo[s]
  BY <1>1, OneLess
<1> SUFFICES ASSUME NEW s \in Reactors
             PROVE  \E k \in {0, 1} : \A i \in 1..Len(Todo'[s]) :
                      i + k <= Len(Todo[s]) /\ Todo'[s][i] = Todo[s][i + k]
  BY DEF Moves
<1>3. CASE s = r
  <2>1. \A i \in 1..Len(Todo'[s]) :
          i + 1 <= Len(Todo[s]) /\ Todo'[s][i] = Todo[s][i + 1]
    BY <1>2, <1>3
  <2> QED
    BY <2>1
<1>4. CASE s # r
  <2>1. Len(Todo[s]) \in Nat
    BY <1>1
  <2>2. \A i \in 1..Len(Todo'[s]) :
          i + 0 <= Len(Todo[s]) /\ Todo'[s][i] = Todo[s][i + 0]
    BY <1>2, <1>4, <2>1
  <2> QED
    BY <2>2
<1> QED
  BY <1>3, <1>4

LEMMA MovesRunPosting ==
  ASSUME TypeOK, NEW r \in Reactors, Todo[r] # <<>>,
         NEW q \in Reactors, NEW f, NEW T, ThenPosted(T, r, q, f)
  PROVE  Moves(f)
<1>1. Todo \in [Reactors -> Seq(Functors)]
  BY TodoType
<1>2. /\ T \in [Reactors -> Seq(Functors)] /\ f \in Functors
      /\ Len(T[r]) = Len(Todo[r]) - 1
      /\ \A i \in 1..(Len(Todo[r]) - 1) : T[r][i] = Todo[r][i + 1]
      /\ \A s \in Reactors : s # r => T[s] = Todo[s]
      /\ Todo' = [T EXCEPT ![q] = Append(@, f)]
  BY DEF ThenPosted
<1>3. \A s \in Reactors : Len(Todo[s]) \in Nat /\ Len(T[s]) \in Nat
  BY <1>1, <1>2
<1> DEFINE U == Todo'
<1>4. U = [T EXCEPT ![q] = Append(@, f)]
  BY <1>2
<1> HIDE DEF U
<1>5. /\ Len(U[q]) = Len(T[q]) + 1 /\ U[q][Len(T[q]) + 1] = f
      /\ \A i \in 1..Len(T[q]) : U[q][i] = T[q][i]
      /\ \A s \in Reactors : s # q => U[s] = T[s]
  BY <1>2, <1>4, OneMore
<1>6. \A s \in Reactors : \A i \in 1..Len(U[s]) :
        \/ i <= Len(T[s]) /\ U[s][i] = T[s][i]
        \/ i = Len(T[s]) + 1 /\ U[s][i] = f
  <2> TAKE s \in Reactors
  <2>1. CASE s = q
    BY <1>3, <1>5, <2>1
  <2>2. CASE s # q
    BY <1>3, <1>5, <2>2
  <2> QED
    BY <2>1, <2>2
<1>7. ASSUME NEW s \in Reactors
      PROVE  \E k \in {0, 1} : \A i \in 1..Len(U[s]) :
               \/ i + k <= Len(Todo[s]) /\ U[s][i] = Todo[s][i + k]
               \/ i + k = Len(Todo[s]) + 1 /\ U[s][i] = f
  <2>1. CASE s = r
    <3>1. ASSUME NEW i \in 1..Len(U[s])
          PROVE  \/ i + 1 <= Len(Todo[s]) /\ U[s][i] = Todo[s][i + 1]
                 \/ i + 1 = Len(Todo[s]) + 1 /\ U[s][i] = f
      <4>1. /\ i \in Nat \ {0} /\ Len(T[s]) = Len(Todo[s]) - 1
            /\ Len(T[s]) \in Nat /\ Len(Todo[s]) \in Nat
        BY <1>2, <1>3, <2>1
      <4>2. CASE i <= Len(T[s]) /\ U[s][i] = T[s][i]
        <5>1. i \in 1..(Len(Todo[r]) - 1)
          BY <2>1, <4>1, <4>2
        <5>2. T[s][i] = Todo[s][i + 1]
          BY <1>2, <2>1, <5>1
        <5> QED
          BY <4>1, <4>2, <5>2
      <4>3. CASE i = Len(T[s]) + 1 /\ U[s][i] = f
        BY <4>1, <4>3
      <4> QED
        BY <1>6, <4>2, <4>3
    <3> QED
      BY <3>1
  <2>2. CASE s # r
    <3>1. \A i \in 1..Len(U[s]) :
            \/ i + 0 <= Len(Todo[s]) /\ U[s][i] = Todo[s][i + 0]
            \/ i + 0 = Len(Todo[s]) + 1 /\ U[s][i] = f
      <4>1. T[s] = Todo[s]
        BY <1>2, <2>2
      <4> SUFFICES ASSUME NEW i \in 1..Len(U[s])
                   PROVE  \/ i + 0 <= Len(Todo[s]) /\ U[s][i] = Todo[s][i + 0]
                          \/ i + 0 = Len(Todo[s]) + 1 /\ U[s][i] = f
        OBVIOUS
      <4>2. i \in Int /\ i + 0 = i
        OBVIOUS
      <4>3. \/ i <= Len(Todo[s]) /\ U[s][i] = Todo[s][i]
            \/ i = Len(Todo[s]) + 1 /\ U[s][i] = f
        BY <1>6, <4>1
      <4> QED
        BY <4>2, <4>3
    <3> QED
      BY <3>1
  <2> QED
    BY <2>1, <2>2
<1> QED
  BY <1>7 DEF U, Moves

\* Whole(c)', also of a c that has a prime.
WholeNext(c) == newCalls'[c] = 0 \/ registered'[c] # "kNew"

\* The connection is not in the map, nor to be destroyed any more.
Gone(c) ==
  /\ c \notin connMap'
  /\ \A s \in Reactors : \A i \in 1..Len(Todo'[s]) :
       Todo'[s][i] # Functor("connectDestroyed", c)

LEMMA EndsKept ==
  ASSUME Inv, Inv', Ends, NEW f, Moves(f),
         f.op = "connectDestroyed" => f.conn \in connMap \ connMap',
         \A c \in connMap' : c \in connMap \/ (c \notin Refs /\ WholeNext(c)),
         \A c \in Conns : Whole(c) => WholeNext(c) \/ Gone(c)
  PROVE  Ends'
<1>1. /\ Todo \in [Reactors -> Seq(Functors)]
      /\ Todo' \in [Reactors -> Seq(Functors)]
  <2>1. \A r \in Reactors :
          /\ batch'[r] \in Seq(Functors) /\ queue'[r] \in Seq(Functors)
          /\ done'[r] \in 0..Len(batch'[r])
    BY DEF Inv, TypeOK
  <2>2. \A r \in Reactors :
          Rest(batch'[r], done'[r], queue'[r]) \in Seq(Functors)
    BY <2>1, RestType
  <2> QED
    BY <2>2, TodoType DEF Inv, Todo
<1>2. connMap \subseteq Conns /\ connMap' \subseteq Conns
  BY DEF Inv, TypeOK
<1>3. ASSUME NEW c \in connMap'
      PROVE  WholeNext(c)
  <2>1. c \in Conns /\ ~Gone(c)
    BY <1>2, <1>3 DEF Gone
  <2>2. c \in connMap => Whole(c)
    BY DEF Ends
  <2> QED
    BY <1>3, <2>1, <2>2
<1>4. ASSUME NEW s \in Reactors, NEW i \in 1..Len(Todo'[s]),
             Todo'[s][i].op = "connectDestroyed"
      PROVE  /\ Todo'[s][i].conn \notin connMap' /\ WholeNext(Todo'[s][i].conn)
             /\ \A j \in 1..(i - 1) : Todo'[s][j] # Todo'[s][i]
  <2> DEFINE g == Todo'[s][i]
  <2>1. g \in Functors
    BY <1>1
  <2>2. g.conn \in Conns /\ g = Functor("connectDestroyed", g.conn)
    BY <1>4, <2>1 DEF Functors, Functor
  <2>3. PICK k \in {0, 1} : \A j \in 1..Len(Todo'[s]) :
          \/ j + k <= Len(Todo[s]) /\ Todo'[s][j] = Todo[s][j + k]
          \/ j + k = Len(Todo[s]) + 1 /\ Todo'[s][j] = f
    BY DEF Moves
  <2>4. /\ i \in Nat \ {0} /\ Len(Todo[s]) \in Nat /\ Len(Todo'[s]) \in Nat
        /\ \A j \in 1..i : j \in 1..Len(Todo'[s]) /\ j + k \in 1..(i + k)
        /\ \A j \in 1..(i - 1) : j \in 1..i /\ j + k \in 1..((i + k) - 1)
    BY <1>1
  <2>5. ~Gone(g.conn)
    BY <2>2 DEF Gone
  <2> HIDE DEF g
  <2>6. g = Todo'[s][i] /\ g.op = "connectDestroyed" /\ i \in 1..i
    BY <1>4, <2>4 DEF g
  <2>7. CASE i + k <= Len(Todo[s]) /\ g = Todo[s][i + k]
    <3>1. i + k \in 1..Len(Todo[s])
      BY <2>3, <2>4, <2>7
    <3>2. /\ g.conn \notin connMap /\ Whole(g.conn)
          /\ \A j \in 1..((i + k) - 1) : Todo[s][j] # g
      BY <2>6, <2>7, <3>1 DEF Ends
    <3>3. g.conn \in Refs
      <4>1. Todo[s][i + k].conn \in Refs
        <5> DEFINE m == i + k
        <5> HIDE DEF m
        <5>1. m \in 1..Len(Todo[s])
          BY <3>1 DEF m
        <5>2. Todo[s][m].conn \in Refs
          BY <5>1, TodoKeeps DEF Inv
        <5> QED
          BY <5>2 DEF m
      <4> QED
        BY <2>7, <4>1
    <3>4. g.conn \notin connMap'
      BY <3>2, <3>3
    <3>5. WholeNext(g.conn)
      BY <2>2, <2>5, <3>2
    <3>6. ASSUME NEW j \in 1..(i - 1)
          PROVE  Todo'[s][j] # g
      <4>1. j \in 1..Len(Todo'[s]) /\ j + k \in 1..((i + k) - 1)
        BY <2>4
      <4>2. j + k <= Len(Todo[s]) /\ j + k # Len(Todo[s]) + 1
        BY <2>3, <2>4, <2>7, <4>1
      <4> QED
        BY <2>3, <3>2, <4>1, <4>2
    <3> QED
      BY <2>6, <3>4, <3>5, <3>6 DEF g
  <2>8. CASE i + k = Len(Todo[s]) + 1 /\ g = f
    <3>1. g.conn \in connMap /\ g.conn \notin connMap'
      BY <2>6, <2>8
    <3>2. WholeNext(g.conn)
      BY <2>2, <2>5, <3>1 DEF Ends
    <3>3. ASSUME NEW j \in 1..(i - 1)
          PROVE  Todo'[s][j] # g
      <4>1. j \in 1..Len(Todo'[s]) /\ j + k \in 1..((i + k) - 1)
        BY <2>4
      <4>2. j + k \in 1..Len(Todo[s]) /\ j + k # Len(Todo[s]) + 1
        BY <2>3, <2>4, <2>8, <4>1
      <4>3. Todo'[s][j] = Todo[s][j + k]
        BY <2>3, <4>1, <4>2
      <4> QED
        BY <2>6, <3>1, <4>2, <4>3 DEF Ends
    <3> QED
      BY <2>6, <3>1, <3>2, <3>3 DEF g
  <2> QED
    <3>1. i \in 1..Len(Todo'[s])
      OBVIOUS
    <3> QED
      BY <2>3, <2>6, <2>7, <2>8, <3>1 DEF g
<1>5. /\ \A c \in connMap' : newCalls'[c] = 0 \/ registered'[c] # "kNew"
      /\ \A r \in Reactors : \A i \in 1..Len(Todo'[r]) :
           Todo'[r][i].op = "connectDestroyed" =>
             /\ Todo'[r][i].conn \notin connMap'
             /\ \/ newCalls'[Todo'[r][i].conn] = 0
                \/ registered'[Todo'[r][i].conn] # "kNew"
             /\ \A j \in 1..(i - 1) : Todo'[r][j] # Todo'[r][i]
  BY <1>3, <1>4 DEF WholeNext
<1> QED
  BY <1>5 DEF Ends, Whole

\* The steps of which the assertions see nothing.
LEMMA StillEnds ==
  ASSUME Inv, Inv', Ends,
         \A s \in Reactors : Todo'[s] = Todo[s] \/ Todo'[s] = <<>>,
         UNCHANGED <<connMap, registered, newCalls>>
  PROVE  Ends'
<1> DEFINE f == Functor("none", None)
<1>1. Moves(f)
  BY MovesNone DEF Inv
<1>2. f.op # "connectDestroyed"
  BY DEF Functor
<1>3. \A c \in Conns : Whole(c) => WholeNext(c)
  BY DEF Whole, WholeNext
<1> HIDE DEF f
<1> QED
  BY <1>1, <1>2, <1>3, EndsKept

LEMMA EndsRun ==
  ASSUME Inv, Inv', Ends, NEW r \in Reactors, RunFunctor(r)
  PROVE  Ends'
<1> USE DEF Inv
<1> DEFINE c == First(r).conn
<1>1. /\ c \in Refs /\ c \in Conns /\ owner[c] \in Reactors
      /\ Todo[r] # <<>> /\ Len(Todo[r]) \in Nat \ {0}
      /\ First(r) = Functor(First(r).op, c)
      /\ done' = [done EXCEPT ![r] = @ + 1] /\ done[r] < Len(batch[r])
      /\ UNCHANGED batch
  BY FirstFacts, RunFrame
<1>2. CASE First(r).op = "connectEstablished"
  <2>1. /\ UNCHANGED <<connMap, queue>>
        /\ registered' = [registered EXCEPT ![c] = "kAdded"]
        /\ newCalls' = [newCalls EXCEPT ![c] = @ + 1]
    BY <1>2, RunFrame DEF Establish, handleNewEvent
  <2> HIDE DEF c
  <2>2. Todo' = [Todo EXCEPT ![r] = Tail(@)]
    BY <1>1, <2>1, RunTodo
  <2> DEFINE f == Functor("none", None)
  <2>3. Moves(f)
    BY <1>1, <2>2, MovesRun
  <2>4. f.op # "connectDestroyed"
    BY DEF Functor
  <2>5. \A d \in Conns : Whole(d) => WholeNext(d)
    BY <1>1, <2>1 DEF Whole, WholeNext, TypeOK
  <2> HIDE DEF f
  <2> QED
    BY <2>1, <2>3, <2>4, <2>5, EndsKept
<1>3. CASE First(r).op = "removeConnection"
  <2> DEFINE f == Functor("connectDestroyed", c)
             q == owner[c]
  <2>1. /\ r = Main /\ connMap' = connMap \ {c}
        /\ UNCHANGED <<registered, newCalls>>
    BY <1>3, RunFrame
  <2>2. PICK T : ThenPosted(T, r, q, f)
    BY <1>3, RemovedTodo
  <2>3. f.conn = c /\ c \in connMap
    <3>1. server = "started"
      BY <1>1, <2>1, FirstFacts DEF Joined, TypeOK
    <3>2. 1 \in 1..Len(Todo[Main]) /\ Todo[Main][1] = First(r)
      BY <1>1, <2>1 DEF First
    <3>3. Todo[Main][1].conn \in connMap
      BY <1>3, <3>1, <3>2 DEF Removals
    <3> QED
      BY <3>2, <3>3 DEF Functor
  <2>4. \A d \in Conns : Whole(d) => WholeNext(d)
    BY <2>1 DEF Whole, WholeNext
  <2> HIDE DEF f, c, q
  <2>5. q \in Reactors
    BY <1>1 DEF q
  <2>6. Moves(f)
    BY <1>1, <2>2, <2>5, MovesRunPosting
  <2> QED
    BY <2>1, <2>3, <2>4, <2>6, EndsKept
<1>4. CASE First(r).op = "connectDestroyed"
  <2>1. /\ UNCHANGED <<connMap, queue, newCalls>>
        /\ registered' = [registered EXCEPT ![c] = "kNew"]
    BY <1>4, RunFrame DEF Destroy, unregisterEvent
  <2>2. First(r) = Functor("connectDestroyed", c) /\ owner[c] = r
    BY <1>1, <1>4, FirstFacts
  <2> HIDE DEF c
  <2>3. Todo' = [Todo EXCEPT ![r] = Tail(@)]
    BY <1>1, <2>1, RunTodo
  <2> DEFINE f == Functor("none", None)
  <2>4. Moves(f)
    BY <1>1, <2>3, MovesRun
  <2>5. f.op # "connectDestroyed"
    BY DEF Functor
  <2>6. Gone(c)
    <3>1. /\ 1 \in 1..Len(Todo[r]) /\ Todo[r][1] = First(r)
          /\ First(r).op = "connectDestroyed" /\ First(r).conn = c
      BY <1>1, <1>4 DEF First, c
    <3>2. c \notin connMap /\ \A i \in 2..Len(Todo[r]) : Todo[r][i] # First(r)
      <4>1. Todo[r][1].op = "connectDestroyed" /\ Todo[r][1].conn = c
        BY <3>1
      <4>2. ASSUME NEW i \in 2..Len(Todo[r]), Todo[r][i] = First(r)
            PROVE  FALSE
        <5>1. i \in 1..Len(Todo[r]) /\ 1 \in 1..(i - 1)
          OBVIOUS
        <5>2. Todo[r][i].op = "connectDestroyed"
          BY <3>1, <4>2
        <5> QED
          BY <3>1, <4>2, <5>1, <5>2 DEF Ends
      <4> QED
        BY <3>1, <4>1, <4>2 DEF Ends
    <3>3. /\ Todo \in [Reactors -> Seq(Functors)]
          /\ Len(Todo'[r]) = Len(Todo[r]) - 1
          /\ \A i \in 1..(Len(Todo[r]) - 1) : Todo'[r][i] = Todo[r][i + 1]
          /\ \A s \in Reactors : s # r => Todo'[s] = Todo[s]
      BY <1>1, <2>3, TodoType, OneLess
    <3>4. ASSUME NEW s \in Reactors, NEW i \in 1..Len(Todo'[s]),
                 Todo'[s][i] = Functor("connectDestroyed", c)
          PROVE  FALSE
      <4>1. CASE s = r
        <5>1. i \in 1..(Len(Todo[r]) - 1) /\ i + 1 \in 2..Len(Todo[r])
          BY <1>1, <3>3, <4>1
        <5>2. Todo'[r][i] = Todo[r][i + 1]
          BY <3>3, <5>1
        <5> QED
          BY <2>2, <3>2, <3>4, <4>1, <5>1, <5>2
      <4>2. CASE s # r
        <5>1. i \in 1..Len(Todo[s]) /\ Todo[s][i] = Functor("connectDestroyed", c)
          BY <3>3, <3>4, <4>2
        <5>2. owner[c] = s
          <6>1. /\ Todo[s][i].op # "removeConnection" /\ Todo[s][i].conn = c
            BY <5>1 DEF Functor
          <6> QED
            BY <5>1, <6>1 DEF Homes
        <5> QED
          BY <2>2, <4>2, <5>2
      <4> QED
        BY <4>1, <4>2
    <3> QED
      BY <2>1, <3>2, <3>4 DEF Gone
  <2>7. \A d \in Conns : Whole(d) => WholeNext(d) \/ Gone(d)
    BY <2>1, <2>6 DEF Whole, WholeNext, TypeOK
  <2> HIDE DEF f
  <2> QED
    BY <2>1, <2>4, <2>5, <2>7, EndsKept
<1>5. First(r).op \in {"connectEstablished", "removeConnection",
                       "connectDestroyed"}
  BY FirstFacts DEF Functors
<1> QED
  BY <1>2, <1>3, <1>4, <1>5

LEMMA EndsNew ==
  ASSUME Inv, Inv', Ends, NEW c \in Conns, HandleNewConnection(c)
  PROVE  Ends'
<1> USE DEF Inv
<1> DEFINE r == IF pool = <<>> THEN Main ELSE pool[nextIndex + 1]
           f == Functor("connectEstablished", c)
<1>1. owner[c] = None /\ connMap' = connMap \cup {c} /\ UNCHANGED <<batch, done>>
  BY DEF HandleNewConnection
<1>2. \/ /\ registered' = [registered EXCEPT ![c] = "kAdded"]
         /\ newCalls' = [newCalls EXCEPT ![c] = @ + 1] /\ UNCHANGED queue
      \/ /\ Post(r, "connectEstablished", c)
         /\ UNCHANGED <<registered, newCalls>>
  BY DEF HandleNewConnection, Establish, handleNewEvent, eventVars
<1>3. c \notin Refs /\ newCalls[c] = 0
  BY <1>1 DEF Unseen
<1>4. f \in Functors /\ f.op = "connectEstablished" /\ r \in Reactors
  <2>1. r \in Reactors
    <3>1. /\ pool \in Seq(Range(Subs)) /\ nextIndex \in Nat
          /\ (nextIndex = 0 \/ nextIndex < Len(pool))
      BY DEF TypeOK
    <3>2. pool # <<>> => pool[nextIndex + 1] \in Range(Subs)
      BY <3>1
    <3> QED
      BY <3>2 DEF Reactors
  <2>2. f \in Functors /\ f.op = "connectEstablished"
    BY DEF Functor, Functors
  <2> QED
    BY <2>1, <2>2
<1> HIDE DEF r
<1>5. Moves(f)
  <2>1. CASE Post(r, "connectEstablished", c)
    <3>1. Todo' = [Todo EXCEPT ![r] = Append(@, f)]
      BY <1>1, <1>4, <2>1, PostTodo
    <3> HIDE DEF f
    <3> QED
      BY <1>4, <3>1, MovesPosted
  <2>2. CASE UNCHANGED queue
    <3>1. Todo' = Todo
      BY <1>1, <2>2 DEF Todo
    <3> QED
      BY <3>1, MovesNone
  <2> QED
    BY <1>2, <2>1, <2>2
<1>6. WholeNext(c) /\ \A d \in Conns : Whole(d) => WholeNext(d)
  BY <1>2, <1>3 DEF Whole, WholeNext, TypeOK
<1>7. \A d \in connMap' : d \in connMap \/ (d \notin Refs /\ WholeNext(d))
  BY <1>1, <1>3, <1>6
<1> HIDE DEF f
<1> QED
  BY <1>4, <1>5, <1>6, <1>7, EndsKept

\* A connection leaves the map with its connectDestroyed, or a reactor other
\* than the main one asks for that.
LEMMA EndsPosted ==
  ASSUME Inv, Inv', Ends, NEW c \in Conns, NEW r \in Reactors, NEW op,
         Functor(op, c) \in Functors, Post(r, op, c), UNCHANGED <<batch, done>>,
         \/ op = "removeConnection" /\ connMap' = connMap
         \/ op = "connectDestroyed" /\ connMap' = connMap \ {c} /\ c \in connMap,
         \A d \in Conns : Whole(d) => WholeNext(d)
  PROVE  Ends'
<1> DEFINE f == Functor(op, c)
<1>1. f \in Functors /\ f.op = op /\ f.conn = c
  BY DEF Functor
<1>2. Todo' = [Todo EXCEPT ![r] = Append(@, f)]
  BY PostTodo DEF Inv
<1> HIDE DEF f
<1>3. Moves(f)
  BY <1>1, <1>2, MovesPosted DEF Inv
<1>4. f.op = "connectDestroyed" => f.conn \in connMap \ connMap'
  BY <1>1
<1>5. \A d \in connMap' : d \in connMap
  OBVIOUS
<1> QED
  BY <1>3, <1>4, <1>5, EndsKept

LEMMA EndsNext ==
  ASSUME Inv, Inv', Ends, [Next]_vars
  PROVE  Ends'
<1> USE DEF Inv
<1>1. ASSUME UNCHANGED <<queue, batch, done, connMap, registered, newCalls>>
      PROVE  Ends'
  BY <1>1, StillTodo, StillEnds
<1>2. ASSUME NEW r \in Reactors,
             SwapPending(r) \/ BatchDone(r) \/ DispatchReturns(r)
      PROVE  Ends'
  BY <1>2, MovedTodo, StillEnds
<1>3. ASSUME NEW r \in Reactors, NEW c \in Conns, HandleClose(r, c)
      PROVE  Ends'
  <2> DEFINE op == IF r = Main THEN "connectDestroyed" ELSE "removeConnection"
  <2>1. /\ phase[r] = "events" /\ c \in active[r]
        /\ owner[c] = r /\ registered[c] = "kAdded"
    BY <1>3 DEF HandleClose, Goto, Handled
  <2>2. /\ registered' = [registered EXCEPT ![c] = "kDeled"]
        /\ Post(Main, op, c) /\ UNCHANGED <<batch, done, newCalls>>
        /\ connMap' = IF r = Main THEN connMap \ {c} ELSE connMap
    BY <1>3, <2>1 DEF HandleClose, handleExistEvent, Remove, serverVars
  <2>3. r = Main => c \in connMap
    BY <2>1, NoneAssumption DEF Joined, TypeOK, Removals, Reactors
  <2>4. Main \in Reactors /\ Functor(op, c) \in Functors
    BY DEF Reactors, Functor, Functors
  <2>5. \A d \in Conns : Whole(d) => WholeNext(d)
    BY <2>2 DEF Whole, WholeNext, TypeOK
  <2>6. \/ op = "removeConnection" /\ connMap' = connMap
        \/ op = "connectDestroyed" /\ connMap' = connMap \ {c} /\ c \in connMap
    BY <2>2, <2>3
  <2> HIDE DEF op
  <2> QED
    BY <2>2, <2>4, <2>5, <2>6, EndsPosted
<1>4. ASSUME NEW c \in Conns, DtorConnection(c)
      PROVE  Ends'
  <2> DEFINE r == owner[c]
             op == "connectDestroyed"
  <2>1. /\ Post(r, op, c) /\ UNCHANGED <<batch, done, registered, newCalls>>
        /\ connMap' = connMap \ {c} /\ c \in connMap
    BY <1>4 DEF DtorConnection, connVars, eventVars, loopVars, TypeOK
  <2>2. r \in Reactors
    BY <2>1, OwnerType DEF Refs, Referenced
  <2>3. Functor(op, c) \in Functors
    BY DEF Functor, Functors
  <2>4. \A d \in Conns : Whole(d) => WholeNext(d)
    BY <2>1 DEF Whole, WholeNext
  <2> HIDE DEF r
  <2> QED
    BY <2>1, <2>2, <2>3, <2>4, EndsPosted
<1>5. ASSUME NEW r \in Reactors, LoopStep(r)
      PROVE  Ends'
  <2>1. Demultiplex(r) \/ EventHandled(r) \/ AcceptFails => Ends'
    BY <1>1 DEF Demultiplex, EventHandled, AcceptFails, serverVars, connVars,
                eventVars
  <2> QED
    BY <1>2, <1>3, <1>5, <2>1, EndsRun, EndsNew DEF LoopStep
<1>6. DtorStep => Ends'
  <2>1. DtorBegin \/ DtorStopSub \/ DtorJoinSub \/ DtorEnd => Ends'
    BY <1>1 DEF DtorBegin, DtorStopSub, DtorJoinSub, DtorEnd, serverVars,
                connVars, eventVars, loopVars
  <2> QED
    BY <1>4, <2>1 DEF DtorStep
<1>7. (\E c \in Conns : PeerCloses(c)) \/ StopMain \/ UNCHANGED vars => Ends'
  BY <1>1 DEF PeerCloses, StopMain, vars, serverVars, connVars, eventVars,
              loopVars
<1> QED
  BY <1>5, <1>6, <1>7 DEF Next

LEMMA FoundOnlyNext ==
  ASSUME Inv, FoundOnly, [Next]_vars
  PROVE  FoundOnly'
<1> USE DEF Inv
<1>0. /\ owner \in [Conns -> Reactors \cup {None}]
      /\ fd \in [Conns -> 0..Cardinality(Conns)]
      /\ registered \in [Conns -> {"kNew", "kAdded", "kDeled"}]
      /\ eventMap \in [Reactors -> [Fds -> Conns \cup {None}]]
      /\ newCalls \in [Conns -> Nat]
  BY DEF TypeOK
<1>1. ASSUME UNCHANGED <<owner, fd, registered, eventMap, newCalls>>
      PROVE  FoundOnly'
  BY <1>1 DEF FoundOnly
<1>2. ASSUME NEW r \in Reactors, NEW c \in Conns, HandleClose(r, c)
      PROVE  FoundOnly'
  <2>1. registered[c] = "kAdded"
    BY <1>2 DEF HandleClose, Goto, Handled
  <2>2. /\ registered' = [registered EXCEPT ![c] = "kDeled"]
        /\ UNCHANGED <<owner, fd, eventMap, newCalls>>
    BY <1>2 DEF HandleClose, handleExistEvent
  <2>3. \A d \in Conns : registered'[d] # "kNew" <=> registered[d] # "kNew"
    BY <1>0, <2>1, <2>2
  <2> QED
    BY <1>0, <2>2, <2>3 DEF FoundOnly
<1>3. ASSUME NEW c \in Conns, NEW r \in Reactors, NEW n \in Fds,
             newCalls[c] = 0,
             owner'[c] = r, fd'[c] = n,
             \A d \in Conns : d # c => owner'[d] = owner[d] /\ fd'[d] = fd[d],
             handleNewEvent(r, c, n),
             newCalls' = [newCalls EXCEPT ![c] = @ + 1]
      PROVE  FoundOnly'
  <2>1. /\ registered' = [registered EXCEPT ![c] = "kAdded"]
        /\ eventMap' = [eventMap EXCEPT ![r][n] = c]
    BY <1>3 DEF handleNewEvent
  <2>2. registered[c] = "kNew"
    BY <1>3 DEF FoundOnly
  <2>3. ASSUME NEW s \in Reactors, NEW m \in Fds, eventMap'[s][m] # None
        PROVE  /\ registered'[eventMap'[s][m]] # "kNew"
               /\ owner'[eventMap'[s][m]] = s /\ fd'[eventMap'[s][m]] = m
    <3>1. CASE s = r /\ m = n
      <4>1. eventMap'[s][m] = c
        BY <1>0, <2>1, <3>1
      <4> QED
        BY <1>0, <1>3, <2>1, <3>1, <4>1
    <3>2. CASE ~(s = r /\ m = n)
      <4>1. eventMap'[s][m] = eventMap[s][m]
        BY <1>0, <2>1, <3>2
      <4>2. eventMap[s][m] \in Conns /\ registered[eventMap[s][m]] # "kNew"
        BY <1>0, <2>3, <4>1 DEF FoundOnly
      <4>3. eventMap[s][m] # c
        BY <2>2, <4>2
      <4> QED
        BY <1>0, <1>3, <2>1, <2>3, <4>1, <4>2, <4>3 DEF FoundOnly
    <3> QED
      BY <3>1, <3>2
  <2>4. \A d \in Conns : registered'[d] # "kNew" => newCalls'[d] = 1
    BY <1>0, <1>3, <2>1 DEF FoundOnly
  <2> QED
    BY <2>3, <2>4 DEF FoundOnly
<1>4. ASSUME NEW c \in Conns, HandleNewConnection(c)
      PROVE  FoundOnly'
  <2> DEFINE r == IF pool = <<>> THEN Main ELSE pool[nextIndex + 1]
             n == LowestFree
  <2>1. /\ owner[c] = None /\ registered[c] = "kNew" /\ newCalls[c] = 0
        /\ owner' = [owner EXCEPT ![c] = r] /\ fd' = [fd EXCEPT ![c] = n]
    BY <1>4 DEF HandleNewConnection, Unseen
  <2>2. \/ /\ handleNewEvent(r, c, n)
           /\ newCalls' = [newCalls EXCEPT ![c] = @ + 1]
        \/ UNCHANGED <<registered, eventMap, newCalls>>
    BY <1>4 DEF HandleNewConnection, Establish, eventVars
  <2>3. r \in Reactors /\ n \in Fds
    BY <2>1, LowestFreeIsFree DEF TypeOK, Reactors
  <2> HIDE DEF r, n
  <2>4. /\ owner'[c] = r /\ fd'[c] = n
        /\ \A d \in Conns : d # c => owner'[d] = owner[d] /\ fd'[d] = fd[d]
    BY <1>0, <2>1
  <2>5. CASE handleNewEvent(r, c, n) /\ newCalls' = [newCalls EXCEPT ![c] = @ + 1]
    BY <1>3, <2>1, <2>3, <2>4, <2>5
  <2>6. CASE UNCHANGED <<registered, eventMap, newCalls>>
    <3>1. ASSUME NEW s \in Reactors, NEW m \in Fds, eventMap[s][m] # None
          PROVE  /\ registered[eventMap[s][m]] # "kNew"
                 /\ owner'[eventMap[s][m]] = s /\ fd'[eventMap[s][m]] = m
      <4>1. /\ eventMap[s][m] \in Conns /\ registered[eventMap[s][m]] # "kNew"
            /\ owner[eventMap[s][m]] = s /\ fd[eventMap[s][m]] = m
        BY <1>0, <3>1 DEF FoundOnly
      <4> QED
        BY <2>1, <2>4, <4>1
    <3> QED
      BY <2>6, <3>1 DEF FoundOnly
  <2> QED
    BY <2>2, <2>5, <2>6
<1>5. ASSUME NEW r \in Reactors, RunFunctor(r)
      PROVE  FoundOnly'
  <2> DEFINE c == First(r).conn
  <2>1. c \in Conns /\ owner[c] \in Reactors /\ owner[c] # None
    BY <1>5, FirstFacts
  <2>2. UNCHANGED <<owner, fd>>
    BY <1>5, RunFrame
  <2>3. CASE First(r).op = "connectEstablished"
    <3>1. /\ newCalls[c] = 0 /\ owner[c] = r /\ handleNewEvent(r, c, fd[c])
          /\ newCalls' = [newCalls EXCEPT ![c] = @ + 1]
      BY <1>5, <2>3, FirstFacts, RunFrame DEF Establish
    <3>2. fd[c] \in Fds
      BY <2>1 DEF Descriptors
    <3> DEFINE n == fd[c]
    <3> HIDE DEF c, n
    <3>3. n \in Fds /\ fd'[c] = n /\ owner'[c] = r /\ handleNewEvent(r, c, n)
      BY <2>2, <3>1, <3>2 DEF n
    <3> QED
      BY <1>3, <2>1, <2>2, <3>1, <3>3
  <2>4. CASE First(r).op = "removeConnection"
    <3>1. UNCHANGED <<registered, eventMap, newCalls>>
      BY <1>5, <2>4, RunFrame
    <3> QED
      BY <1>1, <2>2, <3>1
  <2>5. CASE First(r).op = "connectDestroyed"
    <3>1. /\ registered' = [registered EXCEPT ![c] = "kNew"]
          /\ eventMap' = [eventMap EXCEPT ![owner[c]][fd[c]] = None]
          /\ UNCHANGED newCalls
      BY <1>5, <2>5, RunFrame DEF Destroy, unregisterEvent
    <3>2. fd[c] \in Fds
      BY <2>1 DEF Descriptors
    <3> HIDE DEF c
    <3>3. ASSUME NEW s \in Reactors, NEW m \in Fds, eventMap'[s][m] # None
          PROVE  /\ registered'[eventMap'[s][m]] # "kNew"
                 /\ owner[eventMap'[s][m]] = s /\ fd[eventMap'[s][m]] = m
      <4>1. ~(s = owner[c] /\ m = fd[c])
        BY <1>0, <2>1, <3>1, <3>2, <3>3
      <4>2. eventMap'[s][m] = eventMap[s][m]
        BY <1>0, <2>1, <3>1, <3>2, <4>1
      <4>3. /\ eventMap[s][m] \in Conns /\ registered[eventMap[s][m]] # "kNew"
            /\ owner[eventMap[s][m]] = s /\ fd[eventMap[s][m]] = m
        BY <1>0, <3>3, <4>2 DEF FoundOnly
      <4> QED
        BY <1>0, <3>1, <4>1, <4>2, <4>3
    <3>4. \A d \in Conns : registered'[d] # "kNew" => newCalls[d] = 1
      BY <1>0, <3>1 DEF FoundOnly
    <3> QED
      BY <2>2, <3>1, <3>3, <3>4 DEF FoundOnly
  <2>6. First(r).op \in {"connectEstablished", "removeConnection",
                         "connectDestroyed"}
    BY <1>5, FirstFacts DEF Functors
  <2> QED
    BY <2>3, <2>4, <2>5, <2>6
<1>6. ASSUME NEW r \in Reactors, LoopStep(r)
      PROVE  FoundOnly'
  <2>1. SwapPending(r) \/ BatchDone(r) \/ DispatchReturns(r) => FoundOnly'
    BY <1>1, MovedTodo
  <2>2. Demultiplex(r) \/ EventHandled(r) \/ AcceptFails => FoundOnly'
    BY <1>1 DEF Demultiplex, EventHandled, AcceptFails, connVars, eventVars
  <2> QED
    BY <1>2, <1>4, <1>5, <1>6, <2>1, <2>2 DEF LoopStep
<1>7. DtorStep => FoundOnly'
  BY <1>1 DEF DtorStep, DtorBegin, DtorConnection, DtorStopSub, DtorJoinSub,
              DtorEnd, connVars, eventVars
<1>8. (\E c \in Conns : PeerCloses(c)) \/ StopMain \/ UNCHANGED vars
        => FoundOnly'
  BY <1>1 DEF PeerCloses, StopMain, vars, connVars, eventVars
<1> QED
  BY <1>6, <1>7, <1>8 DEF Next

LEMMA InitMore == Init => Ends /\ FoundOnly
<1> SUFFICES ASSUME Init PROVE Ends /\ FoundOnly
  OBVIOUS
<1>1. \A r \in Reactors : Todo[r] = <<>>
  <2>1. <<>> \in Seq(Functors)
    OBVIOUS
  <2>2. Rest(<<>>, 0, <<>>) = <<>>
    BY <2>1, RestOfQueue
  <2> QED
    BY <2>2 DEF Todo, Init
<1> QED
  BY <1>1 DEF Ends, FoundOnly, Init

LEMMA MoreInv == Spec => [](Inv /\ Ends /\ FoundOnly)
<1>1. Inv /\ Ends /\ FoundOnly /\ [Next]_vars => (Inv /\ Ends /\ FoundOnly)'
  <2> SUFFICES ASSUME Inv, Ends, FoundOnly, [Next]_vars
               PROVE  Inv' /\ Ends' /\ FoundOnly'
    OBVIOUS
  <2>1. Inv'
    BY NextInv
  <2> QED
    BY <2>1, EndsNext, FoundOnlyNext
<1> QED
  BY <1>1, InitInv, InitMore, PTL DEF Spec

-----------------------------------------------------------------------------
(* The theorems.                                                           *)

LEMMA ServerInv == Spec => []Inv
<1> QED
  BY InitInv, NextInv, PTL DEF Spec

\* Every variable of the server keeps its type.
THEOREM ServerType == Spec => []TypeOK
<1>1. Inv => TypeOK
  BY DEF Inv
<1> QED
  BY <1>1, ServerInv, PTL

\* However the steps of the reactors' loops, of the peers and of ~TcpServer
\* interleave, newConnCb_ is called at most once for a connection, and
\* finConnCb_ at most once, and after it.
THEOREM ServerCallbacks == Spec => []CallbacksPaired
<1>1. Inv => CallbacksPaired
  BY DEF Inv, Calls, CallbacksPaired
<1> QED
  BY <1>1, ServerInv, PTL

\* No event outlives its connection in a loop or in the demultiplexer of a
\* running reactor.
THEOREM ServerEvents == Spec => []NoDanglingEvent
<1>1. Inv => NoDanglingEvent
  <2> SUFFICES ASSUME Inv PROVE NoDanglingEvent
    OBVIOUS
  <2> USE DEF Inv
  <2>1. ASSUME NEW r \in Reactors, NEW c \in active[r] \ {Listen}
        PROVE  Referenced(c)
    <3>1. c \in Conns
      BY DEF TypeOK
    <3>2. owner[c] = r /\ registered[c] # "kNew"
      BY <3>1 DEF Handled
    <3>3. phase[r] # "exited"
      BY DEF Phases
    <3> QED
      BY <3>1, <3>2, <3>3, RegisteredKept DEF Refs
  <2>2. ASSUME NEW c \in Conns, owner[c] # None, ~Referenced(c)
        PROVE  registered[c] = "kNew" \/ phase[owner[c]] = "exited"
    BY <2>2, RegisteredKept DEF Refs
  <2> QED
    BY <2>1, <2>2 DEF NoDanglingEvent
<1> QED
  BY <1>1, ServerInv, PTL

\* However the threads interleave, what TcpConnection.cc:156, TcpServer.cc:100
\* and Demultiplexer.cc:60, 106 to 108, 110 (as meant) and 121 assert of a
\* connection is true where the code comes to it.  Nothing is said of
\* Demultiplexer.cc:136, which asserts false where every close comes.
THEOREM ServerAssertions == Spec => []AssertionsHold
<1>1. Inv /\ Ends /\ FoundOnly => AssertionsHold
  <2> SUFFICES ASSUME Inv, Ends, FoundOnly PROVE AssertionsHold
    OBVIOUS
  <2> USE DEF Inv
  <2>0. Main \in Reactors /\ Main # None
    BY NoneAssumption DEF Reactors
  <2>1. CloseAsserts
    <3> SUFFICES ASSUME NEW r \in Reactors, NEW c \in active[r] \ {Listen}
                 PROVE  /\ eventMap[r][fd[c]] = c
                        /\ c # current[r] => /\ state[c] = "kConnected"
                                             /\ r = Main => c \in connMap
      BY DEF CloseAsserts
    <3>1. c \in Conns /\ phase[r] \in {"events", "handling"}
      BY DEF TypeOK, Phases
    <3>2. /\ owner[c] = r /\ registered[c] # "kNew"
          /\ c # current[r] => registered[c] = "kAdded"
      BY <3>1 DEF Handled
    <3>3. c # current[r] => state[c] = "kConnected"
      BY <3>1, <3>2 DEF Calls
    <3>4. r = Main => server = "started"
      BY <3>1 DEF Joined
    <3>5. c # current[r] /\ r = Main => c \in connMap
      BY <2>0, <3>1, <3>2, <3>4 DEF Removals
    <3> QED
      BY <3>1, <3>2, <3>3, <3>5 DEF Found
  <2>2. ASSUME NEW c \in Conns, Executes(Main, "removeConnection", c)
        PROVE  c \in connMap
    <3>1. /\ 1 \in 1..Len(Todo[Main])
          /\ Todo[Main][1] = Functor("removeConnection", c)
      BY <2>0, <2>2, ExecutesFirst
    <3>2. Todo[Main][1].op = "removeConnection" /\ Todo[Main][1].conn = c
      BY <3>1 DEF Functor
    <3>3. server = "started"
      BY <2>2 DEF Executes, Joined
    <3> QED
      BY <3>1, <3>2, <3>3 DEF Removals
  <2>3. EstablishAsserts
    <3>1. ASSUME NEW r \in Reactors, NEW n \in Fds, eventMap[r][n] # None,
                 phase[r] # "exited"
          PROVE  \E d \in Refs : /\ owner[d] = r /\ fd[d] = n
                                 /\ registered[d] # "kNew"
      <4>1. eventMap[r][n] \in Conns
        BY <3>1 DEF TypeOK
      <4> QED
        BY <3>1, <4>1, RegisteredKept DEF FoundOnly
    <3>2. ASSUME NEW r \in Reactors, NEW c \in Conns,
                 Executes(r, "connectEstablished", c),
                 eventMap[r][fd[c]] # None
          PROVE  FALSE
      <4>1. /\ 1 \in 1..Len(Todo[r])
            /\ Todo[r][1] = Functor("connectEstablished", c)
        BY <3>2, ExecutesFirst
      <4>2. Todo[r][1].op = "connectEstablished" /\ Todo[r][1].conn = c
        BY <4>1 DEF Functor
      <4>3. owner[c] = r /\ newCalls[c] = 0
        BY <4>1, <4>2 DEF Homes
      <4>4. c \in Refs
        BY <4>1, <4>2, TodoKeeps
      <4>5. fd[c] \in Fds
        BY <4>4, OwnerType DEF Descriptors
      <4>6. PICK d \in Refs : fd[d] = fd[c] /\ registered[d] # "kNew"
        BY <3>1, <3>2, <4>5 DEF Executes
      <4>7. d = c
        BY <4>4, <4>6 DEF Descriptors
      <4> QED
        BY <4>3, <4>6, <4>7 DEF FoundOnly
    <3>3. ASSUME Listen \in active[Main], NEW c \in Conns, owner[c] = None,
                 eventMap[Main][LowestFree] # None
          PROVE  FALSE
      <4>1. /\ LowestFree \in Fds
            /\ \A d \in Refs : owner[d] # None => fd[d] # LowestFree
        BY <3>3, LowestFreeIsFree
      <4>2. phase[Main] # "exited"
        BY <2>0, <3>3 DEF Phases
      <4> QED
        BY <2>0, <3>1, <3>3, <4>1, <4>2
    <3> QED
      BY <3>2, <3>3 DEF EstablishAsserts
  <2>4. DestroyAsserts
    <3> SUFFICES ASSUME NEW r \in Reactors, NEW c \in Conns,
                        Executes(r, "connectDestroyed", c)
                 PROVE  /\ eventMap[r][fd[c]] = c /\ registered[c] # "kNew"
                        /\ state[c] = "kDisconnected" => registered[c] # "kAdded"
      BY DEF DestroyAsserts
    <3>1. /\ Todo[r] \in Seq(Functors) /\ 1 \in 1..Len(Todo[r])
          /\ Todo[r][1] = Functor("connectDestroyed", c)
      BY ExecutesFirst
    <3>2. Todo[r][1].op = "connectDestroyed" /\ Todo[r][1].conn = c
      BY <3>1 DEF Functor
    <3>3. owner[c] = r /\ Whole(c)
      BY <3>1, <3>2 DEF Homes, Ends
    <3>4. newCalls[c] # 0
      <4> SUFFICES ASSUME newCalls[c] = 0 PROVE FALSE
        OBVIOUS
      <4>1. owner[c] # None /\ phase[owner[c]] # "exited"
        BY <3>3, NoneAssumption DEF Reactors, Executes
      <4>2. PICK i \in 1..Len(Todo[r]) :
                   Todo[r][i] = Functor("connectEstablished", c)
        BY <3>3, <4>1 DEF Kept, Due
      <4>3. /\ Todo[r][i].op = "connectEstablished" /\ Todo[r][i].conn = c
            /\ i # 1
        BY <3>1, <4>2 DEF Functor
      <4>4. 1 \in 1..(i - 1)
        BY <3>1, <4>3
      <4> QED
        BY <3>2, <4>3, <4>4 DEF Homes
    <3>5. registered[c] # "kNew"
      BY <3>3, <3>4 DEF Whole
    <3>6. state[c] = "kDisconnected" => registered[c] # "kAdded"
      BY DEF Calls
    <3> QED
      BY <3>3, <3>5, <3>6 DEF Found
  <2> QED
    BY <2>1, <2>2, <2>3, <2>4 DEF AssertionsHold
<1> QED
  BY <1>1, MoreInv, PTL

\* When ~TcpServer has returned, no callback runs any more: it has waited for
\* the loop of every reactor.
THEOREM ServerGone == Spec => NoCallbackAfterDtor
<1>1. ASSUME Inv, [Next]_vars, server = "gone"
      PROVE  UNCHANGED <<newCalls, finCalls>>
  <2> USE DEF Inv
  <2>1. \A r \in Range(pool) \cup {Main} : phase[r] = "exited"
    <3>1. /\ phase[Main] = "exited"
          /\ \A i \in 1..Len(pool) : phase[pool[i]] = "exited"
      BY <1>1 DEF Joined
    <3>2. \A r \in Range(pool) : \E i \in 1..Len(pool) : pool[i] = r
      BY <1>1 DEF Range, TypeOK
    <3> QED
      BY <3>1, <3>2
  <2>2. ASSUME NEW r \in Reactors, LoopStep(r)
        PROVE  FALSE
    BY <2>1, <2>2 DEF LoopStep, Demultiplex, DispatchReturns, HandleClose,
       AcceptFails, HandleNewConnection, EventHandled, SwapPending, RunFunctor,
       BatchDone, Goto
  <2>3. DtorStep => UNCHANGED <<newCalls, finCalls>>
    BY <1>1 DEF DtorStep, DtorBegin, DtorConnection, DtorStopSub, DtorJoinSub,
       DtorEnd, connVars
  <2>4. StopMain \/ UNCHANGED vars => UNCHANGED <<newCalls, finCalls>>
    BY DEF StopMain, vars, connVars
  <2>5. ASSUME NEW c \in Conns, PeerCloses(c)
        PROVE  UNCHANGED <<newCalls, finCalls>>
    BY <2>5 DEF PeerCloses
  <2> QED
    BY <1>1, <2>2, <2>3, <2>4, <2>5 DEF Next
<1>2. Inv /\ [Next]_vars =>
        [server = "gone" => UNCHANGED <<newCalls, finCalls>>]_vars
  BY <1>1
<1> QED
  BY <1>2, ServerInv, PTL DEF Spec, NoCallbackAfterDtor
=============================================================================
