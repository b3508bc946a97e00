------------------------ MODULE FineGrainedQueueProofs ------------------------
(***************************************************************************)
(* Proofs about FineGrainedQueue.tla: for any threads and values, the list *)
(* with a lock at each end is safe, and a first-in first-out queue.        *)
(***************************************************************************)
EXTENDS FineGrainedQueue, SequenceTheorems, FiniteSetTheorems, TLAPS

ProducerPlaces ==
  {"idle", "pushLock", "pushEntry", "pushNext", "pushTail", "notify"}
ConsumerPlaces ==
  {"idle", "waitTest", "falling", "waiting", "take", "copy", "delete",
   "tryTest", "tryTake"}

Pushing == {q \in Producers :
              pc[q] \in {"pushLock", "pushEntry", "pushNext", "pushTail"}}

Types ==
  /\ head \in Nodes /\ tail \in Nodes
  /\ entry \in [Nodes -> Values \cup {Default}]
  /\ next \in [Nodes -> Nodes \cup {0}]
  /\ waiting \subseteq Consumers
  /\ pc \in [Threads -> ProducerPlaces \cup ConsumerPlaces]
  /\ arg \in [Producers -> Values \cup {Default}]
  /\ node \in [Consumers -> Nodes \cup {0}]
  /\ freed \subseteq Nodes
  /\ ret \in [Consumers -> Values \cup {Default}]

\* A lock is held by the thread that is inside its critical section.
Locks ==
  /\ \A p \in Producers :
       pc[p] \in {"pushEntry", "pushNext", "pushTail"} <=> tailLock = p
  /\ \A c \in Consumers :
       pc[c] \in {"waitTest", "falling", "take", "tryTest", "tryTake"}
         <=> headLock = c

\* There is a node for every push that has begun.
Room ==
  /\ IsFiniteSet(Pushing)
  /\ tail + Cardinality(Pushing) <= MaxPush + 1

\* Up to the tail the nodes are linked and filled; behind it a push is as
\* far as its place says.
Chain ==
  /\ head <= tail
  /\ \A n \in Nodes : n < tail => next[n] = n + 1 /\ entry[n] \in Values
  /\ \A p \in Producers :
       /\ p \in Pushing => arg[p] \in Values
       /\ pc[p] \in {"pushNext", "pushTail"} => entry[tail] \in Values
       /\ pc[p] = "pushTail" => next[tail] = tail + 1

\* A pop that unlinks has seen a node to unlink; a node that is unlinked is
\* in the hands of one pop until it is deleted.
Held ==
  /\ \A n \in freed : n < head
  /\ \A c \in Consumers :
       /\ pc[c] \in {"take", "tryTake"} => head < tail
       /\ pc[c] \in {"copy", "delete"} <=> node[c] # 0
       /\ node[c] < head /\ node[c] \notin freed
  /\ \A c, d \in Consumers : c # d /\ node[c] # 0 => node[c] # node[d]

IInv == Types /\ Locks /\ Room /\ Chain /\ Held

-----------------------------------------------------------------------------
(* The invariant.                                                          *)

LEMMA InitInv == Init => IInv
<1> SUFFICES ASSUME Init PROVE IInv
  OBVIOUS
<1>1. Types
  BY MaxPushAssumption DEF Init, Types, Nodes, Threads, ProducerPlaces
<1>2. Locks
  BY ThreadsAssumption DEF Init, Locks, Threads
<1>3. Room
  <2>1. Pushing = {}
    BY DEF Init, Pushing, Threads
  <2>2. IsFiniteSet({}) /\ Cardinality({}) = 0
    BY FS_EmptySet
  <2> QED
    BY <2>1, <2>2, MaxPushAssumption DEF Init, Room
<1>4. Chain /\ Held
  BY DEF Init, Chain, Held, Pushing, Nodes, Threads
<1> QED
  BY <1>1, <1>2, <1>3, <1>4 DEF IInv

\* As long as nobody begins or ends a push, there is room.
LEMMA RoomUnchanged ==
  Room /\ UNCHANGED <<tail, Pushing>> => Room'
BY DEF Room

\* While a push is on its way, the tail has a successor.
LEMMA RoomBehindTail ==
  ASSUME Types, Room, NEW p \in Pushing
  PROVE  tail + 1 \in Nodes
<1>1. Cardinality(Pushing) \in Nat /\ Cardinality(Pushing) # 0
  BY FS_CardinalityType, FS_EmptySet DEF Room
<1> QED
  BY <1>1, MaxPushAssumption DEF Types, Nodes, Room

LEMMA PushBeginInv ==
  ASSUME IInv, NEW p \in Producers, NEW v \in Values, PushBegin(p, v)
  PROVE  IInv'
<1> USE DEF PushBegin, At, qvars
<1>1. p \in Threads /\ p \notin Pushing /\ Consumers \subseteq Threads
  BY DEF Pushing, Threads
<1>2. Types'
  BY <1>1 DEF IInv, Types, ProducerPlaces
<1>3. Locks'
  BY <1>1, ThreadsAssumption DEF IInv, Types, Locks, Threads
<1>4. Room'
  <2>1. Pushing' = Pushing \cup {p}
    BY <1>1 DEF IInv, Types, Pushing, Threads
  <2>2. /\ IsFiniteSet(Pushing \cup {p})
        /\ Cardinality(Pushing \cup {p}) = Cardinality(Pushing) + 1
    BY <1>1, FS_AddElement DEF IInv, Room
  <2>3. tail + Cardinality(Pushing) <= MaxPush
    BY DEF Pushing
  <2>4. Cardinality(Pushing) \in Nat
    BY FS_CardinalityType DEF IInv, Room
  <2> QED
    BY <2>1, <2>2, <2>3, <2>4, MaxPushAssumption DEF IInv, Types, Nodes, Room
<1>5. Chain'
  BY <1>1 DEF IInv, Types, Chain, Pushing, Threads
<1>6. Held'
  BY <1>1, ThreadsAssumption DEF IInv, Types, Held, Threads
<1> QED
  BY <1>2, <1>3, <1>4, <1>5, <1>6 DEF IInv

LEMMA PushStepInv ==
  ASSUME IInv, NEW p \in Producers, PushStep(p)
  PROVE  IInv'
<1> USE DEF At, qvars, locals
<1>0. p \in Threads /\ p \notin Consumers /\ Consumers \subseteq Threads
  BY ThreadsAssumption DEF Threads
<1>1. CASE PushLock(p)
  <2> USE <1>1 DEF PushLock
  <2>1. Types'
    BY <1>0 DEF IInv, Types, ProducerPlaces
  <2>2. Locks'
    BY <1>0, ThreadsAssumption DEF IInv, Types, Locks, Threads
  <2>3. UNCHANGED Pushing
    BY <1>0 DEF IInv, Types, Pushing, Threads
  <2>4. Chain'
    BY <1>0, <2>3 DEF IInv, Types, Chain, Threads
  <2>5. Held'
    BY <1>0 DEF IInv, Types, Held, Threads
  <2> QED
    BY <2>1, <2>2, <2>3, <2>4, <2>5, RoomUnchanged DEF IInv
<1>2. CASE PushEntry(p)
  <2> USE <1>2 DEF PushEntry
  <2>0. p \in Pushing /\ arg[p] \in Values
    BY DEF IInv, Pushing, Chain
  <2>1. Types'
    BY <1>0, <2>0 DEF IInv, Types, ProducerPlaces
  <2>2. Locks'
    BY <1>0, ThreadsAssumption DEF IInv, Types, Locks, Threads
  <2>3. UNCHANGED Pushing
    BY <1>0 DEF IInv, Types, Pushing, Threads
  <2>4. Chain'
    BY <1>0, <2>0, <2>3 DEF IInv, Types, Chain, Threads, Nodes
  <2>5. Held'
    BY <1>0 DEF IInv, Types, Held, Threads
  <2> QED
    BY <2>1, <2>2, <2>3, <2>4, <2>5, RoomUnchanged DEF IInv
<1>3. CASE PushNext(p)
  <2> USE <1>3 DEF PushNext
  <2>0. p \in Pushing /\ tail + 1 \in Nodes
    BY RoomBehindTail DEF IInv, Pushing
  <2>1. Types'
    BY <1>0, <2>0 DEF IInv, Types, ProducerPlaces
  <2>2. Locks'
    BY <1>0, ThreadsAssumption DEF IInv, Types, Locks, Threads
  <2>3. UNCHANGED Pushing
    BY <1>0 DEF IInv, Types, Pushing, Threads
  <2>4. Chain'
    BY <1>0, <2>0, <2>3 DEF IInv, Types, Chain, Threads, Nodes
  <2>5. Held'
    BY <1>0 DEF IInv, Types, Held, Threads
  <2> QED
    BY <2>1, <2>2, <2>3, <2>4, <2>5, RoomUnchanged DEF IInv
<1>4. CASE PushTail(p)
  <2> USE <1>4 DEF PushTail
  <2>0. /\ p \in Pushing /\ tail + 1 \in Nodes /\ tail' = tail + 1
        /\ entry[tail] \in Values /\ next[tail] = tail + 1
    BY RoomBehindTail DEF IInv, Pushing, Chain
  <2>1. Types'
    BY <1>0, <2>0 DEF IInv, Types, ProducerPlaces
  <2>2. Locks'
    BY <1>0, ThreadsAssumption DEF IInv, Types, Locks, Threads
  <2>3. Room'
    <3>1. Pushing' = Pushing \ {p}
      BY <1>0 DEF IInv, Types, Pushing, Threads
    <3>2. /\ IsFiniteSet(Pushing \ {p})
          /\ Cardinality(Pushing \ {p}) = Cardinality(Pushing) - 1
      BY <2>0, FS_RemoveElement DEF IInv, Room
    <3>3. Cardinality(Pushing) \in Nat
      BY FS_CardinalityType DEF IInv, Room
    <3> QED
      BY <2>0, <3>1, <3>2, <3>3, MaxPushAssumption DEF IInv, Types, Nodes, Room
  <2>4. Chain'
    <3>1. \A q \in Producers : pc'[q] \notin {"pushNext", "pushTail"}
      BY <1>0 DEF IInv, Types, Locks, Threads
    <3>2. Pushing' \subseteq Pushing
      BY <1>0 DEF IInv, Types, Pushing, Threads
    <3> QED
      BY <1>0, <2>0, <3>1, <3>2 DEF IInv, Types, Chain, Nodes
  <2>5. Held'
    BY <1>0, <2>0 DEF IInv, Types, Held, Threads, Nodes
  <2> QED
    BY <2>1, <2>2, <2>3, <2>4, <2>5 DEF IInv
<1>5. CASE Notify(p)
  <2> USE <1>5 DEF Notify
  <2>1. Types'
    BY <1>0 DEF IInv, Types, ProducerPlaces
  <2>2. Locks'
    BY <1>0, ThreadsAssumption DEF IInv, Types, Locks, Threads
  <2>3. UNCHANGED Pushing
    BY <1>0 DEF IInv, Types, Pushing, Threads
  <2>4. Chain'
    BY <1>0, <2>3 DEF IInv, Types, Chain, Threads
  <2>5. Held'
    BY <1>0 DEF IInv, Types, Held, Threads
  <2> QED
    BY <2>1, <2>2, <2>3, <2>4, <2>5, RoomUnchanged DEF IInv
<1> QED
  BY <1>1, <1>2, <1>3, <1>4, <1>5 DEF PushStep

\* A pop's step disturbs no push.
LEMMA PopKeepsPushes ==
  ASSUME Types, Room, NEW c \in Consumers, NEW to \in ConsumerPlaces,
         pc' = [pc EXCEPT ![c] = to], UNCHANGED <<tail, tailLock>>
  PROVE  /\ pc' \in [Threads -> ProducerPlaces \cup ConsumerPlaces]
         /\ \A p \in Producers : pc'[p] = pc[p]
         /\ UNCHANGED Pushing /\ Room'
<1>1. \A p \in Producers : p # c /\ p \in Threads
  BY ThreadsAssumption DEF Threads
<1>2. \A p \in Producers : pc'[p] = pc[p]
  BY <1>1 DEF Types
<1>3. UNCHANGED Pushing
  BY <1>2 DEF Pushing
<1> QED
  BY <1>2, <1>3, RoomUnchanged DEF Types

\* A step of a pop that moves neither node nor list.
LEMMA LockStep ==
  ASSUME IInv, NEW c \in Consumers, NEW to \in ConsumerPlaces,
         pc' = [pc EXCEPT ![c] = to],
         UNCHANGED <<qvars, tailLock, locals>>,
         waiting' \subseteq Consumers,
         pc[c] \notin {"copy", "delete"}, to \notin {"copy", "delete"},
         to \in {"take", "tryTake"} => head < tail,
         \/ /\ headLock' = c
            /\ headLock \in {c, Nobody}
            /\ to \in {"waitTest", "falling", "take", "tryTest", "tryTake"}
         \/ /\ headLock' = Nobody
            /\ headLock = c
            /\ to \notin {"waitTest", "falling", "take", "tryTest", "tryTake"}
  PROVE  IInv'
<1> USE DEF qvars, locals
<1>0. c \in Threads /\ c \notin Producers /\ c # Nobody
  BY ThreadsAssumption DEF Threads
<1>1. /\ \A p \in Producers : pc'[p] = pc[p]
      /\ UNCHANGED Pushing /\ Room'
      /\ pc' \in [Threads -> ProducerPlaces \cup ConsumerPlaces]
  BY PopKeepsPushes DEF IInv
<1>2. Types'
  BY <1>1 DEF IInv, Types
<1>3. Locks'
  <2>1. \A d \in Consumers : d \in Threads /\ d # Nobody
    BY ThreadsAssumption DEF Threads
  <2>2. \A d \in Consumers :
          pc'[d] \in {"waitTest", "falling", "take", "tryTest", "tryTake"}
            <=> headLock' = d
    BY <1>0, <2>1 DEF IInv, Types, Locks
  <2> QED
    BY <1>1, <2>2 DEF IInv, Locks
<1>4. Chain'
  BY <1>1 DEF IInv, Chain
<1>5. Held'
  BY <1>0 DEF IInv, Types, Held, Threads
<1> QED
  BY <1>1, <1>2, <1>3, <1>4, <1>5 DEF IInv

\* Unlinking the first node, which has a successor.
LEMMA UnlinkInv ==
  ASSUME IInv, NEW c \in Consumers, NEW to \in {"copy", "delete"},
         pc[c] \in {"take", "tryTake"}, pc' = [pc EXCEPT ![c] = to],
         node' = [node EXCEPT ![c] = head], head' = next[head],
         headLock' = Nobody, ret' \in [Consumers -> Values \cup {Default}],
         UNCHANGED <<tail, entry, next, tailLock, waiting, arg, freed>>
  PROVE  IInv'
<1>0. c \in Threads /\ c \notin Producers /\ to \in ConsumerPlaces
  BY ThreadsAssumption DEF Threads, ConsumerPlaces
<1>1. /\ \A p \in Producers : pc'[p] = pc[p]
      /\ UNCHANGED Pushing /\ Room'
      /\ pc' \in [Threads -> ProducerPlaces \cup ConsumerPlaces]
  BY <1>0, PopKeepsPushes DEF IInv
<1>2. /\ head < tail /\ head' = head + 1 /\ head' \in Nodes
      /\ head \in Nodes /\ tail \in Nodes
  BY MaxPushAssumption DEF IInv, Types, Chain, Held, Nodes
<1>3. Types'
  BY <1>1, <1>2 DEF IInv, Types
<1>4. Locks'
  <2>1. \A d \in Consumers : d \in Threads /\ d # Nobody
    BY ThreadsAssumption DEF Threads
  <2>2. \A d \in Consumers :
          pc'[d] \in {"waitTest", "falling", "take", "tryTest", "tryTake"}
            <=> headLock' = d
    BY <2>1 DEF IInv, Types, Locks
  <2> QED
    BY <1>1, <2>2 DEF IInv, Locks
<1>5. Chain'
  BY <1>1, <1>2 DEF IInv, Types, Chain, Nodes
<1>6. Held'
  <2>1. \A d \in Consumers : d # c =>
          /\ d \in Threads /\ pc'[d] = pc[d] /\ node'[d] = node[d]
          /\ pc[d] \notin {"take", "tryTake"}
    BY DEF IInv, Types, Locks, Threads
  <2>2. pc'[c] = to /\ node'[c] = head /\ head # 0
    BY <1>0, <1>2 DEF IInv, Types, Nodes
  <2>3. \A n \in freed' : n < head'
    BY <1>2 DEF IInv, Types, Held, Nodes
  <2>4. \A d \in Consumers : node[d] < head /\ node[d] \in Nodes \cup {0}
    BY DEF IInv, Types, Held
  <2>5. head \notin freed
    BY <1>2 DEF IInv, Held, Nodes
  <2>6. \A d \in Consumers :
          /\ pc'[d] \notin {"take", "tryTake"}
          /\ pc'[d] \in {"copy", "delete"} <=> node'[d] # 0
          /\ node'[d] < head' /\ node'[d] \notin freed'
    BY <1>2, <2>1, <2>2, <2>4, <2>5 DEF IInv, Held, Nodes
  <2>7. \A d, e \in Consumers : d # e /\ node'[d] # 0 => node'[d] # node'[e]
    BY <1>2, <2>1, <2>2, <2>4 DEF IInv, Held, Nodes
  <2> QED
    BY <2>3, <2>6, <2>7 DEF Held
<1> QED
  BY <1>1, <1>3, <1>4, <1>5, <1>6 DEF IInv

LEMMA PopStepInv ==
  ASSUME IInv, NEW c \in Consumers,
         \/ PopStep(c) \/ WaitAndPopBegin(c) \/ TryPopBegin(c)
         \/ SpuriousWakeUp(c)
  PROVE  IInv'
<1> USE DEF At
<1>0. /\ c \in Threads /\ c \notin Producers /\ c # Nobody
      /\ (pc[c] \in {"waitTest", "falling", "take", "tryTest", "tryTake"}
            <=> headLock = c)
      /\ waiting \subseteq Consumers /\ head <= tail
      /\ head \in Nodes /\ tail \in Nodes
      /\ {"idle", "waitTest", "falling", "waiting", "take", "copy", "delete",
          "tryTest", "tryTake"} = ConsumerPlaces
  BY ThreadsAssumption DEF Threads, IInv, Types, Locks, Chain, ConsumerPlaces
<1>1. CASE WaitAndPopBegin(c)
  BY <1>0, <1>1, LockStep DEF WaitAndPopBegin, LockHead
<1>2. CASE TryPopBegin(c)
  BY <1>0, <1>2, LockStep DEF TryPopBegin, LockHead
<1>3. CASE WakeUp(c)
  BY <1>0, <1>3, LockStep DEF WakeUp, LockHead
<1>4. CASE WaitTest(c)
  <2>1. head # tail => head < tail
    BY <1>0 DEF Nodes
  <2>2. PICK to \in {"take", "falling"} :
          /\ pc' = [pc EXCEPT ![c] = to]
          /\ to = "take" => head < tail
    BY <1>4, <2>1 DEF WaitTest
  <2>3. pc[c] = "waitTest" /\ UNCHANGED <<qvars, headLock, tailLock, waiting, locals>>
    BY <1>4 DEF WaitTest
  <2> QED
    BY <1>0, <2>2, <2>3, LockStep
<1>5. CASE FallAsleep(c)
  <2>1. waiting' \subseteq Consumers
    BY <1>0, <1>5 DEF FallAsleep
  <2> QED
    BY <1>0, <1>5, <2>1, LockStep DEF FallAsleep
<1>6. CASE TryTestEmpty(c)
  BY <1>0, <1>6, LockStep DEF TryTestEmpty
<1>7. CASE TryTestNotEmpty(c)
  <2>1. head < tail
    BY <1>0, <1>7 DEF TryTestNotEmpty, Nodes
  <2> QED
    BY <1>0, <1>7, <2>1, LockStep DEF TryTestNotEmpty
<1>8. CASE SpuriousWakeUp(c)
  <2>1. /\ waiting' \subseteq Consumers
        /\ UNCHANGED <<qvars, headLock, tailLock, pc, locals>>
    BY <1>0, <1>8 DEF SpuriousWakeUp
  <2>2. UNCHANGED Pushing
    BY <2>1 DEF Pushing
  <2> QED
    BY <2>1, <2>2, RoomUnchanged
       DEF qvars, locals, IInv, Types, Locks, Chain, Held
<1>9. CASE Take(c)
  <2>1. ret' \in [Consumers -> Values \cup {Default}]
    BY <1>9 DEF Take, IInv, Types
  <2> QED
    BY <1>9, <2>1, UnlinkInv DEF Take
<1>10. CASE TryTake(c)
  <2>1. ret' \in [Consumers -> Values \cup {Default}]
    BY <1>10 DEF TryTake, IInv, Types
  <2> QED
    BY <1>10, <2>1, UnlinkInv DEF TryTake
<1>11. CASE CopyEntry(c)
  <2>0. /\ pc[c] = "copy" /\ pc' = [pc EXCEPT ![c] = "delete"]
        /\ ret' = [ret EXCEPT ![c] = entry[node[c]]]
        /\ UNCHANGED <<qvars, headLock, tailLock, waiting, arg, node, freed>>
    BY <1>11 DEF CopyEntry
  <2>1. /\ \A p \in Producers : pc'[p] = pc[p]
        /\ UNCHANGED Pushing /\ Room'
        /\ pc' \in [Threads -> ProducerPlaces \cup ConsumerPlaces]
    BY <1>0, <2>0, PopKeepsPushes DEF qvars, IInv
  <2>2. node[c] \in Nodes
    BY <2>0 DEF IInv, Types, Held
  <2>3. Types'
    BY <2>0, <2>1, <2>2 DEF qvars, IInv, Types
  <2>4. Locks' /\ Held'
    BY <1>0, <2>0, <2>1 DEF qvars, IInv, Types, Locks, Held, Threads
  <2>5. Chain'
    BY <2>0, <2>1 DEF qvars, IInv, Chain
  <2> QED
    BY <2>1, <2>3, <2>4, <2>5 DEF IInv
<1>12. CASE DeleteNode(c)
  <2>0. /\ pc[c] = "delete" /\ pc' = [pc EXCEPT ![c] = "idle"]
        /\ freed' = freed \cup {node[c]} /\ node' = [node EXCEPT ![c] = 0]
        /\ UNCHANGED <<qvars, headLock, tailLock, waiting, arg, ret>>
    BY <1>12 DEF DeleteNode
  <2>1. /\ \A p \in Producers : pc'[p] = pc[p]
        /\ UNCHANGED Pushing /\ Room'
        /\ pc' \in [Threads -> ProducerPlaces \cup ConsumerPlaces]
    BY <1>0, <2>0, PopKeepsPushes DEF qvars, IInv
  <2>2. node[c] \in Nodes /\ node[c] < head /\ 0 \notin Nodes
    BY <2>0 DEF IInv, Types, Held, Nodes
  <2>3. Types'
    BY <2>0, <2>1, <2>2 DEF qvars, IInv, Types
  <2>4. Locks'
    BY <1>0, <2>0, <2>1 DEF qvars, IInv, Types, Locks, Threads
  <2>5. Chain'
    BY <2>0, <2>1 DEF qvars, IInv, Chain
  <2>6. Held'
    <3>1. \A d \in Consumers : d # c =>
            /\ d \in Threads /\ pc'[d] = pc[d] /\ node'[d] = node[d]
            /\ node[d] # node[c]
      BY <2>0, <2>2 DEF IInv, Types, Held, Threads
    <3>2. pc'[c] = "idle" /\ node'[c] = 0
      BY <1>0, <2>0 DEF IInv, Types
    <3>3. \A n \in freed' : n < head' /\ n # 0
      BY <2>0, <2>2 DEF qvars, IInv, Types, Held
    <3>4. 0 < head
      BY <1>0 DEF Nodes
    <3> QED
      BY <2>0, <2>2, <3>1, <3>2, <3>3, <3>4 DEF qvars, IInv, Types, Held
  <2> QED
    BY <2>1, <2>3, <2>4, <2>5, <2>6 DEF IInv
<1> QED
  BY <1>1, <1>2, <1>3, <1>4, <1>5, <1>6, <1>7, <1>8, <1>9, <1>10, <1>11, <1>12
     DEF PopStep

LEMMA StepInv == IInv /\ [Next]_vars => IInv'
<1> SUFFICES ASSUME IInv, [Next]_vars PROVE IInv'
  OBVIOUS
<1>1. ASSUME NEW p \in Producers, PushStep(p) \/ \E v \in Values : PushBegin(p, v)
      PROVE  IInv'
  BY <1>1, PushStepInv, PushBeginInv
<1>2. ASSUME NEW c \in Consumers,
             \/ PopStep(c) \/ WaitAndPopBegin(c) \/ TryPopBegin(c)
             \/ SpuriousWakeUp(c)
      PROVE  IInv'
  BY <1>2, PopStepInv
<1>3. CASE UNCHANGED vars
  BY <1>3 DEF vars, qvars, locals, IInv, Types, Locks, Room, Chain, Held, Pushing
<1> QED
  BY <1>1, <1>2, <1>3 DEF Next

LEMMA Invariant == Spec => []IInv
BY InitInv, StepInv, PTL DEF Spec

-----------------------------------------------------------------------------
(* The theorems.                                                           *)

\* Every variable keeps its type, and each lock is held by exactly the thread
\* that is inside its critical section.
THEOREM TypeCorrect == Spec => []TypeOK
<1>1. IInv => TypeOK
  BY DEF IInv, Types, Locks, TypeOK
<1> QED
  BY <1>1, Invariant, PTL

\* Each access of a push or a pop is to a node that exists and that the other
\* end is not using (FineGrainedQueue.h:65 push, 77 waitAndPop, 93 tryPop).
THEOREM NodesAreSafe == Spec => []NodesSafe
<1>1. IInv => NodesSafe
  <2> SUFFICES ASSUME IInv PROVE NodesSafe
    OBVIOUS
  <2>1. NoFieldRace
    <3>1. \A c \in Consumers : node[c] \in Nodes \cup {0} /\ node[c] < head
      BY DEF IInv, Types, Held
    <3>2. head \in Nodes /\ tail \in Nodes /\ head <= tail
      BY DEF IInv, Types, Chain
    <3>3. \A c \in Consumers : node[c] < tail
      BY <3>1, <3>2 DEF Nodes
    <3> QED
      BY <3>2, <3>3 DEF IInv, Held, NoFieldRace
  <2>2. NoUseAfterDelete
    <3>1. \A n \in freed : n < head /\ n \in Nodes /\ head \in Nodes
      BY DEF IInv, Types, Held
    <3>2. freed \cap (head..tail) = {}
      BY <3>1 DEF Nodes
    <3> QED
      BY <3>2 DEF IInv, Held, NoUseAfterDelete
  <2> QED
    BY <2>1, <2>2 DEF NodesSafe
<1> QED
  BY <1>1, Invariant, PTL

-----------------------------------------------------------------------------
(* The refinement of FifoQueue.tla.                                        *)

\* What is in the queue, and what was, are sequences of values.
SequencesOK ==
  /\ Linked \in Seq(Values) /\ Len(Linked) = tail - head
  /\ Unlinked \in Seq(Values) /\ Len(Unlinked) = head - 1

LEMMA LinkedType == Types /\ Chain => SequencesOK
<1> SUFFICES ASSUME Types, Chain PROVE SequencesOK
  OBVIOUS
<1>1. /\ head \in Nat \ {0} /\ tail \in Nat /\ head <= tail
      /\ tail - head \in Nat /\ head - 1 \in Nat
      /\ \A i \in 1..(tail - head) : head + i - 1 \in Nodes /\ head + i - 1 < tail
      /\ \A i \in 1..(head - 1) : i \in Nodes /\ i < tail
  BY MaxPushAssumption DEF Types, Chain, Nodes
<1>2. /\ \A i \in 1..(tail - head) : entry[head + i - 1] \in Values
      /\ \A i \in 1..(head - 1) : entry[i] \in Values
  BY <1>1 DEF Chain
<1>3. /\ Linked \in [1..(tail - head) -> Values]
      /\ Unlinked \in [1..(head - 1) -> Values]
  BY <1>2 DEF Linked, Unlinked
<1> QED
  BY <1>1, <1>3 DEF SequencesOK

LEMMA LinkedTypeNext == (Types /\ Chain)' => SequencesOK'
BY LinkedType, PTL

\* Moving the tail adds its value at the end.
LEMMA TailStep ==
  ASSUME IInv, IInv', NEW p \in Producers, PushTail(p)
  PROVE  Fifo!Next
<1>1. /\ tail' = tail + 1 /\ entry[tail] \in Values
      /\ UNCHANGED <<head, entry, next>>
  BY DEF PushTail, At, IInv, Chain
<1>2. /\ Linked \in Seq(Values) /\ Len(Linked) = tail - head
      /\ Linked' \in Seq(Values) /\ Len(Linked') = tail + 1 - head
      /\ tail \in Nat /\ head \in Nat /\ head <= tail
  <2>1. SequencesOK /\ SequencesOK'
    BY LinkedType, LinkedTypeNext DEF IInv
  <2>2. tail \in Nat /\ head \in Nat /\ head <= tail
    BY DEF IInv, Types, Chain, Nodes
  <2> QED
    BY <1>1, <2>1, <2>2 DEF SequencesOK
<1>3. /\ Append(Linked, entry[tail]) \in Seq(Values)
      /\ Len(Append(Linked, entry[tail])) = tail - head + 1
      /\ \A i \in 1..(tail - head) : Append(Linked, entry[tail])[i] = Linked[i]
      /\ Append(Linked, entry[tail])[tail - head + 1] = entry[tail]
  BY <1>1, <1>2, AppendProperties
<1>4. /\ \A i \in 1..(tail - head) : Linked[i] = entry[head + i - 1]
      /\ \A i \in 1..(tail + 1 - head) : Linked'[i] = entry[head + i - 1]
  BY <1>1, <1>2 DEF Linked
<1>5. \A i \in 1..(tail + 1 - head) :
        Linked'[i] = Append(Linked, entry[tail])[i]
  <2> SUFFICES ASSUME NEW i \in 1..(tail + 1 - head)
               PROVE  Linked'[i] = Append(Linked, entry[tail])[i]
    OBVIOUS
  <2>1. CASE i \in 1..(tail - head)
    BY <1>3, <1>4, <2>1
  <2>2. CASE i = tail - head + 1
    <3>1. head + i - 1 = tail
      BY <1>2, <2>2
    <3> QED
      BY <1>3, <1>4, <2>2, <3>1
  <2> QED
    BY <1>2, <2>1, <2>2
<1>6. Linked' = Append(Linked, entry[tail])
  BY <1>2, <1>3, <1>5, SeqEqual
<1>7. UNCHANGED Unlinked
  BY <1>1 DEF Unlinked
<1> QED
  BY <1>1, <1>6, <1>7 DEF Fifo!Next, Fifo!Push

\* Moving the head takes the first value out.
LEMMA HeadStep ==
  ASSUME IInv, IInv', head < tail, head' = next[head],
         UNCHANGED <<tail, entry>>
  PROVE  Fifo!Next
<1>1. /\ head' = head + 1
      /\ head \in Nat /\ head >= 1 /\ tail \in Nat
  BY DEF IInv, Types, Chain, Nodes
<1>2. /\ Linked \in Seq(Values) /\ Len(Linked) = tail - head
      /\ Linked' \in Seq(Values) /\ Len(Linked') = tail - (head + 1)
      /\ Unlinked \in Seq(Values) /\ Len(Unlinked) = head - 1
      /\ Unlinked' \in Seq(Values) /\ Len(Unlinked') = head
  <2>1. SequencesOK /\ SequencesOK'
    BY LinkedType, LinkedTypeNext DEF IInv
  <2> QED
    BY <1>1, <2>1 DEF SequencesOK
<1>3. /\ Linked # <<>> /\ Head(Linked) = Linked[1]
      /\ Tail(Linked) \in Seq(Values) /\ Len(Tail(Linked)) = tail - head - 1
      /\ \A i \in 1..(tail - head - 1) : Tail(Linked)[i] = Linked[i + 1]
      /\ Head(Linked) \in Values
  BY <1>1, <1>2, EmptySeq, HeadTailProperties
<1>4. /\ \A i \in 1..(tail - head) : Linked[i] = entry[head + i - 1]
      /\ \A i \in 1..(tail - (head + 1)) : Linked'[i] = entry[head + 1 + i - 1]
      /\ \A i \in 1..(head - 1) : Unlinked[i] = entry[i]
      /\ \A i \in 1..head : Unlinked'[i] = entry[i]
  BY <1>1 DEF Linked, Unlinked
<1>5. Linked' = Tail(Linked)
  <2>1. \A i \in 1..(tail - (head + 1)) : Linked'[i] = Tail(Linked)[i]
    BY <1>1, <1>3, <1>4
  <2> QED
    BY <1>1, <1>2, <1>3, <2>1, SeqEqual
<1>6. Unlinked' = Append(Unlinked, Head(Linked))
  <2>1. Head(Linked) = entry[head]
    BY <1>1, <1>3, <1>4
  <2>2. /\ Append(Unlinked, Head(Linked)) \in Seq(Values)
        /\ Len(Append(Unlinked, Head(Linked))) = head
        /\ \A i \in 1..(head - 1) :
             Append(Unlinked, Head(Linked))[i] = Unlinked[i]
        /\ Append(Unlinked, Head(Linked))[head] = Head(Linked)
    BY <1>1, <1>2, <1>3, AppendProperties
  <2>3. \A i \in 1..head : Unlinked'[i] = Append(Unlinked, Head(Linked))[i]
    BY <1>1, <1>4, <2>1, <2>2
  <2> QED
    BY <1>2, <2>2, <2>3, SeqEqual
<1> QED
  BY <1>3, <1>5, <1>6 DEF Fifo!Next, Fifo!Pop

\* A value that is being written is behind those of the queue.
LEMMA EntryStep ==
  ASSUME IInv, NEW p \in Producers, PushEntry(p)
  PROVE  UNCHANGED <<Linked, Unlinked>>
<1>1. /\ entry' = [entry EXCEPT ![tail] = arg[p]] /\ UNCHANGED <<head, tail>>
  BY DEF PushEntry
<1>2. /\ head \in Nat /\ head >= 1 /\ tail \in Nat /\ head <= tail
      /\ entry \in [Nodes -> Values \cup {Default}]
  BY DEF IInv, Types, Chain, Nodes
<1>3. /\ \A i \in 1..(tail - head) : entry'[head + i - 1] = entry[head + i - 1]
      /\ \A i \in 1..(head - 1) : entry'[i] = entry[i]
  <2>1. \A n \in Nodes : n # tail => entry'[n] = entry[n]
    BY <1>1, <1>2
  <2>2. /\ \A i \in 1..(tail - head) : head + i - 1 \in Nodes /\ head + i - 1 # tail
        /\ \A i \in 1..(head - 1) : i \in Nodes /\ i # tail
    BY <1>2, MaxPushAssumption DEF IInv, Types, Nodes
  <2> QED
    BY <2>1, <2>2
<1> QED
  BY <1>1, <1>3 DEF Linked, Unlinked

\* The list with its two locks is a first-in first-out queue
\* (FineGrainedQueue.h:65 push, 77 waitAndPop, 93 tryPop).
THEOREM ListImplementsQueue == Spec => Implements
<1>1. Init => Fifo!Init
  BY DEF Init, Fifo!Init, Linked, Unlinked
<1>2. IInv /\ IInv' /\ [Next]_vars => [Fifo!Next]_Fifo!vars
  <2> SUFFICES ASSUME IInv, IInv', [Next]_vars
               PROVE  Fifo!Next \/ UNCHANGED <<Linked, Unlinked>>
    BY DEF Fifo!vars
  <2>1. CASE UNCHANGED qvars
    BY <2>1 DEF qvars, Linked, Unlinked
  <2>2. ASSUME NEW p \in Producers, PushTail(p)
        PROVE  Fifo!Next
    BY <2>2, TailStep
  <2>3. ASSUME NEW p \in Producers, PushEntry(p)
        PROVE  UNCHANGED <<Linked, Unlinked>>
    BY <2>3, EntryStep
  <2>4. ASSUME NEW p \in Producers, PushNext(p)
        PROVE  UNCHANGED <<Linked, Unlinked>>
    BY <2>4 DEF PushNext, Linked, Unlinked
  <2>5. ASSUME NEW c \in Consumers, Take(c) \/ TryTake(c)
        PROVE  Fifo!Next
    <3>1. /\ head < tail /\ head' = next[head] /\ UNCHANGED <<tail, entry>>
      BY <2>5 DEF Take, TryTake, At, IInv, Held
    <3> QED
      BY <3>1, HeadStep
  <2>6. ASSUME NEW p \in Producers,
               PushLock(p) \/ Notify(p) \/ \E v \in Values : PushBegin(p, v)
        PROVE  UNCHANGED qvars
    BY <2>6 DEF PushLock, Notify, PushBegin
  <2>7. ASSUME NEW c \in Consumers,
               \/ WaitTest(c) \/ FallAsleep(c) \/ WakeUp(c) \/ CopyEntry(c)
               \/ TryTestEmpty(c) \/ TryTestNotEmpty(c) \/ DeleteNode(c)
               \/ WaitAndPopBegin(c) \/ TryPopBegin(c) \/ SpuriousWakeUp(c)
        PROVE  UNCHANGED qvars
    BY <2>7 DEF WaitTest, FallAsleep, WakeUp, CopyEntry, TryTestEmpty,
         TryTestNotEmpty, DeleteNode, WaitAndPopBegin, TryPopBegin,
         SpuriousWakeUp, LockHead
  <2>8. UNCHANGED vars => UNCHANGED qvars
    BY DEF vars
  <2> QED
    BY <2>1, <2>2, <2>3, <2>4, <2>5, <2>6, <2>7, <2>8
       DEF Next, PushStep, PopStep
<1> QED
  BY <1>1, <1>2, Invariant, PTL DEF Spec, Implements, Fifo!Spec
===============================================================================
