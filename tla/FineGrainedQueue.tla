--------------------------- MODULE FineGrainedQueue ---------------------------
(***************************************************************************)
(* ds/FineGrainedQueue/FineGrainedQueue.h: a linked list with a dummy last *)
(* node, whose ends have a lock each.  push() works under tail_mutex_ and  *)
(* the pops under head_mutex_; a pop looks at the other end only through   *)
(* getTail().  So a pop reads entry_ and next_ of the first node without   *)
(* the lock push() writes them under, and push() notifies notEmpty_        *)
(* without the lock waitAndPop() waits with.                               *)
(*                                                                         *)
(* The steps inside the critical sections are kept apart, because the      *)
(* other end's critical sections are not excluded by them.  Nodes are      *)
(* numbered in the order push() links them: node n is reached from node    *)
(* n - 1, and the constructor allocates node 1.                            *)
(***************************************************************************)
EXTENDS Naturals, Sequences, FiniteSets

CONSTANTS Producers,   \* the threads that push
          Consumers,   \* the threads that pop
          Values,      \* what they push
          Default,     \* the entry_ of a new node
          Nobody,      \* the holder of a free lock
          MaxPush      \* bound: calls of push()

ASSUME ThreadsAssumption ==
  /\ Producers \cap Consumers = {}
  /\ Nobody \notin Producers \cup Consumers
ASSUME DefaultAssumption == Default \notin Values
ASSUME MaxPushAssumption == MaxPush \in Nat

Nodes == 1..(MaxPush + 1)
Threads == Producers \cup Consumers

VARIABLES
  head, tail,          \* head_ and tail_
  entry,               \* entry_ of each node
  next,                \* next_ of each node, 0 for nullptr
  headLock, tailLock,  \* who holds head_mutex_ and tail_mutex_, or Nobody
  waiting,             \* the threads asleep on notEmpty_
  pc,                  \* where each thread is in its call
  arg,                 \* what each producer pushes
  node,                \* retNode or tobeDeleted of each consumer, 0 for nullptr
  freed,               \* the nodes deleted so far
  ret                  \* what each consumer's last pop returned

qvars == <<head, tail, entry, next>>
locals == <<arg, node, freed, ret>>
vars == <<qvars, headLock, tailLock, waiting, pc, locals>>

Init ==
  /\ head = 1 /\ tail = 1
  /\ entry = [n \in Nodes |-> Default]
  /\ next = [n \in Nodes |-> 0]
  /\ headLock = Nobody /\ tailLock = Nobody
  /\ waiting = {}
  /\ pc = [t \in Threads |-> "idle"]
  /\ arg = [t \in Producers |-> Default]
  /\ node = [t \in Consumers |-> 0]
  /\ freed = {}
  /\ ret = [t \in Consumers |-> Default]

At(t, from, to) ==
  /\ pc[t] = from
  /\ pc' = [pc EXCEPT ![t] = to]

-----------------------------------------------------------------------------
(* push(): the new node, then the critical section, then notify_all().     *)

PushBegin(p, v) ==
  /\ At(p, "idle", "pushLock")
  /\ tail + Cardinality({q \in Producers :
       pc[q] \in {"pushLock", "pushEntry", "pushNext", "pushTail"}}) <= MaxPush
  /\ arg' = [arg EXCEPT ![p] = v]
  /\ UNCHANGED <<qvars, headLock, tailLock, waiting, node, freed, ret>>

PushLock(p) ==
  /\ At(p, "pushLock", "pushEntry")
  /\ tailLock = Nobody
  /\ tailLock' = p
  /\ UNCHANGED <<qvars, headLock, waiting, locals>>

\* tail_->entry_ = std::move( val )
PushEntry(p) ==
  /\ At(p, "pushEntry", "pushNext")
  /\ entry' = [entry EXCEPT ![tail] = arg[p]]
  /\ UNCHANGED <<head, tail, next, headLock, tailLock, waiting, locals>>

\* tail_->next_ = newNode.release()
PushNext(p) ==
  /\ At(p, "pushNext", "pushTail")
  /\ next' = [next EXCEPT ![tail] = tail + 1]
  /\ UNCHANGED <<head, tail, entry, headLock, tailLock, waiting, locals>>

\* Mutant of PushTail: tail_mutex_ is not released.
PushTailKeepsLock(p) ==
  /\ At(p, "pushTail", "notify")
  /\ tail' = next[tail]
  /\ UNCHANGED <<head, entry, next, headLock, tailLock, waiting, locals>>

\* tail_ = tail_->next_, and the end of the critical section.
PushTail(p) ==
  /\ At(p, "pushTail", "notify")
  /\ tail' = next[tail]
  /\ tailLock' = Nobody
  /\ UNCHANGED <<head, entry, next, headLock, waiting, locals>>

\* notEmpty_.notify_all(), under no lock.
Notify(p) ==
  /\ At(p, "notify", "idle")
  /\ waiting' = {}
  /\ UNCHANGED <<qvars, headLock, tailLock, locals>>

-----------------------------------------------------------------------------
(* waitAndPop() and tryPop().                                              *)

\* Mutant of LockHead: the pops do not exclude each other.
NoLockHead(c, to) ==
  /\ headLock' = c
  /\ pc' = [pc EXCEPT ![c] = to]
  /\ UNCHANGED <<qvars, tailLock, waiting, locals>>

LockHead(c, to) ==
  /\ headLock = Nobody
  /\ headLock' = c
  /\ pc' = [pc EXCEPT ![c] = to]
  /\ UNCHANGED <<qvars, tailLock, waiting, locals>>

WaitAndPopBegin(c) == pc[c] = "idle" /\ LockHead(c, "waitTest")

TryPopBegin(c) == pc[c] = "idle" /\ LockHead(c, "tryTest")

\* The predicate of the wait: getTail() takes and releases tail_mutex_.
WaitTest(c) ==
  /\ At(c, "waitTest", IF head # tail THEN "take" ELSE "falling")
  /\ tailLock = Nobody
  /\ UNCHANGED <<qvars, headLock, tailLock, waiting, locals>>

\* The wait releases head_mutex_ and sleeps, in one step.
FallAsleep(c) ==
  /\ At(c, "falling", "waiting")
  /\ headLock' = Nobody
  /\ waiting' = waiting \cup {c}
  /\ UNCHANGED <<qvars, tailLock, locals>>

\* A thread that is notified takes head_mutex_ and tests again.
WakeUp(c) ==
  /\ pc[c] = "waiting" /\ c \notin waiting
  /\ LockHead(c, "waitTest")

\* A condition variable may wake a thread nobody notified.
SpuriousWakeUp(c) ==
  /\ c \in waiting
  /\ waiting' = waiting \ {c}
  /\ UNCHANGED <<qvars, headLock, tailLock, pc, locals>>

\* retNode = head_; head_ = head_->next_, and the end of the critical section.
Take(c) ==
  /\ At(c, "take", "copy")
  /\ node' = [node EXCEPT ![c] = head]
  /\ head' = next[head]
  /\ headLock' = Nobody
  /\ UNCHANGED <<tail, entry, next, tailLock, waiting, arg, freed, ret>>

\* waitAndPop() moves the value out of the node it has unlinked.
CopyEntry(c) ==
  /\ At(c, "copy", "delete")
  /\ ret' = [ret EXCEPT ![c] = entry[node[c]]]
  /\ UNCHANGED <<qvars, headLock, tailLock, waiting, arg, node, freed>>

TryTestEmpty(c) ==
  /\ At(c, "tryTest", "idle")
  /\ tailLock = Nobody
  /\ head = tail
  /\ headLock' = Nobody
  /\ UNCHANGED <<qvars, tailLock, waiting, locals>>

\* Mutant of TryTestNotEmpty: head_ is not compared with the tail.
TryWithoutTest(c) ==
  /\ At(c, "tryTest", "tryTake")
  /\ tailLock = Nobody
  /\ UNCHANGED <<qvars, headLock, tailLock, waiting, locals>>

TryTestNotEmpty(c) ==
  /\ At(c, "tryTest", "tryTake")
  /\ tailLock = Nobody
  /\ head # tail
  /\ UNCHANGED <<qvars, headLock, tailLock, waiting, locals>>

\* Mutant of TryTake: everything up to the tail is unlinked.
TryTakeAll(c) ==
  /\ At(c, "tryTake", "delete")
  /\ ret' = [ret EXCEPT ![c] = entry[head]]
  /\ node' = [node EXCEPT ![c] = head]
  /\ head' = tail
  /\ headLock' = Nobody
  /\ UNCHANGED <<tail, entry, next, tailLock, waiting, arg, freed>>

\* tryPop() moves the value out before it unlinks the node.
TryTake(c) ==
  /\ At(c, "tryTake", "delete")
  /\ ret' = [ret EXCEPT ![c] = entry[head]]
  /\ node' = [node EXCEPT ![c] = head]
  /\ head' = next[head]
  /\ headLock' = Nobody
  /\ UNCHANGED <<tail, entry, next, tailLock, waiting, arg, freed>>

DeleteNode(c) ==
  /\ At(c, "delete", "idle")
  /\ freed' = freed \cup {node[c]}
  /\ node' = [node EXCEPT ![c] = 0]
  /\ UNCHANGED <<qvars, headLock, tailLock, waiting, arg, ret>>

-----------------------------------------------------------------------------

PushStep(p) ==
  PushLock(p) \/ PushEntry(p) \/ PushNext(p) \/ PushTail(p) \/ Notify(p)

PopStep(c) ==
  \/ WaitTest(c) \/ FallAsleep(c) \/ WakeUp(c) \/ Take(c) \/ CopyEntry(c)
  \/ TryTestEmpty(c) \/ TryTestNotEmpty(c) \/ TryTake(c) \/ DeleteNode(c)

Next ==
  \/ \E p \in Producers : PushStep(p) \/ \E v \in Values : PushBegin(p, v)
  \/ \E c \in Consumers :
       PopStep(c) \/ WaitAndPopBegin(c) \/ TryPopBegin(c) \/ SpuriousWakeUp(c)

Spec == Init /\ [][Next]_vars

\* A thread inside a call goes on with it; a lock that is released again and
\* again is acquired at last.  Threads need not begin calls, and spurious
\* wakeups need not happen.
FairSpec ==
  /\ Spec
  /\ \A p \in Producers : SF_vars(PushStep(p))
  /\ \A c \in Consumers : SF_vars(PopStep(c))

-----------------------------------------------------------------------------
(* Properties.                                                             *)

\* Every variable has its type, and each lock is held by exactly the thread
\* that is inside its critical section.
TypeOK ==
  /\ head \in Nodes /\ tail \in Nodes
  /\ entry \in [Nodes -> Values \cup {Default}]
  /\ next \in [Nodes -> Nodes \cup {0}]
  /\ waiting \subseteq Consumers
  /\ arg \in [Producers -> Values \cup {Default}]
  /\ node \in [Consumers -> Nodes \cup {0}]
  /\ freed \subseteq Nodes
  /\ ret \in [Consumers -> Values \cup {Default}]
  /\ \A p \in Producers :
       pc[p] \in {"pushEntry", "pushNext", "pushTail"} <=> tailLock = p
  /\ \A c \in Consumers :
       pc[c] \in {"waitTest", "falling", "take", "tryTest", "tryTake"}
         <=> headLock = c

\* No pop reads the fields of a node that a push may be writing.
NoFieldRace ==
  /\ \A c \in Consumers :
       /\ pc[c] \in {"take", "tryTake"} => head < tail
       /\ pc[c] = "copy" => node[c] < tail
  /\ head <= tail

\* No node is deleted while it is linked, or in the hands of another pop; so
\* none is deleted twice.
NoUseAfterDelete ==
  /\ freed \cap (head..tail) = {}
  /\ \A c \in Consumers : node[c] \notin freed
  /\ \A c, d \in Consumers : c # d /\ node[c] # 0 => node[c] # node[d]

\* The two locks protect enough: each access of a push or a pop is to a node
\* that exists and that the other end is not using (FineGrainedQueue.h:65
\* push, 77 waitAndPop, 93 tryPop).
NodesSafe == NoFieldRace /\ NoUseAfterDelete

\* What has been pushed and not unlinked, and what has been unlinked.
Linked == [i \in 1..(tail - head) |-> entry[head + i - 1]]
Unlinked == [i \in 1..(head - 1) |-> entry[i]]

Fifo == INSTANCE FifoQueue WITH items <- Linked, out <- Unlinked

\* The list with its two locks is a first-in first-out queue: a push takes
\* effect where tail_ moves and a pop where head_ moves.
Implements == Fifo!Spec

\* Calls of tryPop() and push() return: the pops take head_mutex_ and, inside
\* it, tail_mutex_, and that cannot deadlock with the pushes.
CallsReturn ==
  /\ \A c \in Consumers : (pc[c] = "tryTest") ~> (pc[c] = "idle")
  /\ \A p \in Producers : (pc[p] = "pushLock") ~> (pc[p] = "idle")

\* A thread asleep in waitAndPop() wakes up if the queue is not empty.
WaitAndPopReturns ==
  \A c \in Consumers :
    (pc[c] = "waiting" /\ head # tail) ~> (pc[c] # "waiting" \/ head = tail)
=============================================================================
