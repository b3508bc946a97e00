------------------------------ MODULE LazyList ------------------------------
(***************************************************************************)
(* ds/LazyList over the buckets of ds/HashSet, with utility/SpinLock:      *)
(* sorted lists in which add() and remove() walk without locks, lock the   *)
(* two nodes they found, and begin again if the two are no longer          *)
(* neighbours; contains() and get() never lock.                            *)
(*                                                                         *)
(* An entry is a key with a value (minimemcached's EntryPtr compares its   *)
(* keys).  Nodes are numbered: the head of list i is i, its tail Len + i,  *)
(* and the nodes of add() follow; a deleted node leaves the domain of      *)
(* "node".                                                                 *)
(*                                                                         *)
(* remove() deletes its node although others may stand on it (the FIXME in *)
(* LazyList.h:144), so the program has to call it alone, as the tests and  *)
(* minimemcached, which never removes, do.  Then even the lock of the      *)
(* deleted node, which remove() still releases, is its own.                *)
(***************************************************************************)
EXTENDS Integers, Functions

CONSTANTS Threads, NoThread,
          Len,                \* number of buckets
          Keys, Values, NoValue,
          DefaultKey,         \* T(), the head's key
          MaxKey,             \* max_val, the tail's key
          MaxCalls            \* calls of one thread

ASSUME KeysAssumption ==
  /\ Len \in Nat \ {0} /\ DefaultKey \in Nat /\ MaxKey \in Nat
  /\ DefaultKey < MaxKey /\ Keys \subseteq (DefaultKey + 1)..(MaxKey - 1)
  /\ NoValue \notin Values /\ NoThread \notin Threads

VARIABLES node,     \* entry_ (key and value), next_, marked_, spinLock_
          made,     \* how many nodes add() has made
          calls, pc, op, pred, curr,
          result,   \* what the call returns
          seen      \* values its key has had during the call (history)

vars == <<node, made, calls, pc, op, pred, curr, result, seen>>

head(i) == i
tail(i) == Len + i
Buckets == 0..Len - 1
Bucket(k) == k % Len                  \* std::hash of an integer
NoOp == [name |-> "none", key |-> DefaultKey]

Node(k, v, next) == [key |-> k, value |-> v, next |-> next,
                     marked |-> FALSE, lock |-> NoThread]

Init ==
  /\ node = [n \in 0..2 * Len - 1 |->
               IF n < Len THEN Node(DefaultKey, NoValue, tail(n))
               ELSE Node(MaxKey, NoValue, n)]
  /\ made = 0
  /\ calls = [t \in Threads |-> 0] /\ pc = [t \in Threads |-> "idle"]
  /\ op = [t \in Threads |-> NoOp]
  /\ pred = [t \in Threads |-> 0] /\ curr = [t \in Threads |-> 0]
  /\ result = [t \in Threads |-> NoValue]
  /\ seen = [t \in Threads |-> {}]

\* The nodes that at most MaxKey links lead to from the head of list i: as
\* keys grow along a list, these are all that are linked.
Reached(i) ==
  LET within[n \in 0..MaxKey] ==
        IF n = 0 THEN {head(i)}
        ELSE UNION {{m, node[m].next} : m \in within[n - 1]}
  IN  within[MaxKey]

\* The nodes of list i, but for head and tail.
Nodes(i) == Reached(i) \ {head(i), tail(i)}

Table ==
  [k \in Keys |->
     LET here == {n \in Nodes(Bucket(k)) : node[n].key = k /\ ~node[n].marked}
     IN  IF here = {} THEN NoValue ELSE node[CHOOSE n \in here : TRUE].value]

Ops == [name : {"remove", "contains", "get"}, key : Keys]
         \union [name : {"add"}, key : Keys, value : Values]

key(t) == op[t].key
Writes(t) == op[t].name \in {"add", "remove"}
Goto(t, place) == pc' = [pc EXCEPT ![t] = place]

\* The values the running calls have seen, when k takes the value v.
SeenWith(k, v) ==
  [t \in Threads |-> IF pc[t] # "idle" /\ key(t) = k THEN seen[t] \union {v}
                     ELSE seen[t]]

\* remove() runs alone.
MayCall(t, o) ==
  \A u \in Threads \ {t} :
    pc[u] # "idle" => o.name # "remove" /\ op[u].name # "remove"

\* contains() begins at the head, the others behind it.
First(o) == LET h == head(Bucket(o.key))
            IN  IF o.name = "contains" THEN h ELSE node[h].next

Call(t) ==
  /\ pc[t] = "idle" /\ calls[t] < MaxCalls
  /\ \E o \in Ops :
       /\ MayCall(t, o)
       /\ op' = [op EXCEPT ![t] = o]
       /\ pred' = [pred EXCEPT ![t] = head(Bucket(o.key))]
       /\ curr' = [curr EXCEPT ![t] = First(o)]
       /\ seen' = [seen EXCEPT ![t] = {Table[o.key]}]
  /\ calls' = [calls EXCEPT ![t] = @ + 1] /\ Goto(t, "walk")
  /\ result' = [result EXCEPT ![t] = NoValue]
  /\ UNCHANGED <<node, made>>

Walk(t) ==
  /\ pc[t] = "walk" /\ node[curr[t]].key < key(t)
  /\ pred' = [pred EXCEPT ![t] = curr[t]]
  /\ curr' = [curr EXCEPT ![t] = node[curr[t]].next]
  /\ UNCHANGED <<node, made, calls, pc, op, result, seen>>

\* Mutant of Hit: a get takes the node it stops at for the key's.
HitAnything(t) == ~node[curr[t]].marked

Hit(t) == node[curr[t]].key = key(t) /\ ~node[curr[t]].marked

\* contains() and get(); for contains() any value stands for true.
Read(t) ==
  /\ pc[t] = "walk" /\ node[curr[t]].key >= key(t) /\ ~Writes(t)
  /\ result' = [result EXCEPT ![t] = IF Hit(t) THEN node[curr[t]].value
                                     ELSE NoValue]
  /\ Goto(t, "return")
  /\ UNCHANGED <<node, made, calls, op, pred, curr, seen>>

\* Mutant of Take: the lock is taken whether it is free or not.
TakeAnyway(t, n) ==
  /\ node' = [node EXCEPT ![n].lock = t]
  /\ UNCHANGED <<made, calls, op, pred, curr, result, seen>>

\* SpinLock::lock(): taken where test_and_set finds the flag clear.
Take(t, n) == /\ node[n].lock = NoThread
              /\ node' = [node EXCEPT ![n].lock = t]
              /\ UNCHANGED <<made, calls, op, pred, curr, result, seen>>

LockPred(t) == /\ pc[t] = "walk" /\ node[curr[t]].key >= key(t) /\ Writes(t)
               /\ Take(t, pred[t]) /\ Goto(t, "lockCurr")

LockCurr(t) == /\ pc[t] = "lockCurr"
               /\ Take(t, curr[t]) /\ Goto(t, "locked")

\* Mutant of validate: neighbours are not looked for.
ValidateMarks(p, c) == ~node[p].marked /\ ~node[c].marked

validate(p, c) == /\ ~node[p].marked /\ ~node[c].marked
                  /\ node[p].next = c

\* Mutant of Unlocked: only the outer guard releases its lock.
UnlockedPred(t) == [node EXCEPT ![pred[t]].lock = NoThread]

\* Both guards end.
Unlocked(t) == [n \in DOMAIN node |->
                  IF n \in {pred[t], curr[t]}
                  THEN [node[n] EXCEPT !.lock = NoThread] ELSE node[n]]

\* What is validated stays so, as the two locks are held.
Validated(t) ==
  /\ pc[t] = "locked" /\ validate(pred[t], curr[t])
  /\ Goto(t, "valid")
  /\ UNCHANGED <<node, made, calls, op, pred, curr, result, seen>>

Retry(t) ==
  /\ pc[t] = "locked" /\ ~validate(pred[t], curr[t])
  /\ node' = Unlocked(t) /\ Goto(t, "again")
  /\ UNCHANGED <<made, calls, op, pred, curr, result, seen>>

WalkAgain(t) ==
  LET h == head(Bucket(key(t)))
  IN  /\ pc[t] = "again" /\ Goto(t, "walk")
      /\ pred' = [pred EXCEPT ![t] = h]
      /\ curr' = [curr EXCEPT ![t] = node[h].next]
      /\ UNCHANGED <<node, made, calls, op, result, seen>>

Valid(t, name, equal) ==
  /\ pc[t] = "valid" /\ op[t].name = name
  /\ (node[curr[t]].key = key(t)) = equal

Overwrite(t) ==
  /\ Valid(t, "add", TRUE)
  /\ node' = [node EXCEPT ![curr[t]].value = op[t].value]
  /\ seen' = SeenWith(key(t), op[t].value) /\ Goto(t, "unlock")
  /\ UNCHANGED <<made, calls, op, pred, curr, result>>

\* The new node is filled before it is linked.
Insert(t) ==
  LET n == 2 * Len + made
  IN  /\ Valid(t, "add", FALSE)
      /\ made' = made + 1
      /\ node' = [m \in DOMAIN node \union {n} |->
                    IF m = n THEN Node(key(t), op[t].value, curr[t])
                    ELSE IF m = pred[t] THEN [node[m] EXCEPT !.next = n]
                    ELSE node[m]]
      /\ seen' = SeenWith(key(t), op[t].value) /\ Goto(t, "unlock")
      /\ UNCHANGED <<calls, op, pred, curr, result>>

RemoveNothing(t) ==
  /\ Valid(t, "remove", FALSE) /\ Goto(t, "unlock")
  /\ UNCHANGED <<node, made, calls, op, pred, curr, result, seen>>

\* A remove that finds its key returns true, here the key's value.
Mark(t) ==
  /\ Valid(t, "remove", TRUE)
  /\ node' = [node EXCEPT ![curr[t]].marked = TRUE]
  /\ result' = [result EXCEPT ![t] = node[curr[t]].value]
  /\ seen' = SeenWith(key(t), NoValue) /\ Goto(t, "unlink")
  /\ UNCHANGED <<made, calls, op, pred, curr>>

Unlink(t) ==
  /\ pc[t] = "unlink" /\ Goto(t, "delete")
  /\ node' = [node EXCEPT ![pred[t]].next = node[curr[t]].next]
  /\ UNCHANGED <<made, calls, op, pred, curr, result, seen>>

Delete(t) ==
  /\ pc[t] = "delete" /\ Goto(t, "unlock")
  /\ node' = Restrict(node, DOMAIN node \ {curr[t]})
  /\ UNCHANGED <<made, calls, op, pred, curr, result, seen>>

Unlock(t) ==
  /\ pc[t] = "unlock" /\ node' = Unlocked(t) /\ Goto(t, "return")
  /\ UNCHANGED <<made, calls, op, pred, curr, result, seen>>

Return(t) ==
  /\ pc[t] = "return" /\ Goto(t, "idle")
  /\ op' = [op EXCEPT ![t] = NoOp]
  /\ seen' = [seen EXCEPT ![t] = {}]
  /\ result' = [result EXCEPT ![t] = NoValue]
  /\ pred' = [pred EXCEPT ![t] = 0] /\ curr' = [curr EXCEPT ![t] = 0]
  /\ UNCHANGED <<node, made, calls>>

CallStep(t) ==
  \/ Walk(t) \/ Read(t) \/ LockPred(t) \/ LockCurr(t) \/ Retry(t)
  \/ Validated(t) \/ WalkAgain(t) \/ Overwrite(t) \/ Insert(t) \/ RemoveNothing(t)
  \/ Mark(t) \/ Unlink(t) \/ Delete(t) \/ Unlock(t) \/ Return(t)

Next == \E t \in Threads : Call(t) \/ CallStep(t)

Spec == Init /\ [][Next]_vars

\* A call goes on, and as calls are bounded, a lock is free at last.
FairSpec == Spec /\ \A t \in Threads : WF_vars(CallStep(t))
-----------------------------------------------------------------------------
\* Every list is sorted and ends at its tail, and no link and no call leads
\* to a deleted node, but for the remove() that deleted it (LazyList.h:128).
ListsSound ==
  /\ \A n \in DOMAIN node : node[n].next \in DOMAIN node
  /\ \A n \in DOMAIN node \ {tail(i) : i \in Buckets} :
       node[n].key < node[node[n].next].key
  /\ \A t \in Threads :
       {pred[t], curr[t]} \ DOMAIN node # {} =>
         op[t].name = "remove" /\ pc[t] \in {"unlock", "return"}

\* What a call without locks returns, its key had at some time during the
\* call; so do remove's result and what it leaves behind (LazyList.h:158
\* contains, 195 get, 128 remove).
ResultsAreCurrent ==
  \A t \in Threads : pc[t] = "return" /\ op[t].name # "add" =>
    IF op[t].name = "contains"
    THEN \E v \in seen[t] : (v = NoValue) = (result[t] = NoValue)
    ELSE result[t] \in seen[t]

\* Readers without locks are safe: they follow sound lists to a result that
\* was true during the call.
ReadersSafe == ListsSound /\ ResultsAreCurrent

\* All threads together add to and remove from one table (LazyList.h:128
\* remove, 169 add; HashSet.h:58, 69).
Abstract == INSTANCE KeyTable WITH table <- Table
Implements == Abstract!Spec

\* Every call returns: the two locks are taken in the order of the list,
\* and a failed validation means that another call has succeeded.
CallsReturn == \A t \in Threads : pc[t] # "idle" ~> pc[t] = "idle"
=============================================================================
