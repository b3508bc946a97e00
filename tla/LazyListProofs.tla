---------------------------- MODULE LazyListProofs ----------------------------
(***************************************************************************)
(* Proofs about LazyList.tla for any threads, buckets, keys and values:    *)
(* the lists with their locks implement one table, and calls without locks *)
(* follow sound lists to results that were true during the call.           *)
(*                                                                         *)
(* The argument.  The nodes of a list that are linked form one chain:      *)
(* every link leads to the next greater key there is (Sorted).  A call     *)
(* that has locked two neighbours keeps them neighbours (Locks), so that   *)
(* what it does to the chain is an addition or a removal at that place.  A *)
(* reader that has not passed its key's place yet cannot miss a node that  *)
(* has been there all the time (Current).                                  *)
(***************************************************************************)
EXTENDS LazyList, WellFoundedInduction, TLAPS

-----------------------------------------------------------------------------
(* The inductive invariant.                                                *)

\* The list a node belongs to.
List(n) == IF n < Len THEN n
           ELSE IF n < 2 * Len THEN n - Len ELSE Bucket(node[n].key)

\* The nodes that are linked: all but the one a remove is about to delete.
Linked == {n \in DOMAIN node :
             \A t \in Threads : pc[t] = "delete" => curr[t] # n}

Running(t) == pc[t] # "idle"
Holding == {"locked", "valid", "unlink", "delete", "unlock"}
Places == Holding \union {"idle", "walk", "lockCurr", "again", "return"}
Results == Values \union {NoValue}
Records == [key : Nat, value : Results, next : Nat, marked : BOOLEAN,
            lock : Threads \union {NoThread}]

\* The types, but for what is said of nodes below.
Types ==
  /\ made \in Nat
  /\ DOMAIN node \subseteq 0..(2 * Len + made - 1)
  /\ \A n \in DOMAIN node : node[n] \in Records
  /\ calls \in [Threads -> Nat] /\ pc \in [Threads -> Places]
  /\ op \in [Threads -> Ops \union {NoOp}]
  /\ pred \in [Threads -> Nat] /\ curr \in [Threads -> Nat]
  /\ result \in [Threads -> Results]
  /\ seen \in [Threads -> SUBSET Results]

\* The ends of the lists, and what is between them.
Ends ==
  /\ 0..(2 * Len - 1) \subseteq Linked
  /\ \A i \in Buckets :
       /\ node[head(i)].key = DefaultKey /\ node[tail(i)].key = MaxKey
       /\ node[tail(i)].next = tail(i)
  /\ \A n \in DOMAIN node : n >= 2 * Len =>
       node[n].key \in Keys /\ node[n].value \in Values

\* Links lead to greater keys of the same list, and past no node of it.
Sorted ==
  /\ \A n \in DOMAIN node : ~(n >= Len /\ n < 2 * Len) =>
       /\ node[n].next \in Linked
       /\ List(node[n].next) = List(n)
       /\ node[n].key < node[node[n].next].key
  /\ \A n, m \in Linked : List(n) = List(m) =>
       /\ node[n].key < node[m].key => node[node[n].next].key <= node[m].key
       /\ node[n].key = node[m].key => n = m

\* A remove runs alone, and what it has done to its node.
RemoveOf(t) ==
  /\ Running(t) /\ op[t].name = "remove" =>
       \A u \in Threads : u # t => ~Running(u)
  /\ pc[t] \in {"unlink", "delete"} =>
       /\ op[t].name = "remove" /\ node[curr[t]].marked
       /\ node[curr[t]].key = key(t)
  /\ pc[t] = "delete" => node[pred[t]].next = node[curr[t]].next

\* Only removes mark nodes.
Removes ==
  /\ \A n \in DOMAIN node : node[n].marked =>
       \E t \in Threads : pc[t] \in {"unlink", "delete"} /\ curr[t] = n
  /\ \A t \in Threads : RemoveOf(t)

\* A call stands on two nodes of its key's list.
WalkOf(t) ==
  /\ pred[t] \in Linked
  /\ \/ curr[t] \in Linked
     \/ pc[t] = "delete" /\ curr[t] \in DOMAIN node
     \/ op[t].name = "remove" /\ pc[t] \in {"unlock", "return"}
          /\ curr[t] \notin DOMAIN node
  /\ ~Running(t) => op[t] = NoOp /\ pred[t] = 0 /\ curr[t] = 0
  /\ Running(t) =>
       /\ op[t] \in Ops
       /\ List(pred[t]) = Bucket(key(t)) /\ node[pred[t]].key < key(t)
       /\ curr[t] \in DOMAIN node => List(curr[t]) = Bucket(key(t))
  /\ pc[t] \in Holding \union {"lockCurr", "again"} => Writes(t)
  /\ pc[t] \notin {"unlink", "delete", "unlock", "return"} =>
       result[t] = NoValue
  /\ pc[t] \in Holding \union {"lockCurr"} /\ curr[t] \in DOMAIN node =>
       node[curr[t]].key >= key(t)

\* A lock is held from its guard's beginning to its end, and what has been
\* validated under both locks stays so.
LockOf(t) ==
  /\ pc[t] \in Holding \union {"lockCurr"} => node[pred[t]].lock = t
  /\ pc[t] \in Holding /\ curr[t] \in DOMAIN node => node[curr[t]].lock = t
  /\ pc[t] \in {"valid", "unlink"} => node[pred[t]].next = curr[t]
  /\ pc[t] = "valid" => ~node[pred[t]].marked /\ ~node[curr[t]].marked

\* Node n holds what the table has for key k.
StoredAt(n, k) == /\ n \in DOMAIN node /\ n >= 2 * Len
                  /\ node[n].key = k /\ ~node[n].marked

\* Key k is not in the table.
Absent(k) == \A n : ~StoredAt(n, k)

\* What a call has seen includes what its key has now, and a reader of a key
\* that has been there all the time has not passed it.
CurrentOf(t) ==
  Running(t) =>
    /\ \A n : StoredAt(n, key(t)) => node[n].value \in seen[t]
    /\ Absent(key(t)) => NoValue \in seen[t]
    /\ pc[t] = "walk" /\ ~Writes(t) /\ NoValue \notin seen[t] =>
         node[curr[t]].key <= key(t)
    /\ op[t].name # "add" /\ pc[t] \in {"unlink", "delete", "unlock", "return"} =>
         result[t] \in seen[t]

Walks == \A t \in Threads : WalkOf(t)
Locks == \A t \in Threads : LockOf(t)
Current == \A t \in Threads : CurrentOf(t)

IInv == Types /\ Ends /\ Sorted /\ Removes /\ Walks /\ Locks /\ Current


-----------------------------------------------------------------------------
(* What the model's operators say of such lists.                           *)

\* Keys have buckets, and are between those of head and tail.
LEMMA BucketType ==
  \A k \in Keys : /\ Bucket(k) \in Buckets /\ k \in Nat
                  /\ k > DefaultKey /\ k < MaxKey
<1> SUFFICES ASSUME NEW k \in Keys
             PROVE  /\ Bucket(k) \in Buckets /\ k \in Nat
                    /\ k > DefaultKey /\ k < MaxKey
  OBVIOUS
<1>1. k \in (DefaultKey + 1)..(MaxKey - 1) /\ DefaultKey \in Nat /\ MaxKey \in Nat
  BY KeysAssumption
<1> QED
  BY <1>1, KeysAssumption DEF Bucket, Buckets

\* What an operation carries.
LEMMA OpsType ==
  ASSUME NEW o \in Ops
  PROVE  /\ o.key \in Keys
         /\ o.name \in {"add", "remove", "contains", "get"}
         /\ o.name = "add" => o.value \in Values
  BY DEF Ops

\* A set of numbers has a least one.
LEMMA Least ==
  ASSUME NEW S \in SUBSET Nat, S # {}
  PROVE  \E x \in S : \A y \in S : ~(y < x)
<1> DEFINE R == OpToRel(<, Nat)
<1>1. IsWellFoundedOn(R, Nat)
  BY NatLessThanWellFounded
<1>2. \A y, x \in Nat : y < x => <<y, x>> \in R
  BY DEF OpToRel
<1> HIDE DEF R
<1>3. PICK x \in S : \A y \in S : ~(<<y, x>> \in R)
  BY <1>1, WFMin, Zenon
<1> QED
  BY <1>2, <1>3

\* What one more link leads to.
After(S) == UNION {{m, node[m].next} : m \in S}

\* The first n + 1 of the sets that Reached(i) is the last of.
IsWithin(f, i, n) ==
  f = [j \in 0..n |-> IF j = 0 THEN {head(i)} ELSE After(f[j - 1])]

\* The function that Reached defines exists.
LEMMA WithinExists ==
  ASSUME NEW i
  PROVE  \A n \in Nat : \E f : IsWithin(f, i, n)
<1> DEFINE S == {n \in Nat : ~ \E f : IsWithin(f, i, n)}
<1> SUFFICES ASSUME S # {} PROVE FALSE
  OBVIOUS
<1>1. PICK n \in S : \A m \in S : ~(m < n)
  <2>1. S \in SUBSET Nat
    OBVIOUS
  <2> HIDE DEF S
  <2> QED
    BY <2>1, Least, Zenon
<1>2. n # 0
  <2>1. IsWithin([j \in 0..0 |-> {head(i)}], i, 0)
    BY DEF IsWithin
  <2> QED
    BY <2>1
<1>3. PICK f : IsWithin(f, i, n - 1)
  <2>1. n - 1 \in Nat /\ n - 1 < n /\ n - 1 \notin S
    BY <1>1, <1>2
  <2> QED
    BY <2>1
<1> DEFINE g == [j \in 0..n |-> IF j = 0 THEN {head(i)} ELSE After(f[j - 1])]
<1>4. \A j \in 0..(n - 1) : g[j] = f[j]
  <2>1. \A j \in 0..(n - 1) :
          f[j] = IF j = 0 THEN {head(i)} ELSE After(f[j - 1])
    BY <1>3, Zenon DEF IsWithin
  <2>2. \A j \in 0..(n - 1) : j \in 0..n
    OBVIOUS
  <2> QED
    BY <2>1, <2>2
<1>5. \A j \in 0..n : j # 0 => After(g[j - 1]) = After(f[j - 1])
  <2>1. \A j \in 0..n : j # 0 => j - 1 \in 0..(n - 1)
    OBVIOUS
  <2> HIDE DEF g
  <2> QED
    BY <1>4, <2>1
<1>6. g = [j \in 0..n |-> IF j = 0 THEN {head(i)} ELSE After(g[j - 1])]
  <2>1. \A j \in 0..n : g[j] = IF j = 0 THEN {head(i)} ELSE After(g[j - 1])
    BY <1>5
  <2>2. g = [j \in DOMAIN g |-> g[j]] /\ DOMAIN g = 0..n
    OBVIOUS
  <2> HIDE DEF g
  <2> QED
    BY <2>1, <2>2
<1>7. IsWithin(g, i, n)
  BY <1>6, Zenon DEF IsWithin
<1> QED
  BY <1>7

\* Reached(i) is the last of a chain of sets.
LEMMA ReachedIs ==
  ASSUME NEW i
  PROVE  \E f : /\ Reached(i) = f[MaxKey] /\ f[0] = {head(i)}
                /\ \A n \in 1..MaxKey : f[n] = After(f[n - 1])
<1> DEFINE f == CHOOSE g : IsWithin(g, i, MaxKey)
<1>1. IsWithin(f, i, MaxKey)
  BY WithinExists, KeysAssumption, Zenon
<1>2. Reached(i) = f[MaxKey]
  BY DEF Reached, IsWithin, After
<1>3. f = [j \in 0..MaxKey |-> IF j = 0 THEN {head(i)} ELSE After(f[j - 1])]
  BY <1>1, Zenon DEF IsWithin
<1> HIDE DEF f
<1>4. f[0] = {head(i)} /\ \A n \in 1..MaxKey : f[n] = After(f[n - 1])
  <2>1. 0 \in 0..MaxKey /\ \A n \in 1..MaxKey : n \in 0..MaxKey /\ n # 0
    BY KeysAssumption
  <2> QED
    BY <1>3, <2>1, Zenon
<1> QED
  BY <1>2, <1>4

\* What the nodes of a list are, from their types and ends.
LEMMA NodeFacts ==
  ASSUME Types, Ends, NEW n \in DOMAIN node
  PROVE  /\ n \in Nat /\ node[n].key \in Nat /\ List(n) \in Buckets
         /\ n < Len => node[n].key = DefaultKey /\ List(n) = n
         /\ n >= Len /\ n < 2 * Len =>
              /\ node[n].key = MaxKey /\ node[n].next = n
              /\ List(n) = n - Len
         /\ n >= 2 * Len =>
              /\ node[n].key \in Keys /\ List(n) = Bucket(node[n].key)
              /\ node[n].key > DefaultKey /\ node[n].key < MaxKey
         /\ node[n].key <= MaxKey /\ node[n].key >= DefaultKey
<1>1. n \in Nat /\ node[n].key \in Nat /\ Len \in Nat /\ Len > 0
  BY KeysAssumption DEF Types, Records
<1>2. CASE n < Len
  <2>1. n \in Buckets
    BY <1>1, <1>2 DEF Buckets
  <2>2. node[n].key = DefaultKey
    BY <2>1 DEF Ends, head
  <2> QED
    BY <1>1, <1>2, <2>1, <2>2, KeysAssumption DEF List
<1>3. CASE n >= Len /\ n < 2 * Len
  <2>1. n - Len \in Buckets /\ tail(n - Len) = n
    BY <1>1, <1>3 DEF Buckets, tail
  <2>2. node[n].key = MaxKey /\ node[n].next = n
    BY <2>1 DEF Ends
  <2> QED
    BY <1>1, <1>3, <2>1, <2>2, KeysAssumption DEF List
<1>4. CASE n >= 2 * Len
  <2>1. node[n].key \in Keys
    BY <1>4 DEF Ends
  <2>2. List(n) = Bucket(node[n].key)
    BY <1>1, <1>4 DEF List
  <2>3. node[n].key > DefaultKey /\ node[n].key < MaxKey
    BY <2>1, BucketType
  <2> QED
    BY <1>1, <1>4, <2>1, <2>2, <2>3, BucketType, KeysAssumption
<1> QED
  BY <1>1, <1>2, <1>3, <1>4

\* The head and the tail of a list.
LEMMA EndFacts ==
  ASSUME Types, Ends, NEW i \in Buckets
  PROVE  /\ head(i) \in Linked /\ head(i) < Len /\ List(head(i)) = i
         /\ tail(i) \in Linked /\ List(tail(i)) = i
         /\ node[head(i)].key = DefaultKey /\ node[tail(i)].key = MaxKey
<1>1. i \in Nat /\ i < Len /\ Len \in Nat
  BY KeysAssumption DEF Buckets
<1>2. head(i) = i /\ tail(i) = Len + i
  BY DEF head, tail
<1>3. i \in Linked /\ Len + i \in Linked
  BY <1>1 DEF Ends
<1>4. List(i) = i /\ List(Len + i) = i
  BY <1>1 DEF List
<1>5. node[head(i)].key = DefaultKey /\ node[tail(i)].key = MaxKey
  BY DEF Ends
<1> QED
  BY <1>1, <1>2, <1>3, <1>4, <1>5

\* A link leads to a linked node of the same list, which has a greater key
\* unless the link is the tail's.
LEMMA LinkFacts ==
  ASSUME Types, Ends, Sorted, NEW n \in DOMAIN node
  PROVE  /\ n \in Linked => node[n].next \in Linked
         /\ List(node[n].next) = List(n)
         /\ node[n].key < MaxKey => /\ node[n].next \in Linked
                                    /\ node[n].key < node[node[n].next].key
<1>1. n \in Nat /\ (n >= Len /\ n < 2 * Len =>
                      node[n].next = n /\ node[n].key = MaxKey)
  BY NodeFacts
<1>2. MaxKey \in Nat
  BY KeysAssumption
<1>3. CASE n >= Len /\ n < 2 * Len
  BY <1>1, <1>2, <1>3
<1>4. CASE ~(n >= Len /\ n < 2 * Len)
  BY <1>4 DEF Sorted
<1> QED
  BY <1>3, <1>4

\* What is reached from the head is linked.
LEMMA ReachedLinked ==
  ASSUME Types, Ends, Sorted, NEW i \in Buckets
  PROVE  \A m \in Reached(i) : m \in Linked /\ List(m) = i
<1>1. PICK f : /\ Reached(i) = f[MaxKey] /\ f[0] = {head(i)}
               /\ \A n \in 1..MaxKey : f[n] = After(f[n - 1])
  BY ReachedIs
<1> DEFINE Chain == {m \in Linked : List(m) = i}
<1> DEFINE S == {n \in 0..MaxKey : ~(f[n] \subseteq Chain)}
<1> SUFFICES S = {}
  BY <1>1, KeysAssumption
<1> SUFFICES ASSUME S # {} PROVE FALSE
  OBVIOUS
<1>2. PICK n \in S : \A m \in S : ~(m < n)
  <2>1. S \in SUBSET Nat
    BY KeysAssumption
  <2> HIDE DEF S
  <2> QED
    BY <2>1, Least, Zenon
<1>3. f[0] \subseteq Chain
  BY <1>1, EndFacts
<1>4. n \in 1..MaxKey /\ f[n - 1] \subseteq Chain
  <2>1. n \in 0..MaxKey /\ n # 0 /\ MaxKey \in Nat
    BY <1>3, KeysAssumption
  <2>2. n - 1 \in 0..MaxKey /\ n - 1 < n
    BY <2>1
  <2> QED
    BY <1>2, <2>1, <2>2
<1>5. \A m \in Chain : node[m].next \in Chain
  BY LinkFacts DEF Linked
<1>6. f[n] \subseteq Chain
  <2> HIDE DEF Chain
  <2> QED
    BY <1>1, <1>4, <1>5 DEF After
<1> QED
  BY <1>6

\* A linked node is reached from the head: after each number of links, it
\* has been met or a node before it has.
LEMMA LinkedReached ==
  ASSUME Types, Ends, Sorted, NEW m \in Linked
  PROVE  m \in Reached(List(m))
<1> DEFINE i == List(m)
<1>1. m \in DOMAIN node /\ i \in Buckets
  BY NodeFacts DEF Linked
<1>2. PICK f : /\ Reached(i) = f[MaxKey] /\ f[0] = {head(i)}
               /\ \A n \in 1..MaxKey : f[n] = After(f[n - 1])
  BY ReachedIs
<1> DEFINE Before(n, x) ==
      /\ x \in f[n] /\ x \in Linked /\ List(x) = i
      /\ DefaultKey + n <= node[x].key /\ node[x].key < node[m].key
<1> DEFINE S == {n \in 0..MaxKey : m \notin f[n] /\ ~ \E x : Before(n, x)}
<1>3. S = {}
  <2> SUFFICES ASSUME S # {} PROVE FALSE
    OBVIOUS
  <2>1. PICK n \in S : \A j \in S : ~(j < n)
    <3>1. S \in SUBSET Nat
      BY KeysAssumption
    <3> HIDE DEF S
    <3> QED
      BY <3>1, Least, Zenon
  <2>2. 0 \notin S
    <3>1. /\ head(i) \in Linked /\ List(head(i)) = i
          /\ node[head(i)].key = DefaultKey
      BY <1>1, EndFacts
    <3>2. m = head(i) \/ node[m].key > DefaultKey
      BY <1>1, NodeFacts, KeysAssumption DEF head
    <3>3. m \in f[0] \/ Before(0, head(i))
      BY <1>2, <3>1, <3>2, KeysAssumption
    <3> QED
      BY <3>3
  <2>3. n \in 1..MaxKey /\ n - 1 \in 0..MaxKey /\ n - 1 \notin S
    <3>1. n \in 0..MaxKey /\ n # 0 /\ MaxKey \in Nat
      BY <2>2, KeysAssumption
    <3>2. n - 1 \in 0..MaxKey /\ n - 1 < n
      BY <3>1
    <3> QED
      BY <2>1, <3>1, <3>2
  <2>4. f[n] = After(f[n - 1])
    BY <1>2, <2>3
  <2>5. CASE m \in f[n - 1]
    BY <2>4, <2>5 DEF After
  <2>6. CASE \E x : Before(n - 1, x)
    <3>1. PICK x : Before(n - 1, x)
      BY <2>6
    <3> DEFINE y == node[x].next
    <3>2. y \in f[n]
      BY <2>4, <3>1 DEF After
    <3>3. x \in DOMAIN node /\ node[x].key \in Nat /\ node[m].key \in Nat
      BY <1>1, <3>1, NodeFacts DEF Linked
    <3>4. node[m].key <= MaxKey /\ MaxKey \in Nat /\ DefaultKey \in Nat
      BY <1>1, NodeFacts, KeysAssumption
    <3>5. y \in Linked /\ List(y) = i /\ node[x].key < node[y].key
      BY <3>1, <3>3, <3>4, LinkFacts
    <3>6. node[y].key <= node[m].key
      BY <3>1 DEF Sorted
    <3>7. node[y].key \in Nat
      BY <3>5, NodeFacts DEF Linked
    <3>8. y = m \/ node[y].key < node[m].key
      BY <3>3, <3>5, <3>6, <3>7 DEF Sorted
    <3>9. DefaultKey + n <= node[y].key
      BY <2>3, <3>1, <3>3, <3>4, <3>5, <3>7
    <3>10. m \in f[n] \/ Before(n, y)
      BY <3>2, <3>5, <3>8, <3>9
    <3> QED
      BY <3>10
  <2> QED
    BY <2>3, <2>5, <2>6
<1>4. MaxKey \in S \/ m \in f[MaxKey] \/ \E x : Before(MaxKey, x)
  BY KeysAssumption
<1>5. ~ \E x : Before(MaxKey, x)
  <2> SUFFICES ASSUME NEW x, Before(MaxKey, x) PROVE FALSE
    OBVIOUS
  <2>1. node[x].key \in Nat /\ node[m].key \in Nat /\ node[m].key <= MaxKey
    BY <1>1, NodeFacts DEF Linked
  <2> QED
    BY <2>1, KeysAssumption
<1> QED
  BY <1>2, <1>3, <1>4, <1>5

\* The nodes between head and tail.
LEMMA NodesAre ==
  ASSUME Types, Ends, Sorted, NEW i \in Buckets
  PROVE  Nodes(i) = {n \in Linked : n >= 2 * Len /\ List(n) = i}
<1>1. Nodes(i) \subseteq {n \in Linked : n >= 2 * Len /\ List(n) = i}
  <2> SUFFICES ASSUME NEW n \in Nodes(i) PROVE n >= 2 * Len
    BY ReachedLinked DEF Nodes
  <2>1. n \in Linked /\ List(n) = i /\ n # head(i) /\ n # tail(i)
    BY ReachedLinked DEF Nodes
  <2>2. n \in DOMAIN node
    BY <2>1 DEF Linked
  <2>3. n < Len => n = i
    BY <2>1, <2>2, NodeFacts
  <2>4. n >= Len /\ n < 2 * Len => n = Len + i
    BY <2>1, <2>2, NodeFacts, KeysAssumption
  <2>5. n # i /\ n # Len + i /\ n \in Nat /\ Len \in Nat
    BY <2>1, <2>2, NodeFacts, KeysAssumption DEF head, tail
  <2> QED
    BY <2>3, <2>4, <2>5
<1>2. \A n \in Linked : n >= 2 * Len /\ List(n) = i => n \in Nodes(i)
  <2> SUFFICES ASSUME NEW n \in Linked, n >= 2 * Len, List(n) = i
               PROVE  n \in Nodes(i)
    OBVIOUS
  <2>1. n \in Reached(i)
    BY LinkedReached
  <2>2. head(i) < 2 * Len /\ tail(i) < 2 * Len
    BY KeysAssumption DEF head, tail, Buckets
  <2>3. n # head(i) /\ n # tail(i)
    BY <2>2, KeysAssumption DEF Linked, head, tail, Buckets
  <2> QED
    BY <2>1, <2>3 DEF Nodes
<1> QED
  BY <1>1, <1>2

\* What a stored key's node is, and that there is one.
LEMMA StoredFacts ==
  ASSUME Types, Ends, Sorted, Removes, NEW k \in Keys, NEW n, StoredAt(n, k)
  PROVE  /\ n \in Linked /\ List(n) = Bucket(k) /\ node[n].value \in Values
         /\ \A m : StoredAt(m, k) => m = n
<1>1. \A m : StoredAt(m, k) => m \in Linked /\ List(m) = Bucket(k)
  <2> SUFFICES ASSUME NEW m, StoredAt(m, k)
               PROVE  m \in Linked /\ List(m) = Bucket(k)
    OBVIOUS
  <2>1. m \in DOMAIN node /\ m >= 2 * Len /\ node[m].key = k /\ ~node[m].marked
    BY DEF StoredAt
  <2>2. m \in Linked
    BY <2>1 DEF Linked, Removes, RemoveOf
  <2> QED
    BY <2>1, <2>2, NodeFacts
<1>2. \A m : StoredAt(m, k) => m = n
  BY <1>1 DEF Sorted, StoredAt
<1>3. node[n].value \in Values
  BY DEF StoredAt, Ends
<1> QED
  BY <1>1, <1>2, <1>3

\* What the table has for a key.
LEMMA TableIs ==
  ASSUME Types, Ends, Sorted, Removes, NEW k \in Keys
  PROVE  /\ Absent(k) => Table[k] = NoValue
         /\ \A n : StoredAt(n, k) => Table[k] = node[n].value
         /\ Table[k] \in Results
<1> DEFINE here == {n \in Nodes(Bucket(k)) : node[n].key = k /\ ~node[n].marked}
<1>1. Bucket(k) \in Buckets
  BY BucketType
<1>2. \A n : n \in here <=> StoredAt(n, k)
  <2>1. Nodes(Bucket(k)) = {n \in Linked : n >= 2 * Len /\ List(n) = Bucket(k)}
    BY <1>1, NodesAre
  <2>2. \A n : n \in here => StoredAt(n, k)
    BY <2>1 DEF StoredAt, Linked
  <2>3. \A n : StoredAt(n, k) => n \in here
    BY <2>1, StoredFacts DEF StoredAt
  <2> QED
    BY <2>2, <2>3
<1>3. Table[k] = IF here = {} THEN NoValue ELSE node[CHOOSE n \in here : TRUE].value
  BY DEF Table
<1> HIDE DEF here
<1>4. here = {} <=> Absent(k)
  BY <1>2 DEF Absent
<1>5. \A n : StoredAt(n, k) => Table[k] = node[n].value
  <2> SUFFICES ASSUME NEW n, StoredAt(n, k) PROVE Table[k] = node[n].value
    OBVIOUS
  <2>1. n \in here
    BY <1>2
  <2>2. (CHOOSE m \in here : TRUE) \in here
    BY <2>1, Zenon
  <2>3. (CHOOSE m \in here : TRUE) = n
    BY <1>2, <2>2, StoredFacts
  <2>4. here # {}
    BY <2>1
  <2> QED
    BY <1>3, <2>3, <2>4
<1>6. \A n : StoredAt(n, k) => node[n].value \in Values
  BY StoredFacts
<1> QED
  BY <1>3, <1>4, <1>5, <1>6 DEF Absent, Results

\* The table as a function.
LEMMA TableType ==
  /\ DOMAIN Table = Keys /\ Table = [k \in Keys |-> Table[k]]
  BY DEF Table

\* The table tells which nodes are stored and with which values, now and
\* after a step.
TableTells == \A k \in Keys : /\ Absent(k) => Table[k] = NoValue
                             /\ \A n : StoredAt(n, k) => Table[k] = node[n].value

LEMMA TableNow == IInv => TableTells
  BY TableIs DEF IInv, TableTells

LEMMA TableNext == IInv' => TableTells'
  BY TableNow, PTL
-----------------------------------------------------------------------------
(* Steps that change no link.                                              *)

\* A step of t changes no other call.
OthersKept(t) ==
  \A u \in Threads \ {t} :
    /\ pc'[u] = pc[u] /\ op'[u] = op[u] /\ pred'[u] = pred[u]
    /\ curr'[u] = curr[u] /\ result'[u] = result[u]

\* It changes no link and no key either, and deletes nothing.
LinksKept(t) ==
  /\ DOMAIN node' = DOMAIN node
  /\ \A n \in DOMAIN node :
       /\ node'[n].key = node[n].key /\ node'[n].next = node[n].next
       /\ n >= 2 * Len => node'[n].value \in Values
  /\ pc[t] # "delete" /\ pc'[t] # "delete"

\* It neither marks a node nor takes another's lock.
NodesKept(t) ==
  /\ LinksKept(t) /\ OthersKept(t)
  /\ \A n \in DOMAIN node :
       /\ node'[n].marked = node[n].marked
       /\ node[n].lock \in Threads \ {t} => node'[n].lock = node[n].lock
  /\ pc[t] # "unlink" /\ pc'[t] # "unlink"
  /\ Running(t) \/ \A u \in Threads \ {t} :
                     Running(u) => op[u].name # "remove"

\* It changes nothing that the table or another call's history depends on.
Quiet(t) ==
  /\ NodesKept(t)
  /\ \A n \in DOMAIN node : node'[n].value = node[n].value
  /\ \A u \in Threads \ {t} : seen'[u] = seen[u]

LEMMA LinksStep ==
  ASSUME IInv, NEW t \in Threads, LinksKept(t), OthersKept(t)
  PROVE  /\ Linked' = Linked
         /\ \A n \in DOMAIN node : List(n)' = List(n)
         /\ Ends' /\ Sorted'
<1> USE DEF IInv
<1>1. Linked' = Linked
  BY DEF Linked, LinksKept, OthersKept
<1>2. \A n \in DOMAIN node : List(n)' = List(n)
  BY DEF List, LinksKept
<1>3. Linked \subseteq DOMAIN node
  BY DEF Linked
<1>4. Ends'
  <2>1. \A i \in Buckets : head(i) \in Linked /\ tail(i) \in Linked
    BY EndFacts
  <2>2. \A i \in Buckets :
          /\ node'[head(i)].key = DefaultKey /\ node'[tail(i)].key = MaxKey
          /\ node'[tail(i)].next = tail(i)
    BY <1>3, <2>1 DEF LinksKept, Ends
  <2>3. \A n \in DOMAIN node' : n >= 2 * Len =>
          node'[n].key \in Keys /\ node'[n].value \in Values
    BY DEF LinksKept, Ends
  <2>4. 0..(2 * Len - 1) \subseteq Linked'
    BY <1>1 DEF Ends
  <2> QED
    BY <2>2, <2>3, <2>4 DEF Ends
<1>5. Sorted'
  <2>1. ASSUME NEW n \in DOMAIN node', ~(n >= Len /\ n < 2 * Len)
        PROVE  /\ node'[n].next \in Linked'
               /\ List(node[n].next)' = List(n)'
               /\ node'[n].key < node'[node'[n].next].key
    <3>1. n \in DOMAIN node /\ node'[n].next = node[n].next
                /\ node'[n].key = node[n].key
      BY DEF LinksKept
    <3>2. /\ node[n].next \in Linked /\ List(node[n].next) = List(n)
          /\ node[n].key < node[node[n].next].key
      BY <2>1, <3>1 DEF Sorted
    <3>3. node'[node[n].next].key = node[node[n].next].key
      BY <1>3, <3>2 DEF LinksKept
    <3>4. List(node[n].next)' = List(n)'
      <4>1. PICK m \in DOMAIN node : m = node[n].next
        BY <1>3, <3>2
      <4>2. List(m)' = List(m) /\ node'[n].next = m
        BY <1>2, <3>1, <4>1
      <4>3. List(node[n].next)' = List(m)'
        BY <4>2, Zenon DEF List
      <4> QED
        BY <1>2, <3>1, <3>2, <4>1, <4>2, <4>3
    <3> QED
      BY <1>1, <3>1, <3>2, <3>3, <3>4
  <2>2. ASSUME NEW n \in Linked', NEW m \in Linked', List(n)' = List(m)'
        PROVE  /\ node'[n].key < node'[m].key =>
                    node'[node'[n].next].key <= node'[m].key
               /\ node'[n].key = node'[m].key => n = m
    <3>1. n \in Linked /\ m \in Linked /\ List(n) = List(m)
      BY <1>1, <1>2, <1>3, <2>2
    <3>2. /\ node[n].key < node[m].key => node[node[n].next].key <= node[m].key
          /\ node[n].key = node[m].key => n = m
      BY <3>1 DEF Sorted
    <3>3. node[n].next \in DOMAIN node
      BY <1>3, <3>1, LinkFacts
    <3>4. /\ node'[n].next = node[n].next /\ node'[n].key = node[n].key
          /\ node'[m].key = node[m].key
          /\ node'[node[n].next].key = node[node[n].next].key
      BY <1>3, <3>1, <3>3 DEF LinksKept
    <3> QED
      BY <3>2, <3>4
  <2> QED
    BY <2>1, <2>2 DEF Sorted
<1> QED
  BY <1>1, <1>2, <1>4, <1>5

\* A call that is not running is as it was, whatever the lists become.
LEMMA IdleKept ==
  ASSUME IInv, Ends', NEW t \in Threads, OthersKept(t),
         NEW u \in Threads \ {t}, ~Running(u)
  PROVE  RemoveOf(u)' /\ WalkOf(u)' /\ LockOf(u)' /\ CurrentOf(u)'
<1>1. /\ pc[u] = "idle" /\ op[u] = NoOp /\ pred[u] = 0 /\ curr[u] = 0
      /\ result[u] = NoValue
  BY DEF IInv, Walks, WalkOf, Running
<1>2. /\ pc'[u] = "idle" /\ op'[u] = NoOp /\ pred'[u] = 0 /\ curr'[u] = 0
      /\ result'[u] = NoValue
  BY <1>1 DEF OthersKept
<1>3. 0 \in Linked'
  BY KeysAssumption DEF Ends
<1>4. RemoveOf(u)' /\ LockOf(u)' /\ CurrentOf(u)'
  BY <1>2 DEF RemoveOf, LockOf, CurrentOf, Running, Holding
<1>5. WalkOf(u)'
  BY <1>2, <1>3 DEF WalkOf, Running, Holding
<1> QED
  BY <1>4, <1>5

\* The others stand and hold as before.
LEMMA OthersStand ==
  ASSUME IInv, NEW t \in Threads, NodesKept(t), NEW u \in Threads \ {t}
  PROVE  WalkOf(u)' /\ LockOf(u)'
<1>1. WalkOf(u) /\ LockOf(u)
  BY DEF IInv, Walks, Locks
<1>2. /\ Linked' = Linked /\ \A n \in DOMAIN node : List(n)' = List(n)
      /\ DOMAIN node' = DOMAIN node
  BY LinksStep DEF NodesKept, LinksKept
<1>3. /\ pc'[u] = pc[u] /\ op'[u] = op[u] /\ pred'[u] = pred[u]
      /\ curr'[u] = curr[u] /\ result'[u] = result[u]
  BY DEF NodesKept, OthersKept
<1>4. \A n \in DOMAIN node :
        /\ node'[n].key = node[n].key /\ node'[n].next = node[n].next
        /\ node'[n].marked = node[n].marked
        /\ node[n].lock = u => node'[n].lock = u
  BY DEF NodesKept, LinksKept
<1>5. pred[u] \in DOMAIN node /\ List(pred[u])' = List(pred[u])
  <2>1. PICK p \in DOMAIN node : p = pred[u]
    BY <1>1 DEF WalkOf, Linked
  <2>2. p = pred'[u]
    BY <1>3, <2>1
  <2>3. List(p)' = List(p) /\ List(p)' = List(pred[u])' /\ List(p) = List(pred[u])
    BY <1>2, <2>1, <2>2, Zenon DEF List
  <2> QED
    BY <2>1, <2>3
<1>6. curr[u] \in DOMAIN node => List(curr[u])' = List(curr[u])
  <2> SUFFICES ASSUME curr[u] \in DOMAIN node
               PROVE  List(curr[u])' = List(curr[u])
    OBVIOUS
  <2>1. PICK c \in DOMAIN node : c = curr[u]
    OBVIOUS
  <2>2. c = curr'[u]
    BY <1>3, <2>1
  <2>3. List(c)' = List(c) /\ List(c)' = List(curr[u])' /\ List(c) = List(curr[u])
    BY <1>2, <2>1, <2>2, Zenon DEF List
  <2> QED
    BY <2>3
<1>7. WalkOf(u)'
  BY <1>1, <1>2, <1>3, <1>4, <1>5, <1>6 DEF WalkOf, Running, key, Writes
<1>8. LockOf(u)'
  <2>1. curr'[u] \in DOMAIN node' => node'[curr'[u]].key = node[curr[u]].key
    BY <1>2, <1>3, <1>4
  <2>2. pc[u] = "valid" => curr[u] \in DOMAIN node
    BY <1>1 DEF WalkOf, Linked
  <2> QED
    BY <1>1, <1>2, <1>3, <1>4, <1>5, <2>2 DEF LockOf, Holding
<1> QED
  BY <1>7, <1>8

\* The same nodes are stored.
LEMMA StoredSame ==
  ASSUME NEW t \in Threads, NodesKept(t)
  PROVE  \A n, k : StoredAt(n, k)' <=> StoredAt(n, k)
  BY DEF NodesKept, LinksKept, StoredAt

\* Removes go on alone, and no one else begins one.
LEMMA RemovesStep ==
  ASSUME IInv, NEW t \in Threads, NodesKept(t),
         Running(t)' /\ op'[t].name = "remove" =>
           \A u \in Threads \ {t} : ~Running(u)
  PROVE  Removes'
<1>1. \A u \in Threads : RemoveOf(u)
  BY DEF IInv, Removes
<1>2. /\ DOMAIN node' = DOMAIN node
      /\ \A n \in DOMAIN node :
          /\ node'[n].marked = node[n].marked
          /\ node'[n].key = node[n].key /\ node'[n].next = node[n].next
  BY DEF NodesKept, LinksKept
<1>3. /\ pc[t] \notin {"unlink", "delete"} /\ pc'[t] \notin {"unlink", "delete"}
      /\ \A u \in Threads \ {t} :
           /\ pc'[u] = pc[u] /\ op'[u] = op[u] /\ pred'[u] = pred[u]
           /\ curr'[u] = curr[u]
  BY DEF NodesKept, LinksKept, OthersKept
<1>4. ASSUME NEW n \in DOMAIN node', node'[n].marked
      PROVE  \E u \in Threads : pc'[u] \in {"unlink", "delete"} /\ curr'[u] = n
  <2>1. PICK u \in Threads : pc[u] \in {"unlink", "delete"} /\ curr[u] = n
    BY <1>2, <1>4 DEF IInv, Removes
  <2> QED
    BY <1>3, <2>1
<1>5. ASSUME NEW u \in Threads \ {t} PROVE RemoveOf(u)'
  <2>1. pc[u] \in {"unlink", "delete"} =>
          curr[u] \in DOMAIN node /\ pred[u] \in DOMAIN node
    BY DEF IInv, Walks, WalkOf, Linked
  <2>2. Running(u) /\ op[u].name = "remove" =>
          \A v \in Threads : v # u => ~Running(v)'
    <3> SUFFICES ASSUME Running(u), op[u].name = "remove", NEW v \in Threads, v # u
                 PROVE  ~Running(v)'
      OBVIOUS
    <3>1. ~Running(v)
      BY <1>1 DEF RemoveOf
    <3>2. ~Running(t)
      BY <1>1 DEF RemoveOf
    <3>3. FALSE
      BY <1>5, <3>2 DEF NodesKept
    <3> QED
      BY <3>3
  <2> QED
    BY <1>1, <1>2, <1>3, <2>1, <2>2 DEF RemoveOf, Running, key
<1>6. RemoveOf(t)'
  BY <1>3 DEF RemoveOf, Running
<1> QED
  BY <1>4, <1>5, <1>6 DEF Removes

\* A quiet step keeps what the others have seen.
LEMMA OthersSeen ==
  ASSUME IInv, NEW t \in Threads, Quiet(t), NEW u \in Threads \ {t}
  PROVE  CurrentOf(u)'
<1>1. CurrentOf(u) /\ WalkOf(u)
  BY DEF IInv, Current, Walks
<1>2. \A n, k : StoredAt(n, k)' <=> StoredAt(n, k)
  BY StoredSame DEF Quiet
<1>3. /\ pc'[u] = pc[u] /\ op'[u] = op[u] /\ curr'[u] = curr[u]
      /\ result'[u] = result[u] /\ seen'[u] = seen[u]
  BY DEF Quiet, NodesKept, OthersKept
<1>4. \A n \in DOMAIN node : node'[n].key = node[n].key /\ node'[n].value = node[n].value
  BY DEF Quiet, NodesKept, LinksKept
<1>5. \A k : Absent(k)' => Absent(k)
  BY <1>2 DEF Absent
<1> SUFFICES ASSUME Running(u)' PROVE CurrentOf(u)'
  BY DEF CurrentOf
<1>6. Running(u) /\ key(u)' = key(u) /\ (Writes(u)' <=> Writes(u))
  BY <1>3 DEF Running, key, Writes
<1>7. \A n : StoredAt(n, key(u))' => node'[n].value \in seen'[u]
  <2> SUFFICES ASSUME NEW n, StoredAt(n, key(u))' PROVE node'[n].value \in seen'[u]
    OBVIOUS
  <2>1. PICK k : k = key(u)
    OBVIOUS
  <2>2. StoredAt(n, k)'
    BY <1>6, <2>1, Zenon DEF StoredAt
  <2>3. StoredAt(n, k)
    BY <1>2, <2>2
  <2> QED
    BY <1>1, <1>3, <1>4, <1>6, <2>1, <2>3 DEF CurrentOf, StoredAt
<1>8. Absent(key(u))' => NoValue \in seen'[u]
  <2>1. PICK k : k = key(u)
    OBVIOUS
  <2>2. Absent(key(u))' => Absent(k)'
    BY <1>6, <2>1, Zenon DEF Absent, StoredAt
  <2> QED
    BY <1>1, <1>3, <1>5, <1>6, <2>1, <2>2 DEF CurrentOf
<1>9. pc[u] = "walk" => curr[u] \in DOMAIN node
  BY <1>1 DEF WalkOf, Linked
<1> QED
  BY <1>1, <1>3, <1>4, <1>6, <1>7, <1>8, <1>9 DEF CurrentOf

\* What a step has done to the table can be told key by key.
LEMMA TableChange ==
  ASSUME IInv, IInv', NEW f \in [Keys -> Results],
         \A k \in Keys : /\ \A n : StoredAt(n, k)' => f[k] = node'[n].value
                         /\ Absent(k)' => f[k] = NoValue
  PROVE  Table' = f
<1>1. TableTells'
  BY TableNext
<1>2. \A k \in Keys : Table'[k] = f[k]
  <2> SUFFICES ASSUME NEW k \in Keys PROVE Table'[k] = f[k]
    OBVIOUS
  <2>1. \/ Absent(k)'
        \/ \E n : StoredAt(n, k)'
    BY DEF Absent
  <2> QED
    BY <1>1, <2>1 DEF TableTells
<1>3. Table' = [k \in Keys |-> Table'[k]]
  BY DEF Table
<1> QED
  BY <1>2, <1>3

\* The table stays as it is while no stored node changes.
LEMMA TableKept ==
  ASSUME IInv, IInv', \A n, k : StoredAt(n, k)' <=> StoredAt(n, k),
         \A n, k : StoredAt(n, k) => node'[n].value = node[n].value
  PROVE  Table' = Table
<1>1. Table \in [Keys -> Results]
  BY TableIs DEF IInv, Table
<1>2. \A k \in Keys : /\ \A n : StoredAt(n, k)' => Table[k] = node'[n].value
                      /\ Absent(k)' => Table[k] = NoValue
  BY TableIs DEF IInv, Absent
<1> QED
  BY <1>1, <1>2, TableChange

\* A quiet step is right if it is for the call that takes it.
LEMMA QuietStep ==
  ASSUME IInv, NEW t \in Threads, Quiet(t), Types',
         Running(t)' /\ op'[t].name = "remove" =>
           \A u \in Threads \ {t} : ~Running(u),
         WalkOf(t)', LockOf(t)', CurrentOf(t)'
  PROVE  IInv' /\ Table' = Table
<1>1. Ends' /\ Sorted'
  BY LinksStep DEF Quiet, NodesKept
<1>2. Removes'
  BY RemovesStep DEF Quiet
<1>3. \A u \in Threads : WalkOf(u)' /\ LockOf(u)' /\ CurrentOf(u)'
  BY OthersStand, OthersSeen DEF Quiet
<1>4. IInv'
  BY <1>1, <1>2, <1>3 DEF IInv, Walks, Locks, Current
<1>5. \A n, k : StoredAt(n, k)' <=> StoredAt(n, k)
  BY StoredSame DEF Quiet
<1>6. \A n, k : StoredAt(n, k) => node'[n].value = node[n].value
  BY DEF Quiet, StoredAt
<1> QED
  BY <1>4, <1>5, <1>6, TableKept
-----------------------------------------------------------------------------
(* The quiet actions.                                                      *)

\* A call begins.
LEMMA CallRight ==
  ASSUME IInv, NEW t \in Threads, Call(t)
  PROVE  IInv' /\ Table' = Table
<1> USE DEF IInv
<1>1. PICK o \in Ops :
        /\ MayCall(t, o)
        /\ op' = [op EXCEPT ![t] = o]
        /\ pred' = [pred EXCEPT ![t] = head(Bucket(o.key))]
        /\ curr' = [curr EXCEPT ![t] = First(o)]
        /\ seen' = [seen EXCEPT ![t] = {Table[o.key]}]
  BY DEF Call
<1>2. /\ pc[t] = "idle" /\ pc' = [pc EXCEPT ![t] = "walk"]
      /\ calls' = [calls EXCEPT ![t] = @ + 1]
      /\ result' = [result EXCEPT ![t] = NoValue] /\ node' = node /\ made' = made
  BY DEF Call, Goto
<1>3. o.key \in Keys /\ o.name \in {"add", "remove", "contains", "get"}
  BY OpsType
<1> DEFINE k == o.key
<1> DEFINE h == head(Bucket(k))
<1>4. /\ h \in Linked /\ h \in DOMAIN node /\ h \in Nat /\ List(h) = Bucket(k)
      /\ node[h].key = DefaultKey
  <2>1. h \in Linked /\ List(h) = Bucket(k) /\ node[h].key = DefaultKey
    BY <1>3, BucketType, EndFacts
  <2> QED
    BY <2>1, NodeFacts DEF Linked
<1>5. DefaultKey < k /\ k < MaxKey /\ k \in Nat /\ DefaultKey \in Nat /\ MaxKey \in Nat
  BY <1>3, BucketType, KeysAssumption
<1>6. /\ First(o) \in Linked /\ First(o) \in DOMAIN node /\ First(o) \in Nat
      /\ List(First(o)) = Bucket(k)
  <2>1. node[h].next \in Linked /\ List(node[h].next) = Bucket(k)
    BY <1>4, LinkFacts
  <2>2. node[h].next \in DOMAIN node /\ node[h].next \in Nat
    BY <2>1, NodeFacts DEF Linked
  <2> QED
    BY <1>4, <2>1, <2>2 DEF First
<1>7. Table[k] \in Results
  BY <1>3, TableIs
<1>8. Quiet(t)
  <2>1. OthersKept(t)
    BY <1>1, <1>2 DEF OthersKept, Types
  <2>2. LinksKept(t)
    BY <1>2 DEF LinksKept, Types, Ends
  <2>3. \A u \in Threads \ {t} : Running(u) => op[u].name # "remove"
    BY <1>1 DEF MayCall, Running
  <2>4. NodesKept(t)
    BY <1>2, <2>1, <2>2, <2>3 DEF NodesKept, Types
  <2> QED
    BY <1>1, <1>2, <2>4 DEF Quiet, Types
<1>9. Types'
  <2>1. calls' \in [Threads -> Nat] /\ pc' \in [Threads -> Places]
    BY <1>2 DEF Types, Places
  <2>2. op' \in [Threads -> Ops \union {NoOp}]
    BY <1>1 DEF Types
  <2>3. pred' \in [Threads -> Nat] /\ curr' \in [Threads -> Nat]
    <3> HIDE DEF h
    <3> QED
      BY <1>1, <1>4, <1>6 DEF Types, h
  <2>4. result' \in [Threads -> Results] /\ seen' \in [Threads -> SUBSET Results]
    BY <1>1, <1>2, <1>7 DEF Types, Results
  <2> QED
    BY <1>2, <2>1, <2>2, <2>3, <2>4 DEF Types
<1>10. /\ pc'[t] = "walk" /\ op'[t] = o /\ pred'[t] = h /\ curr'[t] = First(o)
       /\ result'[t] = NoValue /\ seen'[t] = {Table[k]}
  BY <1>1, <1>2 DEF Types
<1>11. op'[t].name = "remove" => \A u \in Threads \ {t} : ~Running(u)
  BY <1>1, <1>10 DEF MayCall, Running
<1>12. Linked' = Linked /\ \A n : List(n)' = List(n)
  <2>1. Linked' = Linked
    BY <1>8, LinksStep DEF Quiet, NodesKept
  <2>2. \A n : List(n)' = List(n)
    BY <1>2 DEF List
  <2> QED
    BY <2>1, <2>2
<1>13. WalkOf(t)'
  <2>1. /\ key(t)' = k /\ List(pred[t])' = Bucket(k)
        /\ List(curr[t])' = Bucket(k)
    <3>1. key(t)' = k
      BY <1>10 DEF key
    <3>2. List(pred[t])' = List(h)
      BY <1>2, <1>10, Zenon DEF List
    <3>3. List(curr[t])' = List(First(o))
      BY <1>2, <1>10, Zenon DEF List
    <3> QED
      BY <1>4, <1>6, <3>1, <3>2, <3>3
  <2> HIDE DEF h, k
  <2> QED
    BY <1>2, <1>4, <1>5, <1>6, <1>10, <1>12, <2>1 DEF WalkOf, Running, Holding, h, k
<1>14. LockOf(t)'
  BY <1>10 DEF LockOf, Holding
<1>15. CurrentOf(t)'
  <2>1. /\ Absent(k) => Table[k] = NoValue
        /\ \A n : StoredAt(n, k) => Table[k] = node[n].value
    BY <1>3, TableIs
  <2>2. key(t)' = k
    BY <1>10 DEF key
  <2>3. \A n : StoredAt(n, key(t))' <=> StoredAt(n, k)
    BY <1>2, <2>2 DEF StoredAt
  <2>4. Absent(key(t))' <=> Absent(k)
    BY <1>2, <2>2 DEF StoredAt, Absent
  <2>5. ~Absent(k) => node[First(o)].key <= k
    <3> SUFFICES ASSUME ~Absent(k) PROVE node[First(o)].key <= k
      OBVIOUS
    <3>1. PICK n : StoredAt(n, k)
      BY DEF Absent
    <3>2. n \in Linked /\ List(n) = Bucket(k) /\ node[n].key = k
      BY <1>3, <3>1, StoredFacts DEF StoredAt
    <3>3. node[h].key < node[n].key => node[node[h].next].key <= node[n].key
      BY <1>4, <3>2 DEF Sorted
    <3> QED
      BY <1>4, <1>5, <3>2, <3>3 DEF First
  <2>6. \A n : StoredAt(n, key(t))' => node'[n].value \in seen'[t]
    BY <1>2, <1>10, <2>1, <2>3
  <2>7. Absent(key(t))' => NoValue \in seen'[t]
    BY <1>10, <2>1, <2>4
  <2>8. NoValue \notin seen'[t] => node'[curr'[t]].key <= key(t)'
    BY <1>2, <1>10, <2>1, <2>2, <2>5
  <2> QED
    BY <1>10, <2>6, <2>7, <2>8 DEF CurrentOf
<1> QED
  BY <1>8, <1>9, <1>11, <1>13, <1>14, <1>15, QuietStep

\* A step of t changes no more of the nodes than locks that are free or its
\* own.
Relocked(t) ==
  /\ DOMAIN node' = DOMAIN node
  /\ \A n \in DOMAIN node :
       /\ node'[n] \in Records
       /\ node'[n].key = node[n].key /\ node'[n].value = node[n].value
       /\ node'[n].next = node[n].next /\ node'[n].marked = node[n].marked
       /\ node[n].lock \in Threads \ {t} => node'[n].lock = node[n].lock

\* A running call goes on to a place without changing the table: what it has
\* to show is what the invariant says of that place.
LEMMA Moves ==
  ASSUME IInv, NEW t \in Threads, Running(t), pc[t] \notin {"unlink", "delete"},
         NEW place \in Places \ {"idle", "unlink", "delete"},
         NEW p \in Nat, NEW c \in Nat, NEW r \in Results,
         pc' = [pc EXCEPT ![t] = place], result' = [result EXCEPT ![t] = r],
         pred' = [pred EXCEPT ![t] = p], curr' = [curr EXCEPT ![t] = c],
         UNCHANGED <<made, calls, op, seen>>,
         Relocked(t),
         p \in Linked, List(p) = Bucket(key(t)), node[p].key < key(t),
         \/ c \in Linked /\ List(c) = Bucket(key(t))
         \/ /\ c \notin DOMAIN node /\ op[t].name = "remove"
            /\ place \in {"unlock", "return"},
         place \in Holding \union {"lockCurr", "again"} => Writes(t),
         place \in Holding \union {"lockCurr"} /\ c \in DOMAIN node =>
           node[c].key >= key(t),
         place \notin {"unlock", "return"} => r = NoValue,
         LockOf(t)',
         place = "walk" /\ ~Writes(t) /\ NoValue \notin seen[t] =>
           node[c].key <= key(t),
         op[t].name # "add" /\ place \in {"unlock", "return"} => r \in seen[t]
  PROVE  IInv' /\ Table' = Table
<1> USE DEF Relocked
<1>1. Types'
  <2>1. pc' \in [Threads -> Places]
    BY DEF IInv, Types
  <2>2. pred' \in [Threads -> Nat] /\ curr' \in [Threads -> Nat]
    BY DEF IInv, Types
  <2>3. result' \in [Threads -> Results]
    BY DEF IInv, Types
  <2> QED
    BY <2>1, <2>2, <2>3 DEF IInv, Types
<1>2. /\ pc'[t] = place /\ pred'[t] = p /\ curr'[t] = c /\ result'[t] = r
      /\ op'[t] = op[t] /\ seen'[t] = seen[t]
  BY DEF IInv, Types
<1>3. Quiet(t)
  <2>1. OthersKept(t)
    BY DEF OthersKept, IInv, Types
  <2>2. LinksKept(t)
    BY <1>2 DEF LinksKept, IInv, Ends
  <2>3. NodesKept(t)
    BY <1>2, <2>1, <2>2 DEF NodesKept
  <2> QED
    BY <2>3 DEF Quiet
<1>4. Linked' = Linked /\ \A n \in DOMAIN node : List(n)' = List(n)
  BY <1>3, LinksStep DEF Quiet, NodesKept
<1>5. Linked \subseteq DOMAIN node
  BY DEF Linked
<1>6. op[t].name = "remove" => \A u \in Threads \ {t} : ~Running(u)
  BY DEF IInv, Removes, RemoveOf
<1>7. key(t)' = key(t) /\ (Writes(t)' <=> Writes(t)) /\ op[t] \in Ops
  BY <1>2 DEF key, Writes, IInv, Walks, WalkOf
<1>8. WalkOf(t)'
  <2>1. List(pred[t])' = Bucket(key(t))
    <3>1. List(pred[t])' = List(p)'
      BY <1>2 DEF List
    <3> QED
      BY <1>4, <1>5, <3>1
  <2>2. c \in DOMAIN node => List(curr[t])' = Bucket(key(t))
    <3>1. List(curr[t])' = List(c)'
      BY <1>2 DEF List
    <3> QED
      BY <1>4, <1>5, <3>1
  <2>3. p \in DOMAIN node /\ node'[p].key = node[p].key
    BY <1>5
  <2>4. c \in DOMAIN node => node'[c].key = node[c].key
    OBVIOUS
  <2> QED
    BY <1>2, <1>4, <1>5, <1>7, <2>1, <2>2, <2>3, <2>4 DEF WalkOf, Running, Holding
<1>9. CurrentOf(t)'
  <2>1. \A n, k : StoredAt(n, k)' <=> StoredAt(n, k)
    BY <1>3, StoredSame DEF Quiet
  <2>2. PICK k : k = key(t)
    OBVIOUS
  <2>3. \A n : StoredAt(n, key(t))' => StoredAt(n, key(t))
    <3>1. \A n : StoredAt(n, key(t))' => StoredAt(n, k)'
      BY <1>7, <2>2, Zenon DEF StoredAt
    <3> QED
      BY <2>1, <2>2, <3>1
  <2>4. Absent(key(t))' => Absent(key(t))
    <3>1. \A n : StoredAt(n, k)' => StoredAt(n, key(t))'
      BY <1>7, <2>2, Zenon DEF StoredAt
    <3> QED
      BY <2>1, <2>2, <3>1 DEF Absent
  <2>5. CurrentOf(t)
    BY DEF IInv, Current
  <2>6. \A n : StoredAt(n, key(t))' => node'[n].value \in seen'[t]
    BY <1>2, <2>3, <2>5 DEF CurrentOf, StoredAt
  <2>7. Absent(key(t))' => NoValue \in seen'[t]
    BY <1>2, <2>4, <2>5 DEF CurrentOf
  <2>8. pc'[t] = "walk" /\ ~Writes(t)' /\ NoValue \notin seen'[t] =>
          node'[curr'[t]].key <= key(t)'
    BY <1>2, <1>5, <1>7
  <2>9. op'[t].name # "add"
            /\ pc'[t] \in {"unlink", "delete", "unlock", "return"} =>
          result'[t] \in seen'[t]
    BY <1>2
  <2> QED
    BY <2>6, <2>7, <2>8, <2>9 DEF CurrentOf
<1> QED
  BY <1>1, <1>2, <1>3, <1>6, <1>8, <1>9, QuietStep

\* Where a running call stands.
LEMMA Standing ==
  ASSUME IInv, NEW t \in Threads, Running(t)
  PROVE  /\ op[t] \in Ops /\ key(t) \in Keys /\ pred[t] \in Nat /\ curr[t] \in Nat
         /\ pred[t] \in Linked /\ pred[t] \in DOMAIN node
         /\ List(pred[t]) = Bucket(key(t)) /\ node[pred[t]].key < key(t)
         /\ pc[t] \in {"walk", "lockCurr", "locked", "valid", "again", "unlink"} =>
              /\ curr[t] \in Linked /\ curr[t] \in DOMAIN node
              /\ List(curr[t]) = Bucket(key(t))
         /\ NoValue \in Results /\ NoValue \notin Values
<1>1. WalkOf(t) /\ RemoveOf(t)
  BY DEF IInv, Walks, Removes
<1>2. op[t] \in Ops /\ key(t) \in Keys
  BY <1>1, OpsType DEF WalkOf, key
<1>3. pred[t] \in Nat /\ curr[t] \in Nat
  BY DEF IInv, Types
<1>4. Linked \subseteq DOMAIN node
  BY DEF Linked
<1> QED
  BY <1>1, <1>2, <1>3, <1>4, KeysAssumption DEF WalkOf, Results

\* How a lock changes a node.
LEMMA LockChange ==
  ASSUME IInv, NEW t \in Threads, NEW n \in DOMAIN node,
         node[n].lock = NoThread, node' = [node EXCEPT ![n].lock = t]
  PROVE  Relocked(t) /\ node'[n].lock = t
  BY KeysAssumption DEF Relocked, IInv, Types, Records

LEMMA UnlockChange ==
  ASSUME IInv, NEW t \in Threads, pc[t] \in Holding, node' = Unlocked(t)
  PROVE  Relocked(t)
<1>1. /\ node[pred[t]].lock = t
      /\ curr[t] \in DOMAIN node => node[curr[t]].lock = t
  BY DEF IInv, Locks, LockOf
<1>2. DOMAIN node' = DOMAIN node
  BY DEF Unlocked
<1>3. \A m \in DOMAIN node :
        node'[m] = IF m \in {pred[t], curr[t]}
                   THEN [node[m] EXCEPT !.lock = NoThread] ELSE node[m]
  BY DEF Unlocked
<1> QED
  BY <1>1, <1>2, <1>3 DEF Relocked, IInv, Types, Records

\* contains() and get() and the walks of add() and remove().
LEMMA WalkRight ==
  ASSUME IInv, NEW t \in Threads, Walk(t)
  PROVE  IInv' /\ Table' = Table
<1> DEFINE c == node[curr[t]].next
<1>1. /\ pc[t] = "walk" /\ node[curr[t]].key < key(t) /\ node' = node
      /\ pred' = [pred EXCEPT ![t] = curr[t]] /\ curr' = [curr EXCEPT ![t] = c]
      /\ UNCHANGED <<made, calls, pc, op, result, seen>>
  BY DEF Walk
<1>2. Running(t) /\ "walk" \in Places
  BY <1>1 DEF Running, Places
<1>3. /\ op[t] \in Ops /\ key(t) \in Keys /\ curr[t] \in Nat
      /\ curr[t] \in Linked /\ curr[t] \in DOMAIN node
      /\ List(curr[t]) = Bucket(key(t))
  BY <1>1, <1>2, Standing
<1>4. c \in Linked /\ List(c) = Bucket(key(t)) /\ c \in Nat
  <2>1. c \in Linked /\ List(c) = Bucket(key(t))
    BY <1>3, LinkFacts DEF IInv
  <2> QED
    BY <2>1, NodeFacts DEF IInv, Linked
<1>5. ~Writes(t) /\ NoValue \notin seen[t] => node[c].key <= key(t)
  <2> SUFFICES ASSUME ~Writes(t), NoValue \notin seen[t] PROVE node[c].key <= key(t)
    OBVIOUS
  <2>1. PICK n : StoredAt(n, key(t))
    BY <1>2 DEF IInv, Current, CurrentOf, Absent
  <2>2. n \in Linked /\ List(n) = List(curr[t]) /\ node[n].key = key(t)
    BY <1>3, <2>1, StoredFacts DEF StoredAt, IInv
  <2> QED
    BY <1>1, <1>3, <2>2 DEF IInv, Sorted
<1>6. /\ pc' = [pc EXCEPT ![t] = "walk"] /\ result[t] \in Results
      /\ result' = [result EXCEPT ![t] = result[t]] /\ result[t] = NoValue
  BY <1>1 DEF IInv, Types, Walks, WalkOf
<1>7. LockOf(t)'
  BY <1>1 DEF LockOf, Holding
<1> HIDE DEF c
<1>8. Relocked(t)
  BY <1>1 DEF Relocked, IInv, Types
<1> QED
  BY <1>1, <1>2, <1>3, <1>4, <1>5, <1>6, <1>7, <1>8, Moves DEF Holding

\* A result of contains() or get() has been true.
LEMMA ReadRight ==
  ASSUME IInv, NEW t \in Threads, Read(t)
  PROVE  IInv' /\ Table' = Table
<1> DEFINE c == curr[t]
<1> DEFINE r == IF Hit(t) THEN node[c].value ELSE NoValue
<1>1. /\ pc[t] = "walk" /\ node[c].key >= key(t) /\ ~Writes(t) /\ node' = node
      /\ result' = [result EXCEPT ![t] = r] /\ pc' = [pc EXCEPT ![t] = "return"]
      /\ UNCHANGED <<made, calls, op, pred, curr, seen>>
  BY DEF Read, Goto
<1>2. Running(t) /\ "return" \in Places
  BY <1>1 DEF Running, Places
<1>3. /\ op[t] \in Ops /\ key(t) \in Keys /\ pred[t] \in Nat /\ c \in Nat
      /\ pred[t] \in Linked /\ List(pred[t]) = Bucket(key(t))
      /\ node[pred[t]].key < key(t)
      /\ c \in Linked /\ c \in DOMAIN node /\ List(c) = Bucket(key(t))
      /\ NoValue \in Results
  BY <1>1, <1>2, Standing
<1>4. r \in seen[t]
  <2>1. CASE Hit(t)
    <3>1. node[c].key = key(t) /\ ~node[c].marked
      BY <2>1 DEF Hit
    <3>2. c >= 2 * Len
      BY <1>3, <3>1, NodeFacts, BucketType, KeysAssumption DEF IInv
    <3>3. StoredAt(c, key(t))
      BY <1>3, <3>1, <3>2 DEF StoredAt
    <3>4. node[c].value \in seen[t]
      BY <1>2, <3>3 DEF IInv, Current, CurrentOf
    <3> QED
      BY <2>1, <3>4
  <2>2. CASE ~Hit(t)
    <3> SUFFICES ASSUME NoValue \notin seen[t] PROVE FALSE
      BY <2>2
    <3>1. PICK n : StoredAt(n, key(t))
      BY <1>2 DEF IInv, Current, CurrentOf, Absent
    <3>2. node[c].key <= key(t)
      BY <1>1, <1>2 DEF IInv, Current, CurrentOf
    <3>3. node[c].key = key(t)
      BY <1>1, <1>3, <3>2, NodeFacts, BucketType DEF IInv
    <3>4. n \in Linked /\ List(n) = List(c) /\ node[n].key = node[c].key
      BY <1>3, <3>1, <3>3, StoredFacts DEF StoredAt, IInv
    <3>5. n = c
      BY <1>3, <3>4 DEF IInv, Sorted
    <3> QED
      BY <2>2, <3>1, <3>3, <3>5 DEF Hit, StoredAt
  <2> QED
    BY <2>1, <2>2
<1>5. /\ r \in Results /\ pred' = [pred EXCEPT ![t] = pred[t]]
      /\ curr' = [curr EXCEPT ![t] = c]
  BY <1>1, <1>3, <1>4 DEF IInv, Types, Records
<1>6. LockOf(t)'
  BY <1>1 DEF LockOf, Holding, IInv, Types
<1> HIDE DEF c, r
<1>7. Relocked(t)
  BY <1>1 DEF Relocked, IInv, Types
<1> QED
  BY <1>1, <1>2, <1>3, <1>4, <1>5, <1>6, <1>7, Moves DEF Holding

\* The first lock is taken.
LEMMA LockPredRight ==
  ASSUME IInv, NEW t \in Threads, LockPred(t)
  PROVE  IInv' /\ Table' = Table
<1> DEFINE p == pred[t]
<1> DEFINE c == curr[t]
<1>1. /\ pc[t] = "walk" /\ node[c].key >= key(t) /\ Writes(t)
      /\ node[p].lock = NoThread /\ node' = [node EXCEPT ![p].lock = t]
      /\ pc' = [pc EXCEPT ![t] = "lockCurr"]
      /\ UNCHANGED <<made, calls, op, pred, curr, result, seen>>
  BY DEF LockPred, Take, Goto
<1>2. Running(t) /\ "lockCurr" \in Places
  BY <1>1 DEF Running, Places
<1>3. /\ op[t] \in Ops /\ key(t) \in Keys /\ p \in Nat /\ c \in Nat
      /\ p \in Linked /\ p \in DOMAIN node /\ List(p) = Bucket(key(t))
      /\ node[p].key < key(t)
      /\ c \in Linked /\ List(c) = Bucket(key(t)) /\ NoValue \in Results
  BY <1>1, <1>2, Standing
<1>4. Relocked(t) /\ node'[p].lock = t
  BY <1>1, <1>3, LockChange
<1>5. /\ pred' = [pred EXCEPT ![t] = p] /\ curr' = [curr EXCEPT ![t] = c]
      /\ result[t] = NoValue /\ result' = [result EXCEPT ![t] = NoValue]
  BY <1>1 DEF IInv, Types, Walks, WalkOf
<1>6. LockOf(t)'
  BY <1>1, <1>4 DEF LockOf, Holding, IInv, Types
<1> HIDE DEF c, p
<1> QED
  BY <1>1, <1>2, <1>3, <1>4, <1>5, <1>6, Moves DEF Holding

\* The second lock is taken.
LEMMA LockCurrRight ==
  ASSUME IInv, NEW t \in Threads, LockCurr(t)
  PROVE  IInv' /\ Table' = Table
<1> DEFINE p == pred[t]
<1> DEFINE c == curr[t]
<1>1. /\ pc[t] = "lockCurr"
      /\ node[c].lock = NoThread /\ node' = [node EXCEPT ![c].lock = t]
      /\ pc' = [pc EXCEPT ![t] = "locked"]
      /\ UNCHANGED <<made, calls, op, pred, curr, result, seen>>
  BY DEF LockCurr, Take, Goto
<1>2. Running(t) /\ "locked" \in Places
  BY <1>1 DEF Running, Places, Holding
<1>3. /\ op[t] \in Ops /\ key(t) \in Keys /\ p \in Nat /\ c \in Nat
      /\ p \in Linked /\ p \in DOMAIN node /\ List(p) = Bucket(key(t))
      /\ node[p].key < key(t) /\ c \in DOMAIN node
      /\ c \in Linked /\ List(c) = Bucket(key(t)) /\ NoValue \in Results
  BY <1>1, <1>2, Standing
<1>4. Relocked(t) /\ node'[c].lock = t
  BY <1>1, <1>3, LockChange
<1>5. /\ pred' = [pred EXCEPT ![t] = p] /\ curr' = [curr EXCEPT ![t] = c]
      /\ result[t] = NoValue /\ result' = [result EXCEPT ![t] = NoValue]
      /\ Writes(t) /\ node[c].key >= key(t)
  BY <1>1, <1>3 DEF IInv, Types, Walks, WalkOf
<1>6. LockOf(t)'
  <2>1. node[p].lock = t
    BY <1>1 DEF IInv, Locks, LockOf
  <2>2. node'[p].lock = t
    BY <1>1, <1>3, <2>1, KeysAssumption
  <2>3. pc'[t] = "locked"
    BY <1>1 DEF IInv, Types
  <2> QED
    BY <1>1, <1>4, <2>2, <2>3 DEF LockOf, Holding
<1> HIDE DEF c, p
<1> QED
  BY <1>1, <1>2, <1>3, <1>4, <1>5, <1>6, Moves DEF Holding

\* A validation succeeds.
LEMMA ValidatedRight ==
  ASSUME IInv, NEW t \in Threads, Validated(t)
  PROVE  IInv' /\ Table' = Table
<1> DEFINE p == pred[t]
<1> DEFINE c == curr[t]
<1>1. /\ pc[t] = "locked" /\ ~node[p].marked /\ ~node[c].marked
      /\ node[p].next = c /\ node' = node
      /\ pc' = [pc EXCEPT ![t] = "valid"]
      /\ UNCHANGED <<made, calls, op, pred, curr, result, seen>>
  BY DEF Validated, validate, Goto
<1>2. Running(t) /\ "valid" \in Places
  BY <1>1 DEF Running, Places, Holding
<1>3. /\ op[t] \in Ops /\ key(t) \in Keys /\ p \in Nat /\ c \in Nat
      /\ p \in Linked /\ p \in DOMAIN node /\ List(p) = Bucket(key(t))
      /\ node[p].key < key(t) /\ c \in DOMAIN node
      /\ c \in Linked /\ List(c) = Bucket(key(t)) /\ NoValue \in Results
  BY <1>1, <1>2, Standing
<1>4. /\ pred' = [pred EXCEPT ![t] = p] /\ curr' = [curr EXCEPT ![t] = c]
      /\ result[t] = NoValue /\ result' = [result EXCEPT ![t] = NoValue]
      /\ Writes(t) /\ node[c].key >= key(t)
  BY <1>1, <1>3 DEF IInv, Types, Walks, WalkOf, Holding
<1>5. LockOf(t)'
  <2>1. node[p].lock = t /\ node[c].lock = t
    BY <1>1, <1>3 DEF IInv, Locks, LockOf, Holding
  <2>2. pc'[t] = "valid"
    BY <1>1 DEF IInv, Types
  <2> QED
    BY <1>1, <2>1, <2>2 DEF LockOf
<1> HIDE DEF c, p
<1>6. Relocked(t)
  BY <1>1 DEF Relocked, IInv, Types
<1> QED
  BY <1>1, <1>2, <1>3, <1>4, <1>5, <1>6, Moves DEF Holding

\* A validation fails.
LEMMA RetryRight ==
  ASSUME IInv, NEW t \in Threads, Retry(t)
  PROVE  IInv' /\ Table' = Table
<1> DEFINE p == pred[t]
<1> DEFINE c == curr[t]
<1>1. /\ pc[t] = "locked" /\ node' = Unlocked(t)
      /\ pc' = [pc EXCEPT ![t] = "again"]
      /\ UNCHANGED <<made, calls, op, pred, curr, result, seen>>
  BY DEF Retry, Goto
<1>2. Running(t) /\ "again" \in Places
  BY <1>1 DEF Running, Places
<1>3. /\ op[t] \in Ops /\ key(t) \in Keys /\ p \in Nat /\ c \in Nat
      /\ p \in Linked /\ p \in DOMAIN node /\ List(p) = Bucket(key(t))
      /\ node[p].key < key(t)
      /\ c \in Linked /\ List(c) = Bucket(key(t)) /\ NoValue \in Results
  BY <1>1, <1>2, Standing
<1>4. Relocked(t)
  BY <1>1, UnlockChange DEF Holding
<1>5. /\ pred' = [pred EXCEPT ![t] = p] /\ curr' = [curr EXCEPT ![t] = c]
      /\ result[t] = NoValue /\ result' = [result EXCEPT ![t] = NoValue]
      /\ Writes(t)
  BY <1>1 DEF IInv, Types, Walks, WalkOf, Holding
<1>6. LockOf(t)'
  BY <1>1 DEF LockOf, Holding, IInv, Types
<1> HIDE DEF c, p
<1> QED
  BY <1>1, <1>2, <1>3, <1>4, <1>5, <1>6, Moves DEF Holding

\* The walk begins again.
LEMMA WalkAgainRight ==
  ASSUME IInv, NEW t \in Threads, WalkAgain(t)
  PROVE  IInv' /\ Table' = Table
<1> DEFINE h == head(Bucket(key(t)))
<1> DEFINE c == node[h].next
<1>1. /\ pc[t] = "again" /\ node' = node
      /\ pc' = [pc EXCEPT ![t] = "walk"]
      /\ pred' = [pred EXCEPT ![t] = h] /\ curr' = [curr EXCEPT ![t] = c]
      /\ UNCHANGED <<made, calls, op, result, seen>>
  BY DEF WalkAgain, Goto
<1>2. Running(t) /\ "walk" \in Places
  BY <1>1 DEF Running, Places
<1>3. op[t] \in Ops /\ key(t) \in Keys /\ NoValue \in Results
  BY <1>1, <1>2, Standing
<1>4. /\ h \in Linked /\ List(h) = Bucket(key(t)) /\ node[h].key < key(t)
      /\ h \in Nat /\ h \in DOMAIN node
  <2>1. Bucket(key(t)) \in Buckets /\ key(t) > DefaultKey /\ key(t) \in Nat
    BY <1>3, BucketType
  <2>2. /\ h \in Linked /\ List(h) = Bucket(key(t))
        /\ node[h].key = DefaultKey
    BY <2>1, EndFacts DEF IInv
  <2>3. h \in DOMAIN node /\ h \in Nat
    BY <2>2, NodeFacts DEF IInv, Linked
  <2> QED
    BY <2>1, <2>2, <2>3, KeysAssumption
<1>5. c \in Linked /\ List(c) = Bucket(key(t)) /\ c \in Nat
  <2>1. c \in Linked /\ List(c) = Bucket(key(t))
    BY <1>4, LinkFacts DEF IInv
  <2> QED
    BY <2>1, NodeFacts DEF IInv, Linked
<1>6. /\ result[t] = NoValue /\ result' = [result EXCEPT ![t] = NoValue]
      /\ Writes(t)
  BY <1>1 DEF IInv, Types, Walks, WalkOf
<1>7. LockOf(t)'
  BY <1>1 DEF LockOf, Holding, IInv, Types
<1>8. Relocked(t)
  BY <1>1 DEF Relocked, IInv, Types
<1> HIDE DEF c, h
<1> QED
  BY <1>1, <1>2, <1>3, <1>4, <1>5, <1>6, <1>7, <1>8, Moves DEF Holding

\* A remove finds nothing to remove.
LEMMA RemoveNothingRight ==
  ASSUME IInv, NEW t \in Threads, RemoveNothing(t)
  PROVE  IInv' /\ Table' = Table
<1> DEFINE p == pred[t]
<1> DEFINE c == curr[t]
<1>1. /\ pc[t] = "valid" /\ op[t].name = "remove" /\ node[c].key # key(t)
      /\ node' = node /\ pc' = [pc EXCEPT ![t] = "unlock"]
      /\ UNCHANGED <<made, calls, op, pred, curr, result, seen>>
  BY DEF RemoveNothing, Valid, Goto
<1>2. Running(t) /\ "unlock" \in Places
  BY <1>1 DEF Running, Places, Holding
<1>3. /\ op[t] \in Ops /\ key(t) \in Keys /\ p \in Nat /\ c \in Nat
      /\ p \in Linked /\ p \in DOMAIN node /\ List(p) = Bucket(key(t))
      /\ node[p].key < key(t) /\ c \in DOMAIN node
      /\ c \in Linked /\ List(c) = Bucket(key(t)) /\ NoValue \in Results
  BY <1>1, <1>2, Standing
<1>4. /\ pred' = [pred EXCEPT ![t] = p] /\ curr' = [curr EXCEPT ![t] = c]
      /\ result[t] = NoValue /\ result' = [result EXCEPT ![t] = NoValue]
      /\ Writes(t) /\ node[c].key >= key(t)
  BY <1>1, <1>3 DEF IInv, Types, Walks, WalkOf, Holding
<1>5. LockOf(t) /\ node[p].next = c /\ node[p].lock = t /\ node[c].lock = t
  BY <1>1, <1>3 DEF IInv, Locks, LockOf, Holding
<1>6. NoValue \in seen[t]
  <2> SUFFICES ASSUME NoValue \notin seen[t] PROVE FALSE
    OBVIOUS
  <2>1. PICK n : StoredAt(n, key(t))
    BY <1>2 DEF IInv, Current, CurrentOf, Absent
  <2>2. n \in Linked /\ List(n) = List(p) /\ node[n].key = key(t)
    BY <1>3, <2>1, StoredFacts DEF StoredAt, IInv
  <2>3. node[c].key <= key(t)
    BY <1>3, <1>5, <2>2 DEF IInv, Sorted
  <2>4. node[c].key \in Nat /\ key(t) \in Nat
    BY <1>3, NodeFacts, BucketType DEF IInv
  <2> QED
    BY <1>1, <1>4, <2>3, <2>4
<1>7. LockOf(t)'
  <2>1. pc'[t] = "unlock"
    BY <1>1 DEF IInv, Types
  <2> QED
    BY <1>1, <1>5, <2>1 DEF LockOf
<1> HIDE DEF c, p
<1>8. Relocked(t)
  BY <1>1 DEF Relocked, IInv, Types
<1> QED
  BY <1>1, <1>2, <1>3, <1>4, <1>5, <1>6, <1>7, <1>8, Moves DEF Holding

\* Both locks are released.
LEMMA UnlockRight ==
  ASSUME IInv, NEW t \in Threads, Unlock(t)
  PROVE  IInv' /\ Table' = Table
<1> DEFINE p == pred[t]
<1> DEFINE c == curr[t]
<1> DEFINE r == result[t]
<1>1. /\ pc[t] = "unlock" /\ node' = Unlocked(t)
      /\ pc' = [pc EXCEPT ![t] = "return"]
      /\ UNCHANGED <<made, calls, op, pred, curr, result, seen>>
  BY DEF Unlock, Goto
<1>2. Running(t) /\ "return" \in Places
  BY <1>1 DEF Running, Places
<1>3. /\ op[t] \in Ops /\ key(t) \in Keys /\ p \in Nat /\ c \in Nat
      /\ p \in Linked /\ p \in DOMAIN node /\ List(p) = Bucket(key(t))
      /\ node[p].key < key(t)
  BY <1>2, Standing
<1>4. Relocked(t)
  BY <1>1, UnlockChange DEF Holding
<1>5. /\ pred' = [pred EXCEPT ![t] = p] /\ curr' = [curr EXCEPT ![t] = c]
      /\ r \in Results /\ result' = [result EXCEPT ![t] = r]
      /\ Writes(t)
  BY <1>1 DEF IInv, Types, Walks, WalkOf, Holding
<1>6. LockOf(t)'
  BY <1>1 DEF LockOf, Holding, IInv, Types
<1>7. \/ c \in Linked /\ List(c) = Bucket(key(t))
      \/ c \notin DOMAIN node /\ op[t].name = "remove"
  BY <1>1, <1>2 DEF IInv, Walks, WalkOf, Linked
<1>8. op[t].name # "add" => r \in seen[t]
  BY <1>1, <1>2 DEF IInv, Current, CurrentOf
<1> HIDE DEF c, p, r
<1> QED
  BY <1>1, <1>2, <1>3, <1>4, <1>5, <1>6, <1>7, <1>8, Moves DEF Holding

\* A call returns.
LEMMA ReturnRight ==
  ASSUME IInv, NEW t \in Threads, Return(t)
  PROVE  IInv' /\ Table' = Table
<1>1. /\ pc[t] = "return" /\ pc' = [pc EXCEPT ![t] = "idle"]
      /\ op' = [op EXCEPT ![t] = NoOp] /\ seen' = [seen EXCEPT ![t] = {}]
      /\ result' = [result EXCEPT ![t] = NoValue]
      /\ pred' = [pred EXCEPT ![t] = 0] /\ curr' = [curr EXCEPT ![t] = 0]
      /\ node' = node /\ made' = made /\ calls' = calls
  BY DEF Return, Goto
<1>2. /\ pc'[t] = "idle" /\ op'[t] = NoOp /\ result'[t] = NoValue
      /\ pred'[t] = 0 /\ curr'[t] = 0
  BY <1>1 DEF IInv, Types
<1>3. Types'
  <2>1. pc' \in [Threads -> Places] /\ op' \in [Threads -> Ops \union {NoOp}]
    BY <1>1 DEF IInv, Types, Places
  <2>2. pred' \in [Threads -> Nat] /\ curr' \in [Threads -> Nat]
    BY <1>1 DEF IInv, Types
  <2>3. result' \in [Threads -> Results] /\ seen' \in [Threads -> SUBSET Results]
    BY <1>1 DEF IInv, Types, Results
  <2> QED
    BY <1>1, <2>1, <2>2, <2>3 DEF IInv, Types
<1>4. Quiet(t)
  <2>1. OthersKept(t)
    BY <1>1 DEF OthersKept, IInv, Types
  <2>2. LinksKept(t)
    BY <1>1, <1>2 DEF LinksKept, IInv, Ends
  <2>3. NodesKept(t)
    BY <1>1, <1>2, <2>1, <2>2 DEF NodesKept, Running
  <2> QED
    BY <1>1, <2>3 DEF Quiet, IInv, Types
<1>5. WalkOf(t)'
  <2>1. 0 \in Linked'
    BY <1>4, LinksStep, KeysAssumption DEF Quiet, NodesKept, Ends
  <2> QED
    BY <1>2, <2>1 DEF WalkOf, Running, Holding
<1>6. LockOf(t)' /\ CurrentOf(t)' /\ ~Running(t)'
  BY <1>2 DEF LockOf, CurrentOf, Running, Holding
<1> QED
  BY <1>3, <1>4, <1>5, <1>6, QuietStep
-----------------------------------------------------------------------------
(* The actions that change the table, and the removal of a node.           *)

\* What a call knows that has validated its neighbours.
LEMMA ValidFacts ==
  ASSUME IInv, NEW t \in Threads, pc[t] = "valid"
  PROVE  /\ Running(t) /\ node[pred[t]].next = curr[t]
         /\ node[pred[t]].lock = t /\ node[curr[t]].lock = t
         /\ ~node[pred[t]].marked /\ ~node[curr[t]].marked
         /\ node[curr[t]].key >= key(t) /\ Writes(t) /\ result[t] = NoValue
         /\ node[curr[t]].key \in Nat /\ node[pred[t]].key \in Nat /\ key(t) \in Nat
         /\ op[t] \in Ops /\ key(t) \in Keys
         /\ node[curr[t]].key = key(t) => StoredAt(curr[t], key(t))
         /\ op[t].name = "add" =>
              \A u \in Threads : Running(u) => op[u].name # "remove"
<1>1. Running(t)
  BY DEF Running
<1>2. WalkOf(t) /\ LockOf(t)
  BY DEF IInv, Walks, Locks
<1>3. /\ pred[t] \in DOMAIN node /\ curr[t] \in DOMAIN node
      /\ key(t) \in Keys /\ op[t] \in Ops
  BY <1>1, Standing
<1>4. /\ node[curr[t]].key \in Nat /\ node[pred[t]].key \in Nat /\ key(t) \in Nat
      /\ curr[t] \in Nat
  BY <1>3, NodeFacts, BucketType DEF IInv
<1>5. ~node[curr[t]].marked
  BY <1>2 DEF LockOf
<1>6. node[curr[t]].key = key(t) => StoredAt(curr[t], key(t))
  <2> SUFFICES ASSUME node[curr[t]].key = key(t) PROVE curr[t] >= 2 * Len
    BY <1>3, <1>5 DEF StoredAt
  <2>1. key(t) > DefaultKey /\ key(t) < MaxKey
    BY <1>3, BucketType
  <2> QED
    BY <1>3, <1>4, <2>1, NodeFacts, KeysAssumption DEF IInv
<1>7. op[t].name = "add" => \A u \in Threads : Running(u) => op[u].name # "remove"
  BY <1>1 DEF IInv, Removes, RemoveOf
<1> QED
  BY <1>1, <1>2, <1>3, <1>4, <1>5, <1>6, <1>7 DEF WalkOf, LockOf, Holding

\* An add finds its key and overwrites the value.
LEMMA OverwriteRight ==
  ASSUME IInv, NEW t \in Threads, Overwrite(t)
  PROVE  IInv' /\ Table' = [Table EXCEPT ![key(t)] = op[t].value]
<1> DEFINE c == curr[t]
<1> DEFINE k == key(t)
<1> DEFINE v == op[t].value
<1>1. /\ pc[t] = "valid" /\ op[t].name = "add" /\ node[c].key = k
      /\ node' = [node EXCEPT ![c].value = v]
      /\ seen' = SeenWith(k, v) /\ pc' = [pc EXCEPT ![t] = "unlock"]
      /\ UNCHANGED <<made, calls, op, pred, curr, result>>
  BY DEF Overwrite, Valid, Goto
<1>2. /\ Running(t) /\ node[pred[t]].lock = t /\ node[c].lock = t
      /\ Writes(t) /\ op[t] \in Ops /\ k \in Keys /\ StoredAt(c, k)
      /\ \A u \in Threads : Running(u) => op[u].name # "remove"
  BY <1>1, ValidFacts
<1>3. v \in Values /\ v \in Results /\ c \in DOMAIN node /\ c \in Linked
  BY <1>1, <1>2, OpsType, Standing DEF Results
<1>4. /\ DOMAIN node' = DOMAIN node
      /\ \A n \in DOMAIN node :
           /\ node'[n] \in Records
           /\ node'[n].key = node[n].key /\ node'[n].next = node[n].next
           /\ node'[n].marked = node[n].marked /\ node'[n].lock = node[n].lock
           /\ node'[n].value = IF n = c THEN v ELSE node[n].value
  BY <1>1, <1>3 DEF IInv, Types, Records
<1>5. pc'[t] = "unlock" /\ \A u \in Threads : u # t => pc'[u] = pc[u]
  BY <1>1 DEF IInv, Types
<1>6. \A u \in Threads :
        /\ seen[u] \subseteq seen'[u]
        /\ Running(u) /\ key(u) = k => v \in seen'[u]
        /\ seen'[u] \in SUBSET Results
  BY <1>1, <1>3 DEF SeenWith, Running, IInv, Types
<1>7. Types'
  <2>1. pc' \in [Threads -> Places]
    BY <1>1 DEF IInv, Types, Places, Holding
  <2>2. seen' \in [Threads -> SUBSET Results]
    BY <1>1, <1>6 DEF SeenWith
  <2> QED
    BY <1>1, <1>4, <2>1, <2>2 DEF IInv, Types
<1>8. OthersKept(t) /\ LinksKept(t) /\ NodesKept(t)
  <2>1. OthersKept(t)
    BY <1>1, <1>5 DEF OthersKept
  <2>2. LinksKept(t)
    BY <1>1, <1>3, <1>4, <1>5 DEF LinksKept, IInv, Ends
  <2> QED
    BY <1>1, <1>2, <1>4, <1>5, <2>1, <2>2 DEF NodesKept
<1>9. /\ Linked' = Linked /\ \A n \in DOMAIN node : List(n)' = List(n)
      /\ Ends' /\ Sorted'
  BY <1>8, LinksStep
<1>10. Removes'
  BY <1>1, <1>8, RemovesStep
<1>11. WalkOf(t)'
  <2>1. WalkOf(t) /\ c \in DOMAIN node /\ pred[t] \in DOMAIN node
    BY <1>2, <1>3, Standing DEF IInv, Walks
  <2>2. List(pred[t])' = List(pred[t]) /\ List(curr[t])' = List(curr[t])
    <3>1. PICK p \in DOMAIN node : p = pred[t]
      BY <2>1
    <3>2. PICK d \in DOMAIN node : d = curr[t]
      BY <2>1
    <3>3. List(p)' = List(p) /\ List(d)' = List(d)
      BY <1>9
    <3>4. List(p)' = List(pred[t])' /\ List(d)' = List(curr[t])'
      BY <1>1, <3>1, <3>2 DEF List
    <3> QED
      BY <3>1, <3>2, <3>3, <3>4
  <2> QED
    BY <1>1, <1>2, <1>4, <1>5, <1>9, <2>1, <2>2
       DEF WalkOf, Running, Holding, key, Writes
<1>12. LockOf(t)'
  BY <1>1, <1>2, <1>3, <1>4, <1>5, Standing DEF LockOf
<1>13. \A n, j : StoredAt(n, j)' <=> StoredAt(n, j)
  BY <1>8, StoredSame
<1>14. \A n : StoredAt(n, k) => n = c
  BY <1>2, StoredFacts DEF IInv
<1>15. ASSUME NEW u \in Threads PROVE CurrentOf(u)'
  <2> SUFFICES ASSUME Running(u)' PROVE CurrentOf(u)'
    BY DEF CurrentOf
  <2>1. Running(u) /\ key(u)' = key(u) /\ (Writes(u)' <=> Writes(u)) /\ CurrentOf(u)
    BY <1>1, <1>2, <1>5 DEF Running, key, Writes, IInv, Current
  <2>2. PICK j : j = key(u)
    OBVIOUS
  <2>3. ASSUME NEW n, StoredAt(n, key(u))' PROVE node'[n].value \in seen'[u]
    <3>1. StoredAt(n, j)'
      BY <2>1, <2>2, <2>3, Zenon DEF StoredAt
    <3>2. StoredAt(n, key(u)) /\ n \in DOMAIN node
      BY <1>13, <2>2, <3>1 DEF StoredAt
    <3>3. CASE n = c
      <4>1. key(u) = k
        BY <1>1, <3>2, <3>3 DEF StoredAt
      <4> QED
        BY <1>4, <1>6, <2>1, <3>2, <3>3, <4>1
    <3>4. CASE n # c
      BY <1>4, <1>6, <2>1, <3>2, <3>4 DEF CurrentOf
    <3> QED
      BY <3>3, <3>4
  <2>4. Absent(key(u))' => NoValue \in seen'[u]
    <3>1. \A n : StoredAt(n, j)' => StoredAt(n, key(u))'
      BY <2>1, <2>2, Zenon DEF StoredAt
    <3>2. Absent(key(u))' => Absent(key(u))
      BY <1>13, <2>2, <3>1 DEF Absent
    <3> QED
      BY <1>6, <2>1, <3>2 DEF CurrentOf
  <2>5. pc[u] = "walk" => curr[u] \in DOMAIN node
    BY <2>1, Standing
  <2>6. pc'[u] = "walk" /\ ~Writes(u)' /\ NoValue \notin seen'[u] =>
          node'[curr'[u]].key <= key(u)'
    BY <1>1, <1>4, <1>5, <1>6, <2>1, <2>5 DEF CurrentOf
  <2>7. op'[u].name # "add" /\ pc'[u] \in {"unlink", "delete", "unlock", "return"} =>
          result'[u] \in seen'[u]
    BY <1>1, <1>5, <1>6, <2>1 DEF CurrentOf
  <2> QED
    BY <2>3, <2>4, <2>6, <2>7 DEF CurrentOf
<1>16. IInv'
  BY <1>7, <1>8, <1>9, <1>10, <1>11, <1>12, <1>15, OthersStand
     DEF IInv, Walks, Locks, Current
<1>17. Table' = [Table EXCEPT ![k] = v]
  <2> DEFINE f == [Table EXCEPT ![k] = v]
  <2>1. Table \in [Keys -> Results]
    BY TableIs DEF IInv, Table
  <2>2. f \in [Keys -> Results] /\ f[k] = v /\ \A j \in Keys : j # k => f[j] = Table[j]
    <3> HIDE DEF k, v
    <3> QED
      BY <1>2, <1>3, <2>1
  <2> HIDE DEF f
  <2>3. ASSUME NEW j \in Keys PROVE \A n : StoredAt(n, j)' => f[j] = node'[n].value
    <3>1. \A n : StoredAt(n, j) => Table[j] = node[n].value /\ n \in DOMAIN node
      BY TableIs DEF IInv, StoredAt
    <3>2. \A n : StoredAt(n, j) /\ n = c => j = k
      BY <1>1 DEF StoredAt
    <3> QED
      BY <1>4, <1>13, <1>14, <2>2, <3>1, <3>2
  <2>4. ASSUME NEW j \in Keys, Absent(j)' PROVE f[j] = NoValue
    <3>1. Absent(j)
      BY <1>13, <2>4 DEF Absent
    <3>2. j # k /\ Table[j] = NoValue
      BY <1>2, <3>1, TableIs DEF Absent, IInv
    <3> QED
      BY <2>2, <3>2
  <2> QED
    BY <1>16, <2>2, <2>3, <2>4, TableChange DEF f
<1> QED
  BY <1>16, <1>17

\* An add links a new node.
LEMMA InsertRight ==
  ASSUME IInv, NEW t \in Threads, Insert(t)
  PROVE  IInv' /\ Table' = [Table EXCEPT ![key(t)] = op[t].value]
<1>0. PICK p, c, k, v, n : /\ p = pred[t] /\ c = curr[t] /\ k = key(t)
                          /\ v = op[t].value /\ n = 2 * Len + made
  OBVIOUS
<1>1. /\ pc[t] = "valid" /\ op[t].name = "add" /\ node[c].key # k
      /\ made' = made + 1
      /\ node' = [m \in DOMAIN node \union {n} |->
                    IF m = n THEN Node(k, v, c)
                    ELSE IF m = p THEN [node[m] EXCEPT !.next = n] ELSE node[m]]
      /\ seen' = SeenWith(k, v) /\ pc' = [pc EXCEPT ![t] = "unlock"]
      /\ UNCHANGED <<calls, op, pred, curr, result>>
  BY <1>0 DEF Insert, Valid, Goto
<1>2. /\ Running(t) /\ node[p].next = c /\ node[p].lock = t /\ node[c].lock = t
      /\ Writes(t) /\ op[t] \in Ops /\ k \in Keys /\ result[t] = NoValue
      /\ node[c].key >= k /\ node[c].key \in Nat /\ node[p].key \in Nat /\ k \in Nat
      /\ \A u \in Threads : Running(u) => op[u].name # "remove"
  BY <1>0, <1>1, ValidFacts
<1>3. /\ v \in Values /\ v \in Results
      /\ p \in DOMAIN node /\ c \in DOMAIN node /\ p \in Nat /\ c \in Nat
      /\ List(p) = Bucket(k) /\ List(c) = Bucket(k)
      /\ node[p].key < k /\ k < node[c].key
  BY <1>0, <1>1, <1>2, OpsType, Standing DEF Results
<1>4. /\ n \in Nat /\ n >= 2 * Len /\ n \notin DOMAIN node
      /\ DOMAIN node \subseteq Nat /\ made \in Nat
  BY <1>0, KeysAssumption DEF IInv, Types
<1>5. /\ DOMAIN node' = DOMAIN node \union {n} /\ node'[n] = Node(k, v, c)
      /\ node'[p] = [node[p] EXCEPT !.next = n]
      /\ \A m \in DOMAIN node : m # p => node'[m] = node[m]
  BY <1>1, <1>3, <1>4
<1>6. /\ node'[n].key = k /\ node'[n].value = v /\ node'[n].next = c
      /\ ~node'[n].marked /\ node'[p].next = n /\ node'[n] \in Records
      /\ \A m \in DOMAIN node :
           /\ node'[m] \in Records /\ node'[m].key = node[m].key
           /\ node'[m].value = node[m].value /\ node'[m].marked = node[m].marked
           /\ node'[m].lock = node[m].lock
           /\ m # p => node'[m].next = node[m].next
  <2>1. node'[n] = [key |-> k, value |-> v, next |-> c, marked |-> FALSE,
                    lock |-> NoThread]
    BY <1>5 DEF Node
  <2>2. node'[n] \in Records
    BY <1>2, <1>3, <2>1 DEF Records
  <2>3. \A m \in DOMAIN node : node[m] \in Records
    BY DEF IInv, Types
  <2>4. \A m \in DOMAIN node :
           /\ node'[m] \in Records /\ node'[m].key = node[m].key
           /\ node'[m].value = node[m].value /\ node'[m].marked = node[m].marked
           /\ node'[m].lock = node[m].lock
    BY <1>4, <1>5, <2>3 DEF Records
  <2>5. node'[p].next = n
    BY <1>3, <1>5, <2>3 DEF Records
  <2>6. \A m \in DOMAIN node : m # p => node'[m].next = node[m].next
    BY <1>5
  <2> QED
    BY <2>1, <2>2, <2>4, <2>5, <2>6
<1>7. pc'[t] = "unlock" /\ \A u \in Threads : u # t => pc'[u] = pc[u]
  BY <1>1 DEF IInv, Types
<1>8. \A u \in Threads :
        /\ seen[u] \subseteq seen'[u]
        /\ Running(u) /\ key(u) = k => v \in seen'[u]
        /\ seen'[u] \in SUBSET Results
  BY <1>1, <1>3 DEF SeenWith, Running, IInv, Types
<1>9. Linked = DOMAIN node /\ Linked' = DOMAIN node'
      /\ \A u \in Threads : pc[u] \notin {"unlink", "delete"}
  <2>1. \A u \in Threads : pc[u] \notin {"unlink", "delete"}
    BY <1>2 DEF IInv, Removes, RemoveOf, Running
  <2> QED
    BY <1>7, <2>1 DEF Linked
<1>10. List(n)' = Bucket(k) /\ \A m \in DOMAIN node : List(m)' = List(m)
  BY <1>4, <1>6, KeysAssumption DEF List
<1>11. \A m \in Linked :
         /\ node[m].next \in DOMAIN node /\ List(node[m].next) = List(m)
         /\ m \in Nat /\ node[m].key \in Nat /\ node[node[m].next].key \in Nat
  BY LinkFacts, NodeFacts DEF IInv, Linked
<1>12. Ends'
  <2>1. \A m \in DOMAIN node' : m >= 2 * Len =>
          node'[m].key \in Keys /\ node'[m].value \in Values
    BY <1>2, <1>3, <1>5, <1>6 DEF IInv, Ends
  <2>2. 0..(2 * Len - 1) \subseteq Linked'
    BY <1>5, <1>9 DEF IInv, Ends
  <2>3. ASSUME NEW i \in Buckets
        PROVE  /\ node'[head(i)].key = DefaultKey /\ node'[tail(i)].key = MaxKey
               /\ node'[tail(i)].next = tail(i)
    <3>1. /\ head(i) \in DOMAIN node /\ tail(i) \in DOMAIN node
          /\ node[head(i)].key = DefaultKey /\ node[tail(i)].key = MaxKey
          /\ node[tail(i)].next = tail(i)
      BY EndFacts DEF IInv, Linked, Ends
    <3>2. tail(i) # p
      BY <1>2, <1>3, <3>1, BucketType, KeysAssumption
    <3> QED
      BY <1>6, <3>1, <3>2
  <2> QED
    BY <2>1, <2>2, <2>3 DEF Ends
<1>13. ASSUME NEW m \in DOMAIN node, ~(m >= Len /\ m < 2 * Len)
       PROVE  /\ node'[m].next \in Linked'
              /\ List(node[m].next)' = List(m)'
              /\ node'[m].key < node'[node'[m].next].key
  <2>1. PICK j \in DOMAIN node : j = node[m].next
    BY <1>9, <1>11
  <2>2. List(j) = List(m) /\ node[m].key < node[j].key
    BY <1>13, <2>1 DEF IInv, Sorted
  <2>3. CASE m = p
    <3>1. node'[m].next = n
      BY <1>6, <2>3
    <3>2. List(node[m].next)' = List(n)'
      BY <3>1 DEF List
    <3> QED
      BY <1>3, <1>5, <1>6, <1>9, <1>10, <2>3, <3>1, <3>2
  <2>4. CASE m # p
    <3>1. node'[m].next = j
      BY <1>6, <2>1, <2>4
    <3>2. List(node[m].next)' = List(j)'
      BY <3>1 DEF List
    <3> QED
      BY <1>5, <1>6, <1>9, <1>10, <2>2, <3>1, <3>2
  <2> QED
    BY <2>3, <2>4
<1>14. /\ node'[n].next \in Linked' /\ List(node[n].next)' = List(n)'
       /\ node'[n].key < node'[node'[n].next].key
  <2>1. List(node[n].next)' = List(c)'
    BY <1>6 DEF List
  <2> QED
    BY <1>3, <1>5, <1>6, <1>9, <1>10, <2>1
<1>15. ASSUME NEW m \in Linked, NEW j \in Linked, List(m) = List(j)
       PROVE  /\ node[m].key < node[j].key => node[node[m].next].key <= node[j].key
              /\ node[m].key = node[j].key => m = j
  BY <1>15 DEF IInv, Sorted
<1>16. ASSUME NEW m \in DOMAIN node, NEW j \in DOMAIN node, List(m) = List(j)
       PROVE  /\ node'[m].key < node'[j].key =>
                    node'[node'[m].next].key <= node'[j].key
              /\ node'[m].key = node'[j].key => m = j
  <2>1. CASE m = p
    <3>1. node[m].key < node[j].key => k <= node[j].key
      BY <1>2, <1>3, <1>9, <1>11, <1>15, <1>16, <2>1
    <3> QED
      BY <1>6, <1>9, <1>15, <1>16, <2>1, <3>1
  <2>2. CASE m # p
    BY <1>6, <1>9, <1>11, <1>15, <1>16, <2>2
  <2> QED
    BY <2>1, <2>2
<1>17. ASSUME NEW j \in DOMAIN node, List(j) = Bucket(k)
       PROVE  /\ k < node[j].key => node[c].key <= node[j].key
              /\ k # node[j].key
  BY <1>2, <1>3, <1>9, <1>11, <1>15, <1>17
<1>18. ASSUME NEW m \in DOMAIN node, List(m) = Bucket(k), node[m].key < k
       PROVE  node'[node'[m].next].key <= k
  <2>1. CASE m = p
    BY <1>2, <1>6, <2>1
  <2>2. CASE m # p
    <3>1. node'[m].next = node[m].next
          /\ node'[node[m].next].key = node[node[m].next].key
      BY <1>6, <1>9, <1>11, <2>2
    <3>2. node[m].key < node[p].key => node[node[m].next].key <= node[p].key
      BY <1>3, <1>9, <1>15, <1>18
    <3>3. node[p].key < node[m].key => node[c].key <= node[m].key
      BY <1>2, <1>3, <1>9, <1>15, <1>18
    <3>4. node[m].key # node[p].key
      BY <1>3, <1>9, <1>15, <1>18, <2>2
    <3> QED
      BY <1>2, <1>3, <1>9, <1>11, <1>18, <3>1, <3>2, <3>3, <3>4
  <2> QED
    BY <2>1, <2>2
<1>19. ASSUME NEW m \in Linked', NEW j \in Linked', List(m)' = List(j)'
       PROVE  /\ node'[m].key < node'[j].key =>
                    node'[node'[m].next].key <= node'[j].key
              /\ node'[m].key = node'[j].key => m = j
  <2>1. CASE m # n /\ j # n
    <3>1. m \in DOMAIN node /\ j \in DOMAIN node /\ List(m) = List(j)
      BY <1>5, <1>9, <1>10, <1>19, <2>1
    <3> QED
      BY <1>16, <3>1
  <2>2. CASE m = n /\ j # n
    <3>1. j \in DOMAIN node /\ List(j) = Bucket(k)
      BY <1>5, <1>9, <1>10, <1>19, <2>2
    <3> QED
      BY <1>3, <1>6, <1>17, <2>2, <3>1
  <2>3. CASE m # n /\ j = n
    <3>1. m \in DOMAIN node /\ List(m) = Bucket(k)
      BY <1>5, <1>9, <1>10, <1>19, <2>3
    <3> QED
      BY <1>6, <1>17, <1>18, <2>3, <3>1
  <2>4. CASE m = n /\ j = n
    BY <1>2, <1>6, <2>4
  <2> QED
    BY <2>1, <2>2, <2>3, <2>4
<1>20. Sorted'
  BY <1>5, <1>13, <1>14, <1>19 DEF Sorted
<1>21. Types'
  <2>1. pc' \in [Threads -> Places]
    BY <1>1 DEF IInv, Types, Places, Holding
  <2>2. seen' \in [Threads -> SUBSET Results]
    BY <1>1, <1>8 DEF SeenWith
  <2>3. made' \in Nat /\ DOMAIN node' \subseteq 0..(2 * Len + made' - 1)
    BY <1>0, <1>1, <1>4, <1>5, KeysAssumption DEF IInv, Types
  <2>4. \A m \in DOMAIN node' : node'[m] \in Records
    BY <1>5, <1>6
  <2> QED
    BY <1>1, <2>1, <2>2, <2>3, <2>4 DEF IInv, Types
<1>22. Removes'
  <2>1. \A m \in DOMAIN node' : ~node'[m].marked
    BY <1>5, <1>6, <1>9 DEF IInv, Removes
  <2>2. \A u \in Threads : pc'[u] \notin {"unlink", "delete"}
    BY <1>7, <1>9
  <2>3. \A u \in Threads : Running(u)' => op'[u].name # "remove"
    BY <1>1, <1>2, <1>7 DEF Running
  <2> QED
    BY <2>1, <2>2, <2>3 DEF Removes, RemoveOf
<1>23. ASSUME NEW u \in Threads
       PROVE  /\ pred[u] \in DOMAIN node /\ curr[u] \in DOMAIN node
              /\ List(pred[u])' = List(pred[u]) /\ List(curr[u])' = List(curr[u])
              /\ Running(u)' <=> Running(u)
              /\ key(u)' = key(u) /\ (Writes(u)' <=> Writes(u))
  <2>1. Running(u)' <=> Running(u)
    BY <1>2, <1>7 DEF Running
  <2>2. key(u)' = key(u) /\ (Writes(u)' <=> Writes(u))
    BY <1>1 DEF key, Writes
  <2>3. pred[u] \in DOMAIN node /\ curr[u] \in DOMAIN node
    <3>1. WalkOf(u) /\ op[u].name # "remove"
      BY <1>2 DEF IInv, Walks, WalkOf, NoOp
    <3> QED
      BY <3>1 DEF WalkOf, Linked
  <2>4. PICK q \in DOMAIN node, d \in DOMAIN node : q = pred[u] /\ d = curr[u]
    BY <2>3
  <2>5. List(q)' = List(q) /\ List(d)' = List(d)
    BY <1>10
  <2>6. List(q)' = List(pred[u])' /\ List(d)' = List(curr[u])'
    BY <1>1, <2>4 DEF List
  <2> QED
    BY <2>1, <2>2, <2>3, <2>4, <2>5, <2>6
<1>24. ASSUME NEW u \in Threads PROVE WalkOf(u)'
  <2>1. WalkOf(u)
    BY DEF IInv, Walks
  <2>2. /\ pred[u] \in DOMAIN node /\ curr[u] \in DOMAIN node
        /\ List(pred[u])' = List(pred[u]) /\ List(curr[u])' = List(curr[u])
        /\ Running(u)' <=> Running(u)
        /\ key(u)' = key(u) /\ (Writes(u)' <=> Writes(u))
    BY <1>23
  <2>3. /\ node'[pred[u]].key = node[pred[u]].key
        /\ node'[curr[u]].key = node[curr[u]].key
    BY <1>6, <2>2
  <2>4. pred[u] \in Linked' /\ curr[u] \in Linked'
    BY <1>5, <1>9, <2>2
  <2>5. pred'[u] = pred[u] /\ curr'[u] = curr[u] /\ op'[u] = op[u]
        /\ result'[u] = result[u]
    BY <1>1
  <2>6. \/ pc'[u] = pc[u]
        \/ pc[u] = "valid" /\ pc'[u] = "unlock"
    BY <1>1, <1>7
  <2> QED
    BY <2>1, <2>2, <2>3, <2>4, <2>5, <2>6 DEF WalkOf, Holding
<1>25. ASSUME NEW u \in Threads PROVE LockOf(u)'
  <2>1. LockOf(u) /\ pred[u] \in DOMAIN node /\ curr[u] \in DOMAIN node
    BY <1>23 DEF IInv, Locks
  <2>2. /\ node'[pred[u]].lock = node[pred[u]].lock
        /\ node'[curr[u]].lock = node[curr[u]].lock
        /\ node'[pred[u]].marked = node[pred[u]].marked
        /\ node'[curr[u]].marked = node[curr[u]].marked
        /\ pred[u] # p => node'[pred[u]].next = node[pred[u]].next
    BY <1>6, <2>1
  <2>3. CASE u = t
    BY <1>1, <1>7, <2>1, <2>2, <2>3, <1>0, <1>2 DEF LockOf
  <2>4. CASE u # t
    <3>1. pc[u] \in {"valid", "unlink"} => pred[u] # p
      BY <1>2, <2>1, <2>4 DEF LockOf, Holding
    <3> QED
      BY <1>1, <1>7, <2>1, <2>2, <2>4, <3>1 DEF LockOf, Holding
  <2> QED
    BY <2>3, <2>4
<1>26. StoredAt(n, k)' /\ \A m, j : StoredAt(m, j)' <=>
                              StoredAt(m, j) \/ (m = n /\ j = k)
  <2>1. ASSUME NEW m, NEW j, m \in DOMAIN node
        PROVE  StoredAt(m, j)' <=> StoredAt(m, j)
    BY <1>5, <1>6, <2>1 DEF StoredAt
  <2>2. ASSUME NEW j PROVE StoredAt(n, j)' <=> j = k
    BY <1>4, <1>5, <1>6 DEF StoredAt
  <2>3. \A m, j : StoredAt(m, j) => m \in DOMAIN node
    BY DEF StoredAt
  <2>4. \A m, j : StoredAt(m, j)' => m \in DOMAIN node \/ m = n
    BY <1>5 DEF StoredAt
  <2> QED
    BY <1>4, <2>1, <2>2, <2>3, <2>4
<1>27. ASSUME NEW u \in Threads PROVE CurrentOf(u)'
  <2> SUFFICES ASSUME Running(u)' PROVE CurrentOf(u)'
    BY DEF CurrentOf
  <2>1. Running(u) /\ key(u)' = key(u) /\ (Writes(u)' <=> Writes(u)) /\ CurrentOf(u)
    BY <1>23 DEF IInv, Current
  <2>2. PICK j : j = key(u)
    OBVIOUS
  <2>3. ASSUME NEW m, StoredAt(m, key(u))' PROVE node'[m].value \in seen'[u]
    <3>1. StoredAt(m, j)'
      BY <2>1, <2>2, <2>3 DEF StoredAt
    <3>2. CASE StoredAt(m, j)
      BY <1>6, <1>8, <2>1, <2>2, <3>2 DEF CurrentOf, StoredAt
    <3>3. CASE m = n /\ j = k
      BY <1>6, <1>8, <2>1, <2>2, <3>3
    <3> QED
      BY <1>26, <3>1, <3>2, <3>3
  <2>4. Absent(key(u))' => NoValue \in seen'[u]
    <3>1. \A m : StoredAt(m, j)' => StoredAt(m, key(u))'
      BY <2>1, <2>2 DEF StoredAt
    <3>2. Absent(key(u))' => Absent(key(u))
      BY <1>26, <2>2, <3>1 DEF Absent
    <3> QED
      BY <1>8, <2>1, <3>2 DEF CurrentOf
  <2>5. curr[u] \in DOMAIN node
    BY <1>23
  <2>6. pc'[u] = "walk" /\ ~Writes(u)' /\ NoValue \notin seen'[u] =>
          node'[curr'[u]].key <= key(u)'
    BY <1>1, <1>6, <1>7, <1>8, <2>1, <2>5 DEF CurrentOf
  <2>7. op'[u].name # "add" /\ pc'[u] \in {"unlink", "delete", "unlock", "return"} =>
          result'[u] \in seen'[u]
    BY <1>1, <1>7, <1>8, <2>1 DEF CurrentOf
  <2> QED
    BY <2>3, <2>4, <2>6, <2>7 DEF CurrentOf
<1>28. IInv'
  BY <1>12, <1>20, <1>21, <1>22, <1>24, <1>25, <1>27 DEF IInv, Walks, Locks, Current
<1>29. Table' = [Table EXCEPT ![k] = v]
  <2> DEFINE f == [Table EXCEPT ![k] = v]
  <2>1. Table \in [Keys -> Results]
    BY TableIs DEF IInv, Table
  <2>2. f \in [Keys -> Results] /\ f[k] = v /\ \A j \in Keys : j # k => f[j] = Table[j]
    BY <1>2, <1>3, <2>1
  <2> HIDE DEF f
  <2>3. ASSUME NEW j \in Keys, NEW m, StoredAt(m, j)' PROVE f[j] = node'[m].value
    <3>1. CASE m = n /\ j = k
      BY <1>6, <2>2, <3>1
    <3>2. CASE StoredAt(m, j)
      <4>1. j # k
        <5>1. ~StoredAt(m, k)
          <6>1. StoredAt(m, k) =>
                  m \in DOMAIN node /\ List(m) = Bucket(k) /\ node[m].key = k
            BY <1>2, StoredFacts DEF StoredAt, IInv, Linked
          <6> QED
            BY <1>17, <6>1
        <5> QED
          BY <3>2, <5>1
      <4>2. Table[j] = node[m].value /\ m \in DOMAIN node
        BY <3>2, TableIs DEF IInv, StoredAt
      <4> QED
        BY <1>6, <2>2, <4>1, <4>2
    <3> QED
      BY <1>26, <2>3, <3>1, <3>2
  <2>4. ASSUME NEW j \in Keys, Absent(j)' PROVE f[j] = NoValue
    <3>1. Absent(j) /\ j # k
      BY <1>26, <2>4 DEF Absent
    <3>2. Table[j] = NoValue
      BY <3>1, TableIs DEF IInv
    <3> QED
      BY <2>2, <3>1, <3>2
  <2> QED
    BY <1>28, <2>2, <2>3, <2>4, TableChange DEF f
<1> QED
  BY <1>0, <1>28, <1>29

\* A remove runs alone, so that it has only its own part to show.
LEMMA AloneStep ==
  ASSUME IInv, NEW t \in Threads, \A u \in Threads \ {t} : ~Running(u),
         OthersKept(t), Types', Ends', Sorted',
         \A n \in DOMAIN node' : node'[n].marked =>
           pc'[t] \in {"unlink", "delete"} /\ curr'[t] = n,
         RemoveOf(t)', WalkOf(t)', LockOf(t)', CurrentOf(t)'
  PROVE  IInv'
<1>1. \A u \in Threads \ {t} :
        RemoveOf(u)' /\ WalkOf(u)' /\ LockOf(u)' /\ CurrentOf(u)'
  BY IdleKept
<1>2. Removes'
  BY <1>1 DEF Removes
<1> QED
  BY <1>1, <1>2 DEF IInv, Walks, Locks, Current

\* A remove marks its node: the key is in the table no more.
LEMMA MarkRight ==
  ASSUME IInv, NEW t \in Threads, Mark(t)
  PROVE  /\ IInv' /\ Table[key(t)] # NoValue
         /\ Table' = [Table EXCEPT ![key(t)] = NoValue]
<1>0. PICK p, c, k : p = pred[t] /\ c = curr[t] /\ k = key(t)
  OBVIOUS
<1>1. /\ pc[t] = "valid" /\ op[t].name = "remove" /\ node[c].key = k
      /\ node' = [node EXCEPT ![c].marked = TRUE]
      /\ result' = [result EXCEPT ![t] = node[c].value]
      /\ seen' = SeenWith(k, NoValue) /\ pc' = [pc EXCEPT ![t] = "unlink"]
      /\ UNCHANGED <<made, calls, op, pred, curr>>
  BY <1>0 DEF Mark, Valid, Goto
<1>2. /\ Running(t) /\ node[p].next = c /\ node[p].lock = t /\ node[c].lock = t
      /\ Writes(t) /\ op[t] \in Ops /\ k \in Keys /\ StoredAt(c, k)
  BY <1>0, <1>1, ValidFacts
<1>3. /\ p \in DOMAIN node /\ c \in DOMAIN node /\ c \in Linked /\ p \in Linked
      /\ NoValue \in Results /\ NoValue \notin Values
      /\ node[c].value \in Values
  BY <1>0, <1>1, <1>2, Standing, StoredFacts DEF IInv
<1>4. \A u \in Threads \ {t} : ~Running(u)
  BY <1>1, <1>2 DEF IInv, Removes, RemoveOf
<1>5. /\ DOMAIN node' = DOMAIN node
      /\ \A n \in DOMAIN node :
           /\ node'[n] \in Records
           /\ node'[n].key = node[n].key /\ node'[n].next = node[n].next
           /\ node'[n].value = node[n].value /\ node'[n].lock = node[n].lock
           /\ node'[n].marked <=> (node[n].marked \/ n = c)
  BY <1>1, <1>3 DEF IInv, Types, Records
<1>6. /\ pc'[t] = "unlink" /\ result'[t] = node[c].value
      /\ \A u \in Threads : u # t => pc'[u] = pc[u] /\ result'[u] = result[u]
  BY <1>1 DEF IInv, Types
<1>7. seen'[t] = seen[t] \union {NoValue}
      /\ \A u \in Threads : seen'[u] \in SUBSET Results
  BY <1>0, <1>1, <1>3 DEF SeenWith, IInv, Types
<1>8. Types'
  <2>1. pc' \in [Threads -> Places]
    BY <1>1 DEF IInv, Types, Places, Holding
  <2>2. seen' \in [Threads -> SUBSET Results]
    BY <1>1, <1>7 DEF SeenWith
  <2>3. result' \in [Threads -> Results]
    BY <1>1, <1>3 DEF IInv, Types, Results
  <2> QED
    BY <1>1, <1>5, <2>1, <2>2, <2>3 DEF IInv, Types
<1>9. OthersKept(t) /\ LinksKept(t)
  BY <1>1, <1>5, <1>6 DEF OthersKept, LinksKept, IInv, Ends
<1>10. /\ Linked' = Linked /\ \A n \in DOMAIN node : List(n)' = List(n)
       /\ Ends' /\ Sorted'
  BY <1>9, LinksStep
<1>11. \A n \in DOMAIN node' : node'[n].marked =>
         pc'[t] \in {"unlink", "delete"} /\ curr'[t] = n
  <2>1. \A n \in DOMAIN node : ~node[n].marked
    BY <1>1, <1>4 DEF IInv, Removes, Running
  <2> QED
    BY <1>0, <1>1, <1>5, <1>6, <2>1
<1>12. RemoveOf(t)'
  <2>1. \A u \in Threads : u # t => ~Running(u)'
    BY <1>4, <1>6 DEF Running
  <2> QED
    BY <1>0, <1>1, <1>3, <1>5, <1>6, <2>1 DEF RemoveOf, key
<1>13. WalkOf(t)'
  <2>1. WalkOf(t)
    BY DEF IInv, Walks
  <2>2. List(p)' = List(p) /\ List(c)' = List(c)
    BY <1>3, <1>10
  <2>3. List(p)' = List(pred[t])' /\ List(c)' = List(curr[t])'
    BY <1>0, <1>1 DEF List
  <2>4. List(p) = List(pred[t]) /\ List(c) = List(curr[t])
    BY <1>0
  <2> QED
    BY <1>0, <1>1, <1>2, <1>3, <1>5, <1>6, <1>10, <2>1, <2>2, <2>3, <2>4
       DEF WalkOf, Running, Holding, key, Writes
<1>14. LockOf(t)'
  BY <1>0, <1>1, <1>2, <1>3, <1>5, <1>6 DEF LockOf
<1>15. \A n, j : StoredAt(n, j)' <=> StoredAt(n, j) /\ n # c
  BY <1>5 DEF StoredAt
<1>16. CurrentOf(t)'
  <2>1. CurrentOf(t) /\ key(t)' = k
    BY <1>0, <1>1 DEF IInv, Current, key
  <2>2. ASSUME NEW n, StoredAt(n, key(t))' PROVE node'[n].value \in seen'[t]
    <3>1. StoredAt(n, k)'
      BY <2>1, <2>2 DEF StoredAt
    <3>2. StoredAt(n, k) /\ n \in DOMAIN node
      BY <1>15, <3>1 DEF StoredAt
    <3> QED
      BY <1>0, <1>2, <1>5, <1>7, <2>1, <3>2 DEF CurrentOf
  <2>3. result'[t] \in seen'[t]
    BY <1>0, <1>2, <1>6, <1>7, <2>1 DEF CurrentOf
  <2> QED
    BY <1>6, <1>7, <2>2, <2>3 DEF CurrentOf
<1>17. IInv'
  BY <1>4, <1>8, <1>9, <1>10, <1>11, <1>12, <1>13, <1>14, <1>16, AloneStep
<1>18. Table[k] # NoValue
  BY <1>2, <1>3, TableIs DEF IInv
<1>19. Table' = [Table EXCEPT ![k] = NoValue]
  <2> DEFINE f == [Table EXCEPT ![k] = NoValue]
  <2>1. Table \in [Keys -> Results]
    BY TableIs DEF IInv, Table
  <2>2. /\ f \in [Keys -> Results] /\ f[k] = NoValue
        /\ \A j \in Keys : j # k => f[j] = Table[j]
    BY <1>2, <1>3, <2>1
  <2> HIDE DEF f
  <2>3. ASSUME NEW j \in Keys, NEW n, StoredAt(n, j)' PROVE f[j] = node'[n].value
    <3>1. StoredAt(n, j) /\ n # c
      BY <1>15, <2>3
    <3>2. j # k
      BY <1>2, <3>1, StoredFacts DEF IInv
    <3>3. Table[j] = node[n].value /\ n \in DOMAIN node
      BY <3>1, TableIs DEF IInv, StoredAt
    <3> QED
      BY <1>5, <2>2, <3>2, <3>3
  <2>4. ASSUME NEW j \in Keys, Absent(j)' PROVE f[j] = NoValue
    <3>1. CASE j = k
      BY <2>2, <3>1
    <3>2. CASE j # k
      <4>1. \A n : ~StoredAt(n, j)
        BY <1>1, <1>15, <2>4, <3>2 DEF Absent, StoredAt
      <4>2. Table[j] = NoValue
        BY <4>1, TableIs DEF IInv, Absent
      <4> QED
        BY <2>2, <3>2, <4>2
    <3> QED
      BY <3>1, <3>2
  <2> QED
    BY <1>17, <2>2, <2>3, <2>4, TableChange DEF f
<1> QED
  BY <1>0, <1>17, <1>18, <1>19

\* The marked node is taken out of its list.
LEMMA UnlinkRight ==
  ASSUME IInv, NEW t \in Threads, Unlink(t)
  PROVE  IInv' /\ Table' = Table
<1>0. PICK p, c, k, s : p = pred[t] /\ c = curr[t] /\ k = key(t) /\ s = node[c].next
  OBVIOUS
<1>1. /\ pc[t] = "unlink" /\ node' = [node EXCEPT ![p].next = s]
      /\ pc' = [pc EXCEPT ![t] = "delete"]
      /\ UNCHANGED <<made, calls, op, pred, curr, result, seen>>
  BY <1>0 DEF Unlink, Goto
<1>2. /\ Running(t) /\ WalkOf(t) /\ LockOf(t) /\ RemoveOf(t) /\ CurrentOf(t)
      /\ op[t].name = "remove" /\ node[c].marked /\ node[c].key = k
      /\ node[p].next = c /\ node[p].lock = t /\ node[c].lock = t
      /\ \A u \in Threads \ {t} : ~Running(u)
  <2>1. Running(t) /\ WalkOf(t) /\ LockOf(t) /\ RemoveOf(t) /\ CurrentOf(t)
    BY <1>1 DEF Running, IInv, Walks, Locks, Removes, Current
  <2>2. c \in DOMAIN node
    BY <1>0, <1>1, <2>1, Standing
  <2> QED
    BY <1>0, <1>1, <2>1, <2>2 DEF LockOf, RemoveOf, Holding
<1>3. /\ p \in DOMAIN node /\ c \in DOMAIN node /\ k \in Keys /\ k \in Nat
      /\ List(p) = Bucket(k) /\ List(c) = Bucket(k) /\ node[p].key < k
      /\ node[p].key \in Nat /\ op[t] \in Ops
  <2>1. /\ p \in DOMAIN node /\ c \in DOMAIN node /\ k \in Keys
        /\ List(p) = Bucket(k) /\ List(c) = Bucket(k) /\ node[p].key < k
        /\ op[t] \in Ops
    BY <1>0, <1>1, <1>2, Standing
  <2> QED
    BY <2>1, NodeFacts, BucketType DEF IInv
<1>4. /\ pc'[t] = "delete"
      /\ \A u \in Threads : u # t => pc'[u] = pc[u] /\ pc[u] = "idle"
  BY <1>1, <1>2 DEF IInv, Types, Running
<1>5. Linked = DOMAIN node /\ Linked' = DOMAIN node' \ {c}
  BY <1>0, <1>1, <1>4 DEF Linked
<1>6. k > DefaultKey /\ k < MaxKey /\ MaxKey \in Nat /\ DefaultKey \in Nat
  BY <1>3, BucketType, KeysAssumption
<1>7. /\ s \in DOMAIN node /\ List(s) = Bucket(k) /\ k < node[s].key
      /\ s # c /\ s # p /\ c # p /\ node[s].key \in Nat
  <2>1. s \in DOMAIN node /\ List(s) = Bucket(k) /\ k < node[s].key
    BY <1>0, <1>2, <1>3, <1>5, <1>6, LinkFacts DEF IInv
  <2>2. node[s].key \in Nat
    BY <2>1, NodeFacts DEF IInv
  <2> QED
    BY <1>2, <1>3, <2>1, <2>2
<1>8. /\ DOMAIN node' = DOMAIN node /\ node'[p].next = s
      /\ \A m \in DOMAIN node :
           /\ node'[m] \in Records /\ node'[m].key = node[m].key
           /\ node'[m].value = node[m].value /\ node'[m].marked = node[m].marked
           /\ node'[m].lock = node[m].lock
           /\ m # p => node'[m].next = node[m].next
  <2>1. s \in Nat
    BY <1>7, NodeFacts DEF IInv
  <2> QED
    BY <1>1, <1>3, <2>1 DEF IInv, Types, Records
<1>9. \A m \in DOMAIN node : List(m)' = List(m)
  BY <1>8 DEF List
<1>10. \A m \in Linked :
         /\ node[m].next \in DOMAIN node /\ List(node[m].next) = List(m)
         /\ m \in Nat /\ node[m].key \in Nat /\ node[node[m].next].key \in Nat
  BY LinkFacts, NodeFacts DEF IInv, Linked
<1>11. ASSUME NEW m \in Linked, NEW j \in Linked, List(m) = List(j)
       PROVE  /\ node[m].key < node[j].key => node[node[m].next].key <= node[j].key
              /\ node[m].key = node[j].key => m = j
  BY <1>11 DEF IInv, Sorted
<1>12. Ends'
  <2>1. \A m \in DOMAIN node' : m >= 2 * Len =>
          node'[m].key \in Keys /\ node'[m].value \in Values
    BY <1>8 DEF IInv, Ends
  <2>2. 0..(2 * Len - 1) \subseteq Linked'
    <3>1. c >= 2 * Len /\ c \in Nat /\ Len \in Nat
      BY <1>2, <1>3, <1>6, NodeFacts, KeysAssumption DEF IInv
    <3>2. 0..(2 * Len - 1) \subseteq DOMAIN node
      BY <1>5 DEF IInv, Ends
    <3> QED
      BY <1>5, <1>8, <3>1, <3>2
  <2>3. ASSUME NEW i \in Buckets
        PROVE  /\ node'[head(i)].key = DefaultKey /\ node'[tail(i)].key = MaxKey
               /\ node'[tail(i)].next = tail(i)
    <3>1. /\ head(i) \in DOMAIN node /\ tail(i) \in DOMAIN node
          /\ node[head(i)].key = DefaultKey /\ node[tail(i)].key = MaxKey
          /\ node[tail(i)].next = tail(i)
      BY EndFacts DEF IInv, Linked, Ends
    <3>2. tail(i) # p
      BY <1>3, <1>6, <3>1
    <3> QED
      BY <1>8, <3>1, <3>2
  <2> QED
    BY <2>1, <2>2, <2>3 DEF Ends
<1>13. ASSUME NEW m \in DOMAIN node, m # p PROVE node[m].next # c \/ m = c
  <2> SUFFICES ASSUME node[m].next = c, m # c PROVE FALSE
    OBVIOUS
  <2>1. List(m) = Bucket(k) /\ node[m].key < k
    <3>1. List(m) = Bucket(k)
      BY <1>3, <1>5, <1>10
    <3>2. node[m].key < MaxKey
      <4>1. m \in Nat /\ (m >= Len /\ m < 2 * Len => node[m].next = m)
        BY NodeFacts DEF IInv
      <4>2. ~(m >= Len /\ m < 2 * Len)
        BY <4>1
      <4>3. node[m].key < node[node[m].next].key
        BY <4>2 DEF IInv, Sorted
      <4> QED
        BY <1>2, <1>3, <1>5, <1>6, <1>10, <4>3
    <3> QED
      BY <1>2, <3>1, <3>2, LinkFacts DEF IInv
  <2>2. node[m].key < node[p].key => k <= node[p].key
    BY <1>2, <1>3, <1>5, <1>11, <2>1
  <2>3. node[p].key < node[m].key => k <= node[m].key
    BY <1>2, <1>3, <1>5, <1>11, <2>1
  <2>4. node[m].key # node[p].key
    BY <1>3, <1>5, <1>11, <1>13, <2>1
  <2> QED
    BY <1>3, <1>5, <1>10, <2>1, <2>2, <2>3, <2>4
<1>14. ASSUME NEW m \in DOMAIN node', ~(m >= Len /\ m < 2 * Len)
       PROVE  /\ node'[m].next \in Linked'
              /\ List(node[m].next)' = List(m)'
              /\ node'[m].key < node'[node'[m].next].key
  <2>1. PICK j \in DOMAIN node : j = node[m].next
    BY <1>5, <1>8, <1>10
  <2>2. List(j) = List(m) /\ node[m].key < node[j].key
    BY <1>8, <1>14, <2>1 DEF IInv, Sorted
  <2>3. CASE m = p
    <3>1. List(node[m].next)' = List(s)'
      BY <1>8, <2>3 DEF List
    <3> QED
      BY <1>3, <1>5, <1>7, <1>8, <1>9, <2>3, <3>1
  <2>4. CASE m # p
    <3>1. node'[m].next = j /\ j # c
      BY <1>2, <1>8, <1>13, <2>1, <2>2, <2>4, <1>3
    <3>2. List(node[m].next)' = List(j)'
      BY <3>1 DEF List
    <3> QED
      BY <1>5, <1>8, <1>9, <2>2, <3>1, <3>2
  <2> QED
    BY <2>3, <2>4
<1>15. ASSUME NEW m \in Linked', NEW j \in Linked', List(m)' = List(j)'
       PROVE  /\ node'[m].key < node'[j].key =>
                    node'[node'[m].next].key <= node'[j].key
              /\ node'[m].key = node'[j].key => m = j
  <2>1. m \in Linked /\ j \in Linked /\ List(m) = List(j) /\ j # c
    BY <1>5, <1>8, <1>9, <1>15
  <2>2. /\ node[m].key < node[j].key => node[node[m].next].key <= node[j].key
        /\ node[m].key = node[j].key => m = j
    BY <1>11, <2>1
  <2>3. CASE m # p
    BY <1>5, <1>8, <1>10, <2>1, <2>2, <2>3
  <2>4. CASE m = p
    <3>1. node[p].key < node[j].key => node[s].key <= node[j].key
      <4> SUFFICES ASSUME node[p].key < node[j].key PROVE node[s].key <= node[j].key
        OBVIOUS
      <4>1. k <= node[j].key /\ List(j) = Bucket(k) /\ node[j].key \in Nat
        BY <1>2, <1>3, <1>10, <2>1, <2>2, <2>4
      <4>2. k # node[j].key
        BY <1>2, <1>3, <1>5, <1>11, <2>1, <4>1
      <4>3. k < node[j].key
        BY <1>3, <4>1, <4>2
      <4> QED
        BY <1>0, <1>2, <1>3, <1>5, <1>11, <2>1, <4>1, <4>3
    <3> QED
      BY <1>3, <1>5, <1>7, <1>8, <2>1, <2>2, <2>4, <3>1
  <2> QED
    BY <2>3, <2>4
<1>16. Sorted'
  BY <1>14, <1>15 DEF Sorted
<1>17. Types'
  <2>1. pc' \in [Threads -> Places]
    BY <1>1 DEF IInv, Types, Places, Holding
  <2> QED
    BY <1>1, <1>8, <2>1 DEF IInv, Types
<1>18. OthersKept(t)
  BY <1>1, <1>4 DEF OthersKept
<1>19. \A n \in DOMAIN node' : node'[n].marked =>
         pc'[t] \in {"unlink", "delete"} /\ curr'[t] = n
  <2>1. \A n \in DOMAIN node : node[n].marked => n = c
    BY <1>0, <1>4 DEF IInv, Removes
  <2> QED
    BY <1>0, <1>1, <1>4, <1>8, <2>1
<1>20. RemoveOf(t)'
  <2>1. \A u \in Threads : u # t => ~Running(u)'
    BY <1>4 DEF Running
  <2> QED
    BY <1>0, <1>1, <1>2, <1>3, <1>4, <1>7, <1>8, <2>1 DEF RemoveOf, key
<1>21. WalkOf(t)'
  <2>1. List(p)' = List(p) /\ List(c)' = List(c)
    BY <1>3, <1>9
  <2>2. List(p)' = List(pred[t])' /\ List(c)' = List(curr[t])'
    BY <1>0, <1>1 DEF List
  <2>3. pred'[t] \in Linked' /\ curr'[t] \in DOMAIN node'
    BY <1>0, <1>1, <1>3, <1>5, <1>7, <1>8
  <2>4. key(t)' = k /\ node'[p].key = node[p].key /\ node'[c].key = k /\ Writes(t)'
    BY <1>0, <1>1, <1>2, <1>3, <1>8 DEF key, Writes
  <2>5. pred'[t] = p /\ curr'[t] = c /\ op'[t] \in Ops
    BY <1>0, <1>1, <1>3
  <2>6. List(pred[t])' = Bucket(key(t)') /\ List(curr[t])' = Bucket(key(t)')
    BY <1>3, <2>1, <2>2, <2>4
  <2>7. node'[pred'[t]].key < key(t)' /\ node'[curr'[t]].key >= key(t)'
    BY <1>3, <2>4, <2>5
  <2> QED
    BY <1>4, <2>3, <2>4, <2>5, <2>6, <2>7 DEF WalkOf, Running, Holding
<1>22. LockOf(t)'
  BY <1>0, <1>1, <1>2, <1>3, <1>4, <1>8 DEF LockOf
<1>23. \A n, j : StoredAt(n, j)' <=> StoredAt(n, j)
  BY <1>8 DEF StoredAt
<1>24. CurrentOf(t)'
  <2>1. key(t)' = k /\ seen'[t] = seen[t] /\ result'[t] = result[t]
    BY <1>0, <1>1 DEF key
  <2>2. ASSUME NEW n, StoredAt(n, key(t))' PROVE node'[n].value \in seen'[t]
    <3>1. StoredAt(n, k)'
      BY <2>1, <2>2 DEF StoredAt
    <3>2. StoredAt(n, k) /\ n \in DOMAIN node
      BY <1>23, <3>1 DEF StoredAt
    <3> QED
      BY <1>0, <1>2, <1>8, <2>1, <3>2 DEF CurrentOf
  <2>3. Absent(key(t))' => NoValue \in seen'[t]
    <3>1. Absent(key(t))' => Absent(k)
      BY <1>23, <2>1 DEF Absent, StoredAt
    <3> QED
      BY <1>0, <1>2, <2>1, <3>1 DEF CurrentOf
  <2>4. result'[t] \in seen'[t]
    BY <1>1, <1>2, <2>1 DEF CurrentOf
  <2> QED
    BY <1>4, <2>2, <2>3, <2>4 DEF CurrentOf
<1>25. IInv'
  BY <1>2, <1>12, <1>16, <1>17, <1>18, <1>19, <1>20, <1>21, <1>22, <1>24, AloneStep
<1>26. \A n, j : StoredAt(n, j) => node'[n].value = node[n].value
  BY <1>8 DEF StoredAt
<1> QED
  BY <1>23, <1>25, <1>26, TableKept

\* The node is deleted.
LEMMA DeleteRight ==
  ASSUME IInv, NEW t \in Threads, Delete(t)
  PROVE  IInv' /\ Table' = Table
<1>0. PICK p, c, k : p = pred[t] /\ c = curr[t] /\ k = key(t)
  OBVIOUS
<1>1. /\ pc[t] = "delete" /\ node' = Restrict(node, DOMAIN node \ {c})
      /\ pc' = [pc EXCEPT ![t] = "unlock"]
      /\ UNCHANGED <<made, calls, op, pred, curr, result, seen>>
  BY <1>0 DEF Delete, Goto
<1>2. /\ Running(t) /\ WalkOf(t) /\ LockOf(t) /\ RemoveOf(t) /\ CurrentOf(t)
      /\ op[t].name = "remove" /\ node[c].marked
      /\ node[p].lock = t /\ op[t] \in Ops /\ Writes(t)
      /\ \A u \in Threads \ {t} : ~Running(u)
  <2>1. Running(t) /\ WalkOf(t) /\ LockOf(t) /\ RemoveOf(t) /\ CurrentOf(t)
    BY <1>1 DEF Running, IInv, Walks, Locks, Removes, Current
  <2> QED
    BY <1>0, <1>1, <2>1 DEF LockOf, RemoveOf, WalkOf, Holding
<1>3. /\ pc'[t] = "unlock"
      /\ \A u \in Threads : u # t => pc'[u] = pc[u] /\ pc[u] = "idle"
  BY <1>1, <1>2 DEF IInv, Types, Running
<1>4. /\ DOMAIN node' = DOMAIN node \ {c}
      /\ \A m \in DOMAIN node' : m \in DOMAIN node /\ node'[m] = node[m]
  BY <1>1 DEF Restrict
<1>5. Linked = DOMAIN node \ {c} /\ Linked' = Linked
  BY <1>0, <1>1, <1>3, <1>4 DEF Linked
<1>6. \A m \in Linked : List(m)' = List(m)
  BY <1>4, <1>5 DEF List
<1>7. Ends'
  <2>1. \A i \in Buckets : head(i) \in Linked /\ tail(i) \in Linked
    BY EndFacts DEF IInv
  <2>2. \A i \in Buckets :
          /\ node'[head(i)].key = DefaultKey /\ node'[tail(i)].key = MaxKey
          /\ node'[tail(i)].next = tail(i)
    BY <1>4, <1>5, <2>1 DEF IInv, Ends
  <2>3. \A n \in DOMAIN node' : n >= 2 * Len =>
          node'[n].key \in Keys /\ node'[n].value \in Values
    BY <1>4 DEF IInv, Ends
  <2>4. 0..(2 * Len - 1) \subseteq Linked'
    BY <1>5 DEF IInv, Ends
  <2> QED
    BY <2>2, <2>3, <2>4 DEF Ends
<1>8. ASSUME NEW m \in DOMAIN node', ~(m >= Len /\ m < 2 * Len)
      PROVE  /\ node'[m].next \in Linked'
             /\ List(node[m].next)' = List(m)'
             /\ node'[m].key < node'[node'[m].next].key
  <2>1. PICK j \in Linked : j = node[m].next
    BY <1>4, <1>8 DEF IInv, Sorted
  <2>2. List(j) = List(m) /\ node[m].key < node[j].key
    BY <1>4, <1>8, <2>1 DEF IInv, Sorted
  <2>3. node'[m].next = j /\ List(node[m].next)' = List(j)'
    BY <1>4, <2>1 DEF List
  <2> QED
    BY <1>4, <1>5, <1>6, <2>1, <2>2, <2>3
<1>9. ASSUME NEW m \in Linked', NEW j \in Linked', List(m)' = List(j)'
      PROVE  /\ node'[m].key < node'[j].key =>
                   node'[node'[m].next].key <= node'[j].key
             /\ node'[m].key = node'[j].key => m = j
  <2>1. m \in Linked /\ j \in Linked /\ List(m) = List(j)
    BY <1>5, <1>6, <1>9
  <2>2. /\ node[m].key < node[j].key => node[node[m].next].key <= node[j].key
        /\ node[m].key = node[j].key => m = j
    BY <2>1 DEF IInv, Sorted
  <2>3. node[m].next \in Linked /\ m \in DOMAIN node
    BY <1>5, <2>1, LinkFacts DEF IInv
  <2> QED
    BY <1>4, <1>5, <2>1, <2>2, <2>3
<1>10. Sorted'
  BY <1>8, <1>9 DEF Sorted
<1>11. Types'
  <2>1. pc' \in [Threads -> Places]
    BY <1>1 DEF IInv, Types, Places, Holding
  <2> QED
    BY <1>1, <1>4, <2>1 DEF IInv, Types
<1>12. OthersKept(t)
  BY <1>1, <1>3 DEF OthersKept
<1>13. \A n \in DOMAIN node : node[n].marked => n = c
  BY <1>0, <1>3 DEF IInv, Removes
<1>14. \A n \in DOMAIN node' : ~node'[n].marked
  BY <1>4, <1>13
<1>15. RemoveOf(t)'
  <2>1. \A u \in Threads : u # t => ~Running(u)'
    BY <1>3 DEF Running
  <2> QED
    BY <1>3, <2>1 DEF RemoveOf
<1>16. p \in Linked /\ k \in Nat /\ k \in Keys
  BY <1>0, <1>2, Standing, BucketType
<1>17. WalkOf(t)'
  <2>1. List(p)' = List(p) /\ List(p) = Bucket(k) /\ node[p].key < k
    BY <1>0, <1>2, <1>6, <1>16, Standing
  <2>2. List(p)' = List(pred[t])'
    BY <1>0, <1>1 DEF List
  <2>3. pred'[t] = p /\ curr'[t] = c /\ op'[t] = op[t]
    BY <1>0, <1>1
  <2>4. key(t)' = k /\ node'[p].key = node[p].key /\ Writes(t)'
    BY <1>0, <1>1, <1>2, <1>4, <1>5, <1>16 DEF key, Writes
  <2>5. c \notin DOMAIN node' /\ pred'[t] \in Linked'
    BY <1>4, <1>5, <1>16, <2>3
  <2> QED
    BY <1>2, <1>3, <2>1, <2>2, <2>3, <2>4, <2>5 DEF WalkOf, Running, Holding
<1>18. LockOf(t)'
  BY <1>0, <1>1, <1>2, <1>3, <1>4, <1>5, <1>16 DEF LockOf
<1>19. \A n, j : StoredAt(n, j)' <=> StoredAt(n, j)
  BY <1>2, <1>4 DEF StoredAt
<1>20. \A n, j : StoredAt(n, j) => node'[n].value = node[n].value
  BY <1>2, <1>4 DEF StoredAt
<1>21. CurrentOf(t)'
  <2>1. key(t)' = k /\ seen'[t] = seen[t] /\ result'[t] = result[t]
    BY <1>0, <1>1 DEF key
  <2>2. ASSUME NEW n, StoredAt(n, key(t))' PROVE node'[n].value \in seen'[t]
    <3>1. StoredAt(n, k)'
      BY <2>1, <2>2 DEF StoredAt
    <3>2. StoredAt(n, k)
      BY <1>19, <3>1
    <3> QED
      BY <1>0, <1>2, <1>20, <2>1, <3>2 DEF CurrentOf
  <2>3. Absent(key(t))' => NoValue \in seen'[t]
    <3>1. Absent(key(t))' => Absent(k)
      BY <1>19, <2>1 DEF Absent, StoredAt
    <3> QED
      BY <1>0, <1>2, <2>1, <3>1 DEF CurrentOf
  <2>4. result'[t] \in seen'[t]
    BY <1>1, <1>2, <2>1 DEF CurrentOf
  <2> QED
    BY <1>3, <2>2, <2>3, <2>4 DEF CurrentOf
<1>22. IInv'
  BY <1>2, <1>7, <1>10, <1>11, <1>12, <1>14, <1>15, <1>17, <1>18, <1>21, AloneStep
<1> QED
  BY <1>19, <1>20, <1>22, TableKept

-----------------------------------------------------------------------------
(* The theorems.                                                           *)

\* The lists begin empty.
LEMMA InitRight == Init => IInv /\ Table = [k \in Keys |-> NoValue]
<1> SUFFICES ASSUME Init PROVE IInv /\ Table = [k \in Keys |-> NoValue]
  OBVIOUS
<1>1. Len \in Nat /\ Len > 0 /\ DefaultKey \in Nat /\ MaxKey \in Nat /\ DefaultKey < MaxKey
  BY KeysAssumption
<1>2. /\ DOMAIN node = 0..(2 * Len - 1)
      /\ \A n \in 0..(2 * Len - 1) :
           node[n] = IF n < Len THEN Node(DefaultKey, NoValue, Len + n)
                     ELSE Node(MaxKey, NoValue, n)
  BY DEF Init, tail
<1>3. \A n \in 0..(2 * Len - 1) :
        /\ node[n].key = (IF n < Len THEN DefaultKey ELSE MaxKey)
        /\ node[n].next = (IF n < Len THEN Len + n ELSE n)
        /\ ~node[n].marked /\ node[n] \in Records
  <2> SUFFICES ASSUME NEW n \in 0..(2 * Len - 1)
               PROVE  /\ node[n].key = (IF n < Len THEN DefaultKey ELSE MaxKey)
                      /\ node[n].next = (IF n < Len THEN Len + n ELSE n)
                      /\ ~node[n].marked /\ node[n] \in Records
    OBVIOUS
  <2>1. \A k, next \in Nat : /\ Node(k, NoValue, next) \in Records
                            /\ Node(k, NoValue, next).key = k
                            /\ Node(k, NoValue, next).next = next
                            /\ ~Node(k, NoValue, next).marked
    BY DEF Node, Records, Results
  <2>2. CASE n < Len
    BY <1>1, <1>2, <2>1, <2>2
  <2>3. CASE ~(n < Len)
    BY <1>1, <1>2, <2>1, <2>3
  <2> QED
    BY <2>2, <2>3
<1>4. \A n \in 0..(2 * Len - 1) : List(n) = IF n < Len THEN n ELSE n - Len
  BY <1>1 DEF List
<1>5. Linked = 0..(2 * Len - 1)
  BY <1>2 DEF Linked, Init
<1>6. Types
  BY <1>1, <1>2, <1>3 DEF Init, Types, Places, Results
<1>7. Ends
  BY <1>1, <1>2, <1>3, <1>5 DEF Ends, head, tail, Buckets
<1>8. Sorted
  <2>1. ASSUME NEW n \in DOMAIN node, ~(n >= Len /\ n < 2 * Len)
        PROVE  /\ node[n].next \in Linked /\ List(node[n].next) = List(n)
               /\ node[n].key < node[node[n].next].key
    <3>1. n < Len /\ n \in 0..(2 * Len - 1) /\ Len + n \in 0..(2 * Len - 1)
      BY <1>1, <1>2, <2>1
    <3>2. node[n].next = Len + n /\ ~(Len + n < Len)
      BY <1>1, <1>3, <3>1
    <3>3. List(n) = n /\ List(Len + n) = n
      BY <1>1, <1>4, <3>1, <3>2
    <3>4. node[n].key = DefaultKey /\ node[Len + n].key = MaxKey
      BY <1>3, <3>1, <3>2
    <3> QED
      BY <1>1, <1>5, <3>1, <3>2, <3>3, <3>4
  <2>2. ASSUME NEW n \in Linked, NEW m \in Linked, List(n) = List(m)
        PROVE  /\ node[n].key < node[m].key =>
                    node[node[n].next].key <= node[m].key
               /\ node[n].key = node[m].key => n = m
    <3>1. n \in 0..(2 * Len - 1) /\ m \in 0..(2 * Len - 1)
      BY <1>5
    <3>2. n < Len <=> m < Len => n = m
      BY <1>1, <1>4, <2>2, <3>1
    <3>3. node[n].key < node[m].key => n < Len /\ ~(m < Len)
      BY <1>1, <1>3, <3>1
    <3>4. node[n].key = node[m].key => (n < Len <=> m < Len)
      BY <1>1, <1>3, <3>1
    <3>5. n < Len /\ ~(m < Len) => node[n].next = m
      BY <1>1, <1>3, <1>4, <2>2, <3>1
    <3>6. node[m].key \in Nat
      BY <1>1, <1>3, <3>1
    <3> QED
      BY <3>2, <3>3, <3>4, <3>5, <3>6
  <2> QED
    BY <2>1, <2>2 DEF Sorted
<1>9. Removes
  BY <1>2, <1>3 DEF Removes, RemoveOf, Init, Running
<1>10. Walks /\ Locks /\ Current
  <2>1. 0 \in Linked
    BY <1>1, <1>5
  <2>2. ASSUME NEW t \in Threads PROVE WalkOf(t) /\ LockOf(t) /\ CurrentOf(t)
    BY <2>1 DEF Init, WalkOf, LockOf, CurrentOf, Running, Holding
  <2> QED
    BY <2>2 DEF Walks, Locks, Current
<1>11. IInv
  BY <1>6, <1>7, <1>8, <1>9, <1>10 DEF IInv
<1>12. \A k \in Keys : Table[k] = NoValue
  <2>1. \A k : Absent(k)
    BY <1>1, <1>2 DEF Absent, StoredAt
  <2> QED
    BY <1>11, <2>1, TableIs DEF IInv
<1> QED
  BY <1>11, <1>12 DEF Table

\* A step is one of the table's or leaves it alone.
LEMMA StepRight ==
  ASSUME IInv, [Next]_vars
  PROVE  IInv' /\ [Abstract!Next]_Table
<1>1. CASE UNCHANGED vars
  <2>1. Types' /\ Ends' /\ Sorted' /\ Removes' /\ Walks' /\ Locks' /\ Current'
    BY <1>1 DEF vars, IInv, Types, Ends, Sorted, Removes, Walks, Locks, Current,
                RemoveOf, WalkOf, LockOf, CurrentOf, Linked, List, Running, key,
                Writes, StoredAt, Absent
  <2>2. IInv'
    BY <2>1 DEF IInv
  <2>3. Table' = Table
    BY <1>1, <2>2, TableKept DEF vars, StoredAt
  <2> QED
    BY <2>2, <2>3
<1>2. CASE Next
  <2>1. PICK t \in Threads : Call(t) \/ CallStep(t)
    BY <1>2 DEF Next
  <2>2. CASE Overwrite(t) \/ Insert(t)
    <3>1. key(t) \in Keys /\ op[t].value \in Values
      <4>1. pc[t] = "valid" /\ op[t].name = "add"
        BY <2>2 DEF Overwrite, Insert, Valid
      <4> QED
        BY <4>1, ValidFacts, OpsType
    <3>2. IInv' /\ Table' = [Table EXCEPT ![key(t)] = op[t].value]
      BY <2>2, OverwriteRight, InsertRight
    <3> QED
      BY <3>1, <3>2 DEF Abstract!Next, Abstract!Add
  <2>3. CASE Mark(t)
    <3>1. key(t) \in Keys
      BY <2>3, ValidFacts DEF Mark, Valid
    <3>2. IInv' /\ Table[key(t)] # NoValue
          /\ Table' = [Table EXCEPT ![key(t)] = NoValue]
      BY <2>3, MarkRight
    <3> QED
      BY <3>1, <3>2 DEF Abstract!Next, Abstract!Remove
  <2>4. CASE Call(t) \/ Walk(t) \/ Read(t) \/ LockPred(t) \/ LockCurr(t)
    BY <2>4, CallRight, WalkRight, ReadRight, LockPredRight, LockCurrRight
  <2>5. CASE Retry(t) \/ Validated(t) \/ WalkAgain(t) \/ RemoveNothing(t)
    BY <2>5, RetryRight, ValidatedRight, WalkAgainRight, RemoveNothingRight
  <2>6. CASE Unlink(t) \/ Delete(t) \/ Unlock(t) \/ Return(t)
    BY <2>6, UnlinkRight, DeleteRight, UnlockRight, ReturnRight
  <2> QED
    BY <2>1, <2>2, <2>3, <2>4, <2>5, <2>6 DEF CallStep
<1> QED
  BY <1>1, <1>2

LEMMA Invariant == Spec => []IInv
<1>1. Init => IInv
  BY InitRight
<1>2. IInv /\ [Next]_vars => IInv'
  BY StepRight
<1> QED
  BY <1>1, <1>2, PTL DEF Spec

\* All threads together add to and remove from one table (LazyList.h:128
\* remove, 169 add): whatever locks and walks without locks interleave, an
\* add and a remove take effect at one step.
THEOREM Implementation == Spec => Implements
<1>1. Init => Abstract!Init
  BY InitRight DEF Abstract!Init
<1>2. IInv /\ [Next]_vars => [Abstract!Next]_Table
  BY StepRight
<1> QED
  BY <1>1, <1>2, Invariant, PTL DEF Spec, Implements, Abstract!Spec

\* Readers without locks follow sound lists to a result that was true during
\* the call (LazyList.h:158 contains, 195 get).
THEOREM SafeReaders == Spec => []ReadersSafe
<1>1. IInv => ListsSound
  <2> SUFFICES ASSUME IInv PROVE ListsSound
    OBVIOUS
  <2>1. \A n \in DOMAIN node : node[n].next \in DOMAIN node
    <3> SUFFICES ASSUME NEW n \in DOMAIN node PROVE node[n].next \in DOMAIN node
      OBVIOUS
    <3>1. CASE n >= Len /\ n < 2 * Len
      BY <3>1, NodeFacts DEF IInv
    <3>2. CASE ~(n >= Len /\ n < 2 * Len)
      BY <3>2 DEF IInv, Sorted, Linked
    <3> QED
      BY <3>1, <3>2
  <2>2. \A n \in DOMAIN node \ {tail(i) : i \in Buckets} :
          node[n].key < node[node[n].next].key
    <3> SUFFICES ASSUME NEW n \in DOMAIN node, n \notin {tail(i) : i \in Buckets}
                 PROVE  node[n].key < node[node[n].next].key
      OBVIOUS
    <3>1. ~(n >= Len /\ n < 2 * Len)
      <4> SUFFICES ASSUME n >= Len, n < 2 * Len PROVE FALSE
        OBVIOUS
      <4>1. n - Len \in Buckets /\ tail(n - Len) = n
        BY NodeFacts, KeysAssumption DEF IInv, Buckets, tail
      <4> QED
        BY <4>1
    <3> QED
      BY <3>1 DEF IInv, Sorted
  <2>3. ASSUME NEW t \in Threads, {pred[t], curr[t]} \ DOMAIN node # {}
        PROVE  op[t].name = "remove" /\ pc[t] \in {"unlock", "return"}
    BY <2>3 DEF IInv, Walks, WalkOf, Linked
  <2> QED
    BY <2>1, <2>2, <2>3 DEF ListsSound
<1>2. IInv => ResultsAreCurrent
  BY DEF IInv, Current, CurrentOf, Running, ResultsAreCurrent
<1> QED
  BY <1>1, <1>2, Invariant, PTL DEF ReadersSafe
=============================================================================
