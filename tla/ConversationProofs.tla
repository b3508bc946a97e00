-------------------------- MODULE ConversationProofs --------------------------
(***************************************************************************)
(* Proofs about Conversation.tla: whatever is sent and however it is cut,  *)
(* an entry stays within its memory, and what is stored was sent.          *)
(***************************************************************************)
EXTENDS Conversation, WellFoundedInduction, TLAPS

Lines == {Line(r) : r \in Requests}
Elements == Bytes \cup {CRLF} \cup Lines

Entries == [key : Keys \cup {None}, keyLen : Nat, value : Seq(Elements),
            free : Nat, capacity : Nat]

\* An entry that is large enough.
Fits(e) == KeyLen <= Total(e) /\ Total(e) <= e.capacity

\* EntryFits with what it rests on: the streams hold lines, whose keys are
\* keys and whose lengths are numbers.
IInv ==
  /\ open \subseteq Clients
  /\ busy \in Clients \cup {None}
  /\ net \in [Clients -> Seq(Elements)]
  /\ inbuf \in [Clients -> Seq(Elements)]
  /\ state \in [Clients -> {"kNewCommand", "kReceiveValue"}]
  /\ entry \in [Clients -> Entries]
  /\ \A c \in Clients : Fits(entry[c])
  /\ \A c \in Clients : state[c] = "kReceiveValue" =>
       entry[c].key \in Keys /\ entry[c].value = <<>>
  /\ busy # None => busy \in open

-----------------------------------------------------------------------------

\* A set of numbers that is not empty has a least element.
LEMMA Least ==
  ASSUME NEW S \in SUBSET Nat, S # {}
  PROVE  \E x \in S : \A y \in S : ~(y < x)
<1> DEFINE R == OpToRel(<, Nat)
<1>1. IsWellFoundedOn(R, Nat)
  BY NatLessThanWellFounded
<1>2. \A y, x \in Nat : y < x => <<y, x>> \in R
  BY DEF OpToRel
<1> HIDE DEF R
<1>3. PICK x \in S : \A y \in S : ~(<<y, x>> \in R)
  BY <1>1, WFMin, Zenon
<1> QED
  BY <1>2, <1>3

\* findCRLF finds the end of a line if there is one.
LEMMA EndOfLineType ==
  ASSUME NEW s \in Seq(Elements), HasLine(s)
  PROVE  EndOfLine(s) \in DOMAIN s
<1> DEFINE S == {i \in DOMAIN s : s[i] \notin Bytes}
<1>1. S \in SUBSET Nat /\ S # {}
  BY DEF HasLine
<1>2. PICK i \in S : \A j \in S : ~(j < i)
  BY <1>1, Least, Zenon
<1>3. i \in DOMAIN s /\ s[i] \notin Bytes /\ \A j \in 1..(i - 1) : s[j] \in Bytes
  <2> SUFFICES ASSUME NEW j \in 1..(i - 1), s[j] \notin Bytes PROVE FALSE
    BY <1>2
  <2>1. j \in DOMAIN s /\ j < i
    BY <1>2
  <2> QED
    BY <1>2, <2>1
<1> QED
  BY <1>3 DEF EndOfLine

\* What a client sends is a stream.
LEMMA EncodedType ==
  ASSUME NEW r \in Requests
  PROVE  Encoded(r) \in Seq(Elements)
<1>1. Line(r) \in Elements /\ CRLF \in Elements /\ Bytes \subseteq Elements
  BY DEF Elements, Lines
<1>2. r.value = <<>> \/ r.value \in Seq(Bytes)
  BY ValuesAssumption DEF Requests
<1>3. <<Line(r)>> \in Seq(Elements)
  BY <1>1
<1>4. CASE r.value = <<>>
  BY <1>3, <1>4 DEF Encoded
<1>5. CASE r.value # <<>>
  <2>1. r.value \in Seq(Elements)
    BY <1>1, <1>2, <1>5
  <2>2. Append(r.value, CRLF) \in Seq(Elements)
    BY <1>1, <2>1
  <2> HIDE DEF Elements
  <2>3. <<Line(r)>> \o Append(r.value, CRLF) \in Seq(Elements)
    BY <1>3, <2>2
  <2> QED
    BY <1>5, <2>3 DEF Encoded
<1> QED
  BY <1>4, <1>5

\* A command at the front of a stream is one that a client sent.
LEMMA CommandType ==
  ASSUME NEW x \in Elements, x \notin Bytes \cup {CRLF},
         x.cmd \in {"get", "set"}
  PROVE  x.key \in Keys /\ x.len \in Nat
<1>1. PICK r \in Requests : x = Line(r)
  BY DEF Elements, Lines
<1>2. x.cmd = r.cmd /\ x.key = r.key /\ x.len = Len(r.value)
  BY <1>1 DEF Line
<1>3. r.key \in Keys /\ (r.value = <<>> \/ r.value \in Seq(Bytes))
  BY <1>2, ValuesAssumption DEF Requests
<1>4. Len(r.value) \in Nat
  BY <1>3
<1> QED
  BY <1>2, <1>3, <1>4

\* The total of an entry's lengths is a number.
LEMMA TotalType == \A e \in Entries : Total(e) \in Nat
  BY DEF Entries, Total

LEMMA NoValue == <<>> \in Seq(Elements)
  OBVIOUS

\* resetKey( key ) keeps the total, which has room for a key.
LEMMA ResetKeyFits ==
  ASSUME NEW e \in Entries, Fits(e), NEW k \in Keys
  PROVE  ResetKey(e, k) \in Entries /\ Fits(ResetKey(e, k))
<1> DEFINE f == Total(e) - KeyLen
           x == ResetKey(e, k)
<1>1. f \in Nat /\ KeyLen \in Nat /\ f + KeyLen = Total(e)
  BY TotalType, LengthsAssumption DEF Fits
<1>2. x = [e EXCEPT !.key = k, !.keyLen = KeyLen, !.value = <<>>, !.free = f]
  BY Zenon DEF ResetKey
<1> HIDE DEF f, x
<1>3. /\ x \in Entries /\ x.keyLen = KeyLen /\ x.value = <<>>
      /\ x.free = f /\ x.capacity = e.capacity
  BY <1>1, <1>2, NoValue DEF Entries
<1>4. Total(x) = Total(e)
  BY <1>1, <1>3 DEF Total
<1> QED
  BY <1>3, <1>4 DEF Fits, x

\* resetKey( key, valueLen ) makes room for both.
LEMMA ResetKeyForFits ==
  ASSUME NEW e \in Entries, Fits(e), NEW k \in Keys, NEW len \in Nat
  PROVE  /\ ResetKeyFor(e, k, len) \in Entries /\ Fits(ResetKeyFor(e, k, len))
         /\ ResetKeyFor(e, k, len).key = k
         /\ ResetKeyFor(e, k, len).value = <<>>
<1> DEFINE n == IF Total(e) < KeyLen + len THEN KeyLen + len ELSE e.capacity
           x == ResetKeyFor(e, k, len)
<1>1. /\ n \in Nat /\ KeyLen \in Nat /\ KeyLen + len <= n
  BY TotalType, LengthsAssumption DEF Fits, Entries
<1>2. x = [e EXCEPT !.key = k, !.keyLen = KeyLen, !.value = <<>>,
                    !.free = len, !.capacity = n]
  BY Zenon DEF ResetKeyFor
<1> HIDE DEF n, x
<1>3. /\ x \in Entries /\ x.key = k /\ x.keyLen = KeyLen /\ x.value = <<>>
      /\ x.free = len /\ x.capacity = n
  BY <1>1, <1>2, NoValue DEF Entries
<1>4. Total(x) = KeyLen + len
  BY <1>1, <1>3 DEF Total
<1> QED
  BY <1>1, <1>3, <1>4 DEF Fits, x

\* What receiveValue() appends is within what is free, and Reset() frees all.
LEMMA ReceivedFits ==
  ASSUME NEW e \in Entries, Fits(e), NEW s \in Seq(Elements), Len(s) <= e.free
  PROVE  ResetEntry(AppendTo(e, s)) \in Entries /\ Fits(ResetEntry(AppendTo(e, s)))
<1> DEFINE a == AppendTo(e, s)
           v == e.value \o s
           f == e.free - Len(s)
           x == ResetEntry(a)
           t == Total(a)
<1>1. /\ v \in Seq(Elements) /\ Len(v) = Len(e.value) + Len(s)
      /\ f \in Nat /\ f + Len(s) = e.free /\ Len(s) \in Nat
      /\ Len(e.value) \in Nat /\ e.keyLen \in Nat
  BY DEF Entries
<1>2. a = [e EXCEPT !.value = v, !.free = f]
  BY Zenon DEF AppendTo
<1>3. x = [a EXCEPT !.keyLen = 0, !.value = <<>>, !.free = t]
  BY Zenon DEF ResetEntry
<1> HIDE DEF v, f, a, x, t
<1>4. /\ a \in Entries /\ a.keyLen = e.keyLen /\ a.value = v
      /\ a.free = f /\ a.capacity = e.capacity
  BY <1>1, <1>2 DEF Entries
<1>5. t = Total(e) /\ t \in Nat
  <2>1. t = e.keyLen + Len(v) + f
    BY <1>4 DEF Total, t
  <2>2. t = Total(e)
    BY <1>1, <2>1 DEF Total
  <2> QED
    BY <2>2, TotalType
<1>6. /\ x \in Entries /\ x.keyLen = 0 /\ x.value = <<>>
      /\ x.free = t /\ x.capacity = e.capacity
  BY <1>3, <1>4, <1>5, NoValue DEF Entries
<1>7. Total(x) = t
  BY <1>5, <1>6 DEF Total
<1> QED
  BY <1>5, <1>6, <1>7 DEF Fits, x, a

\* A new conversation's entry.
LEMMA FirstFits == FirstEntry \in Entries /\ Fits(FirstEntry)
<1>1. FirstEntry \in Entries
  BY LengthsAssumption DEF FirstEntry, Entries
<1>2. Total(FirstEntry) = FirstKeyLen + FirstFree
  BY LengthsAssumption DEF Total, FirstEntry
<1> QED
  BY <1>1, <1>2, LengthsAssumption DEF Fits, FirstEntry

-----------------------------------------------------------------------------

\* A line is taken from the front of a buffer, and what it was is known.
LEMMA TakeLineType ==
  ASSUME IInv, NEW c \in Clients, TakeLine(c)
  PROVE  /\ inbuf' \in [Clients -> Seq(Elements)]
         /\ \A cmd \in {"get", "set"} : IsCommand(c, cmd) =>
              inbuf[c][1].key \in Keys /\ inbuf[c][1].len \in Nat
<1> DEFINE s == inbuf[c]
           n == EndOfLine(s)
           d == SubSeq(s, n + 1, Len(s))
<1>1. s \in Seq(Elements) /\ HasLine(s)
  BY DEF IInv, TakeLine
<1>2. n \in DOMAIN s
  BY <1>1, EndOfLineType
<1> HIDE DEF s, n
<1>3. d \in Seq(Elements)
  BY <1>1, <1>2
<1>4. inbuf' = [inbuf EXCEPT ![c] = d]
  BY DEF TakeLine, s, n
<1>5. s[1] \in Elements
  BY <1>1, <1>2
<1> HIDE DEF d
<1>6. inbuf' \in [Clients -> Seq(Elements)]
  BY <1>3, <1>4 DEF IInv
<1>7. ASSUME NEW cmd \in {"get", "set"}, IsCommand(c, cmd)
      PROVE  inbuf[c][1].key \in Keys /\ inbuf[c][1].len \in Nat
  <2>1. s[1] \notin Bytes \cup {CRLF} /\ s[1].cmd \in {"get", "set"}
    BY <1>7 DEF IsCommand, s
  <2>2. s[1].key \in Keys /\ s[1].len \in Nat
    BY <1>5, <2>1, CommandType, Zenon
  <2> QED
    BY <2>2 DEF s
<1> QED
  BY <1>6, <1>7

\* Every step keeps the invariant.
LEMMA StepFits == IInv /\ [Next]_vars => IInv'
<1> SUFFICES ASSUME IInv, [Next]_vars PROVE IInv'
  OBVIOUS
<1>1. ASSUME NEW c \in Clients, NEW r \in Requests, Send(c, r)
      PROVE  IInv'
  <2>1. net[c] \o Encoded(r) \in Seq(Elements)
    <3>1. net[c] \in Seq(Elements)
      BY DEF IInv
    <3>2. Encoded(r) \in Seq(Elements)
      BY EncodedType
    <3> QED
      BY <3>1, <3>2
  <2>2. net' \in [Clients -> Seq(Elements)]
    BY <1>1, <2>1 DEF Send, IInv
  <2> QED
    BY <1>1, <2>2 DEF Send, IInv, conversations, Fits, Total
<1>2. ASSUME NEW c \in Clients, NEW n \in 1..Len(net[c]), Arrive(c, n)
      PROVE  IInv'
  <2>0. net[c] \in Seq(Elements) /\ inbuf[c] \in Seq(Elements)
    BY DEF IInv
  <2>1. /\ SubSeq(net[c], 1, n) \in Seq(Elements)
        /\ SubSeq(net[c], n + 1, Len(net[c])) \in Seq(Elements)
    BY <2>0
  <2>2. inbuf[c] \o SubSeq(net[c], 1, n) \in Seq(Elements)
    BY <2>0, <2>1
  <2>3. /\ net' \in [Clients -> Seq(Elements)]
        /\ inbuf' \in [Clients -> Seq(Elements)]
    BY <1>2, <2>1, <2>2 DEF Arrive, IInv
  <2> QED
    BY <1>2, <2>3 DEF Arrive, IInv, conversations, Fits, Total
<1>3. ASSUME NEW c \in Clients, Finish(c)
      PROVE  IInv'
  <2>1. /\ entry' = [entry EXCEPT ![c] = FirstEntry]
        /\ state' = [state EXCEPT ![c] = "kNewCommand"]
    BY <1>3 DEF Finish
  <2>2. /\ entry' \in [Clients -> Entries]
        /\ \A d \in Clients : Fits(entry'[d])
    BY <2>1, FirstFits DEF IInv
  <2>3. /\ state' \in [Clients -> {"kNewCommand", "kReceiveValue"}]
        /\ \A d \in Clients : state'[d] = "kReceiveValue" =>
             entry'[d].key \in Keys /\ entry'[d].value = <<>>
    BY <2>1 DEF IInv
  <2>4. /\ net' \in [Clients -> Seq(Elements)]
        /\ inbuf' \in [Clients -> Seq(Elements)]
    BY <1>3 DEF Finish, IInv
  <2>5. open' \subseteq Clients /\ busy' = None
    BY <1>3 DEF Finish, IInv
  <2> QED
    BY <2>2, <2>3, <2>4, <2>5 DEF IInv, Fits, Total
<1>4. ASSUME NEW c \in Clients, GetHandler(c)
      PROVE  IInv'
  <2> DEFINE x == ResetKey(entry[c], inbuf[c][1].key)
  <2>0. TakeLine(c) /\ IsCommand(c, "get")
    BY <1>4 DEF GetHandler
  <2>1. /\ inbuf' \in [Clients -> Seq(Elements)]
        /\ inbuf[c][1].key \in Keys
    BY <2>0, TakeLineType
  <2>2. x \in Entries /\ Fits(x)
    BY <2>1, ResetKeyFits DEF IInv
  <2>3. entry' = [entry EXCEPT ![c] = x] /\ UNCHANGED state
    BY <1>4 DEF GetHandler
  <2>4. state[c] = "kNewCommand" /\ UNCHANGED <<open, net, busy>>
    BY <2>0 DEF TakeLine
  <2> HIDE DEF x
  <2>5. /\ entry' \in [Clients -> Entries]
        /\ \A d \in Clients : Fits(entry'[d])
        /\ \A d \in Clients : state'[d] = "kReceiveValue" =>
             entry'[d].key \in Keys /\ entry'[d].value = <<>>
    BY <2>2, <2>3, <2>4 DEF IInv
  <2> QED
    BY <2>1, <2>3, <2>4, <2>5 DEF IInv, Fits, Total
<1>5. ASSUME NEW c \in Clients, SetHandler(c)
      PROVE  IInv'
  <2> DEFINE line == inbuf[c][1]
             x == ResetKeyFor(entry[c], line.key, line.len)
  <2>0. TakeLine(c) /\ IsCommand(c, "set")
    BY <1>5 DEF SetHandler
  <2>1. /\ inbuf' \in [Clients -> Seq(Elements)]
        /\ line.key \in Keys /\ line.len \in Nat
    BY <2>0, TakeLineType
  <2>2. x \in Entries /\ Fits(x) /\ x.key \in Keys /\ x.value = <<>>
    BY <2>1, ResetKeyForFits DEF IInv
  <2>3. \/ UNCHANGED <<state, entry>>
        \/ /\ entry' = [entry EXCEPT ![c] = x]
           /\ state' = [state EXCEPT ![c] = "kReceiveValue"]
    BY <1>5 DEF SetHandler
  <2>4. UNCHANGED <<open, net, busy>>
    BY <2>0 DEF TakeLine
  <2> HIDE DEF x
  <2>5. /\ entry' \in [Clients -> Entries]
        /\ state' \in [Clients -> {"kNewCommand", "kReceiveValue"}]
        /\ \A d \in Clients : Fits(entry'[d])
        /\ \A d \in Clients : state'[d] = "kReceiveValue" =>
             entry'[d].key \in Keys /\ entry'[d].value = <<>>
    <3>1. CASE UNCHANGED <<state, entry>>
      BY <3>1 DEF IInv
    <3>2. CASE /\ entry' = [entry EXCEPT ![c] = x]
               /\ state' = [state EXCEPT ![c] = "kReceiveValue"]
      BY <2>2, <3>2 DEF IInv
    <3> QED
      BY <2>3, <3>1, <3>2
  <2> QED
    BY <2>1, <2>4, <2>5 DEF IInv, Fits, Total
<1>6. ASSUME NEW c \in Clients, OtherLine(c)
      PROVE  IInv'
  <2>1. inbuf' \in [Clients -> Seq(Elements)] /\ UNCHANGED <<open, net, busy>>
    BY <1>6, TakeLineType DEF OtherLine, TakeLine
  <2> QED
    BY <1>6, <2>1 DEF OtherLine, IInv, conversations, Fits, Total
<1>7. ASSUME NEW c \in Clients, ReceiveValue(c)
      PROVE  IInv'
  <2> DEFINE n == ValueBytes(c)
             s == SubSeq(inbuf[c], 1, n)
             d == SubSeq(inbuf[c], n + 1, Len(inbuf[c]))
             x == ResetEntry(AppendTo(entry[c], s))
  <2>1. /\ inbuf[c] \in Seq(Elements) /\ entry[c] \in Entries
        /\ entry[c].free \in Nat /\ Fits(entry[c])
    BY DEF IInv, Entries
  <2>2. n \in 0..Len(inbuf[c]) /\ n <= entry[c].free
    BY <2>1 DEF ValueBytes
  <2> HIDE DEF n
  <2>3. s \in Seq(Elements) /\ Len(s) = n /\ d \in Seq(Elements)
    BY <2>1, <2>2
  <2>4. x \in Entries /\ Fits(x)
    BY <2>1, <2>2, <2>3, ReceivedFits
  <2>5. /\ inbuf' = [inbuf EXCEPT ![c] = d]
        /\ entry' = [entry EXCEPT ![c] = x]
        /\ state' = [state EXCEPT ![c] = "kNewCommand"]
        /\ UNCHANGED <<open, net, busy>>
    BY <1>7 DEF ReceiveValue, n
  <2> HIDE DEF d, s, x
  <2>6. /\ inbuf' \in [Clients -> Seq(Elements)]
        /\ entry' \in [Clients -> Entries]
        /\ state' \in [Clients -> {"kNewCommand", "kReceiveValue"}]
        /\ \A e \in Clients : Fits(entry'[e])
        /\ \A e \in Clients : state'[e] = "kReceiveValue" =>
             entry'[e].key \in Keys /\ entry'[e].value = <<>>
    BY <2>3, <2>4, <2>5 DEF IInv
  <2> QED
    BY <2>5, <2>6 DEF IInv, Fits, Total
<1>8. ASSUME NEW c \in Clients, Return(c)
      PROVE  IInv'
  BY <1>8 DEF Return, IInv, conversations, Fits, Total
<1>9. CASE UNCHANGED vars
  BY <1>9 DEF vars, conversations, IInv, Fits, Total
<1> QED
  BY <1>1, <1>2, <1>3, <1>4, <1>5, <1>6, <1>7, <1>8, <1>9 DEF Next, msgCb

\* An entry is always large enough for what its lengths say.
THEOREM EntryIsLargeEnough == Spec => []EntryFits
<1>1. Init => IInv
  BY FirstFits DEF Init, IInv, Fits, Total
<1>2. IInv => EntryFits
  <2> SUFFICES ASSUME IInv, NEW c \in Clients
               PROVE  /\ entry[c].free >= 0 /\ entry[c].keyLen >= 0
                      /\ Fits(entry[c])
    BY DEF IInv, EntryFits, Fits
  <2> QED
    BY DEF IInv, Entries
<1> QED
  BY <1>1, <1>2, StepFits, PTL DEF Spec
-----------------------------------------------------------------------------
(* What is stored was sent.                                                *)

\* The stream of c that msgCb() has not read.
Stream(c) == inbuf[c] \o net[c]

\* The command lines of a "set".
IsSet(line) == line \notin Bytes \cup {CRLF} /\ line.cmd = "set"

\* Behind the first i elements of s are len bytes, and they are a value of V.
ValueAt(s, i, V, len) ==
  \E v \in V : /\ Len(v) = len /\ i + len <= Len(s)
               /\ \A j \in 1..len : s[i + j] = v[j]

\* The first m elements of a stream, which have arrived, do not end within
\* the len bytes behind the first i.
NotWithin(m, i, len) == m \notin (i + 1)..(i + len - 1)

\* Behind the first i elements of c's stream is a value of that length that
\* was sent for k; it arrives as a whole unless a value of c's was cut.
Announced(c, i, k, len) ==
  /\ ValueAt(Stream(c), i, ValuesSent(k), len)
  /\ c \notin cut => NotWithin(Len(inbuf[c]), i, len)

\* Behind every line of a "set" that is not read is the value it announces.
LinesAnnounce ==
  \A c \in Clients : \A i \in DOMAIN Stream(c) :
    IsSet(Stream(c)[i]) =>
      Announced(c, i, Stream(c)[i].key, Stream(c)[i].len)

\* The value a conversation waits for is next, and as long as its entry has
\* room for.
ValueIsNext ==
  \A c \in Clients : state[c] = "kReceiveValue" =>
    Announced(c, 0, entry[c].key, entry[c].free)

\* StoredWasSent with what it rests on.
StoredInv ==
  /\ sent \in [Clients -> Seq(Requests)]
  /\ cut \subseteq Clients
  /\ LinesAnnounce
  /\ ValueIsNext
  /\ table \in [Keys -> Seq(Elements) \cup {None}]
  /\ StoredWasSent

\* What follows in a stream still follows when its first e elements are read
\* and more is sent.
LEMMA Shifted ==
  ASSUME NEW s \in Seq(Elements), NEW t \in Seq(Elements), NEW e \in 0..Len(s),
         Len(s) - e <= Len(t),
         \A j \in 1..(Len(s) - e) : t[j] = s[j + e],
         NEW V, NEW W, V \subseteq W, NEW i \in Nat, NEW len \in Nat,
         ValueAt(s, i + e, V, len)
  PROVE  ValueAt(t, i, W, len)
<1>1. PICK v \in V : /\ Len(v) = len /\ (i + e) + len <= Len(s)
                     /\ \A j \in 1..len : s[(i + e) + j] = v[j]
  BY DEF ValueAt
<1>2. i + len <= Len(t)
  BY <1>1
<1>3. ASSUME NEW j \in 1..len PROVE t[i + j] = v[j]
  <2>1. i + j \in 1..(Len(s) - e)
    BY <1>1
  <2>2. t[i + j] = s[(i + j) + e]
    BY <2>1
  <2>3. (i + j) + e = (i + e) + j
    OBVIOUS
  <2> QED
    BY <1>1, <2>2, <2>3
<1> QED
  BY <1>1, <1>2, <1>3 DEF ValueAt

\* Sequences one behind the other.
LEMMA Concat ==
  \A a, b \in Seq(Elements) :
    a \o b \in Seq(Elements) /\ Len(a \o b) = Len(a) + Len(b)
  OBVIOUS

\* What is read of the bytes that have arrived is read of the stream.
LEMMA ReadOfStream ==
  ASSUME NEW a \in Seq(Elements), NEW b \in Seq(Elements), NEW e \in 0..Len(a)
  PROVE  LET r == SubSeq(a, e + 1, Len(a)) IN
         /\ a \o b \in Seq(Elements) /\ r \o b \in Seq(Elements)
         /\ r \in Seq(Elements) /\ Len(r) = Len(a) - e
         /\ e \in 0..Len(a \o b) /\ Len(r \o b) = Len(a \o b) - e
         /\ \A j \in 1..(Len(a \o b) - e) : (r \o b)[j] = (a \o b)[j + e]
<1> DEFINE r == SubSeq(a, e + 1, Len(a))
<1>1. /\ r \in Seq(Elements) /\ Len(r) = Len(a) - e
      /\ \A j \in 1..(Len(a) - e) : r[j] = a[j + e]
  OBVIOUS
<1> HIDE DEF r
<1>a. a \o b \in Seq(Elements) /\ Len(a \o b) = Len(a) + Len(b)
  BY Concat
<1>b. r \o b \in Seq(Elements) /\ Len(r \o b) = Len(r) + Len(b)
  BY <1>1, Concat
<1>2. /\ a \o b \in Seq(Elements) /\ r \o b \in Seq(Elements)
      /\ Len(a \o b) = Len(a) + Len(b) /\ Len(r \o b) = Len(r) + Len(b)
  BY <1>a, <1>b
<1>3. ASSUME NEW j \in 1..(Len(a \o b) - e)
      PROVE  (r \o b)[j] = (a \o b)[j + e]
  <2>1. CASE j <= Len(r)
    BY <1>1, <1>2, <2>1
  <2>2. CASE j > Len(r)
    <3>1. (r \o b)[j] = b[j - Len(r)]
      BY <1>1, <1>2, <2>2
    <3>2. (a \o b)[j + e] = b[(j + e) - Len(a)]
      BY <1>1, <1>2, <2>2
    <3>3. (j + e) - Len(a) = j - Len(r)
      BY <1>1
    <3> QED
      BY <3>1, <3>2, <3>3
  <2> QED
    BY <1>1, <2>1, <2>2
<1>4. e \in 0..Len(a \o b) /\ Len(r \o b) = Len(a \o b) - e
  BY <1>1, <1>2
<1> QED
  BY <1>1, <1>2, <1>3, <1>4 DEF r

\* An arrival leaves the stream as it is.
LEMMA ArrivalInStream ==
  ASSUME NEW a \in Seq(Elements), NEW b \in Seq(Elements), NEW n \in 1..Len(b)
  PROVE  LET x == a \o SubSeq(b, 1, n)
             y == SubSeq(b, n + 1, Len(b)) IN
         /\ x \in Seq(Elements) /\ Len(x) = Len(a) + n
         /\ x \o y \in Seq(Elements) /\ Len(x \o y) = Len(a \o b)
         /\ \A j \in 1..Len(a \o b) : (x \o y)[j] = (a \o b)[j]
<1> DEFINE z == SubSeq(b, 1, n)
           x == a \o z
           y == SubSeq(b, n + 1, Len(b))
<1>1. /\ z \in Seq(Elements) /\ Len(z) = n
      /\ \A j \in 1..n : z[j] = b[j]
  OBVIOUS
<1>2. /\ y \in Seq(Elements) /\ Len(y) = Len(b) - n
      /\ \A j \in 1..(Len(b) - n) : y[j] = b[j + n]
  OBVIOUS
<1> HIDE DEF z, y
<1>3. /\ x \in Seq(Elements) /\ Len(x) = Len(a) + n
      /\ \A j \in 1..Len(a) : x[j] = a[j]
      /\ \A j \in 1..n : x[Len(a) + j] = b[j]
  BY <1>1
<1> HIDE DEF x
<1>a. a \o b \in Seq(Elements) /\ Len(a \o b) = Len(a) + Len(b)
  BY Concat
<1>b. x \o y \in Seq(Elements) /\ Len(x \o y) = Len(x) + Len(y)
  BY <1>2, <1>3, Concat
<1>4. /\ x \o y \in Seq(Elements) /\ Len(x \o y) = Len(a) + Len(b)
      /\ Len(a \o b) = Len(a) + Len(b) /\ a \o b \in Seq(Elements)
      /\ Len(a) \in Nat /\ Len(b) \in Nat /\ n \in Nat
  BY <1>2, <1>3, <1>a, <1>b
<1>5. ASSUME NEW j \in 1..Len(a \o b) PROVE (x \o y)[j] = (a \o b)[j]
  <2>0. j \in Nat /\ (j <= Len(a) \/ (j > Len(a) /\ j <= Len(a) + n) \/ j > Len(a) + n)
    BY <1>4
  <2>1. CASE j <= Len(a)
    <3>1. (x \o y)[j] = x[j]
      BY <1>2, <1>3, <2>1
    <3>2. (a \o b)[j] = a[j]
      BY <1>4, <2>1
    <3> QED
      BY <1>3, <2>1, <3>1, <3>2
  <2>2. CASE j > Len(a) /\ j <= Len(a) + n
    <3>1. (x \o y)[j] = x[j]
      BY <1>2, <1>3, <2>2
    <3>2. (a \o b)[j] = b[j - Len(a)]
      BY <1>4, <2>2
    <3>3. x[Len(a) + (j - Len(a))] = b[j - Len(a)]
      BY <1>3, <2>2
    <3>4. Len(a) + (j - Len(a)) = j
      BY <1>4
    <3> QED
      BY <3>1, <3>2, <3>3, <3>4
  <2>3. CASE j > Len(a) + n
    <3>1. (x \o y)[j] = y[j - (Len(a) + n)]
      BY <1>2, <1>3, <1>4, <2>3
    <3>2. (a \o b)[j] = b[j - Len(a)]
      BY <1>4, <2>3
    <3>0. j - (Len(a) + n) \in 1..(Len(b) - n)
      BY <1>4, <2>3
    <3>3. y[j - (Len(a) + n)] = b[(j - (Len(a) + n)) + n]
      BY <1>2, <3>0
    <3>4. (j - (Len(a) + n)) + n = j - Len(a)
      BY <1>4
    <3> QED
      BY <3>1, <3>2, <3>3, <3>4
  <2> QED
    BY <2>0, <2>1, <2>2, <2>3
<1> QED
  BY <1>3, <1>4, <1>5 DEF x, y, z

\* What a client sends is behind its stream; a "set" is followed by its value.
LEMMA EncodedAnnounces ==
  ASSUME NEW r \in Requests, NEW i \in DOMAIN Encoded(r), IsSet(Encoded(r)[i])
  PROVE  /\ i = 1 /\ r.cmd = "set" /\ r.value \in Values
         /\ Encoded(r)[1] = Line(r)
         /\ ValueAt(Encoded(r), 1, {r.value}, Len(r.value))
<1> DEFINE x == Encoded(r)
           a == Append(r.value, CRLF)
<1>0. r.value = <<>> \/ r.value \in Values
  BY DEF Requests
<1>1. r.value = <<>> \/ (r.value \in Seq(Bytes) /\ r.value \in Values)
  BY <1>0, ValuesAssumption
<1>2. CASE r.value = <<>>
  <2>1. x = <<Line(r)>>
    BY <1>2 DEF Encoded
  <2>2. i = 1 /\ x[1] = Line(r)
    BY <2>1
  <2>3. r.cmd = "set"
    BY <2>2 DEF IsSet, Line
  <2>4. r.value # <<>>
    BY <2>3, ValuesAssumption DEF Requests
  <2> QED
    BY <1>2, <2>4
<1>3. CASE r.value # <<>>
  <2>1. /\ a \in Seq(Bytes \cup {CRLF}) /\ Len(a) = Len(r.value) + 1
        /\ \A j \in 1..Len(r.value) : a[j] = r.value[j]
        /\ a[Len(a)] = CRLF
    BY <1>1, <1>3
  <2>2. x = <<Line(r)>> \o a
    BY <1>3 DEF Encoded
  <2> HIDE DEF a, x
  <2>3. /\ Len(x) = 1 + Len(a) /\ x[1] = Line(r)
        /\ DOMAIN x = 1..Len(x)
        /\ \A j \in 1..Len(a) : x[1 + j] = a[j]
    BY <2>1, <2>2
  <2>4. i = 1
    <3> SUFFICES ASSUME i # 1 PROVE FALSE
      OBVIOUS
    <3>1. i \in 1..Len(x)
      BY <2>3 DEF x
    <3>2. i - 1 \in 1..Len(a) /\ 1 + (i - 1) = i
      BY <2>1, <2>3, <3>1
    <3>3. x[i] = a[i - 1]
      BY <2>3, <3>2
    <3>4. x[i] \in Bytes \cup {CRLF}
      BY <2>1, <3>2, <3>3
    <3> QED
      BY <3>4 DEF IsSet, x
  <2>5. r.cmd = "set" /\ r.value \in Values
    BY <1>1, <1>3, <2>3, <2>4 DEF IsSet, Line, x
  <2>6. ValueAt(x, 1, {r.value}, Len(r.value))
    BY <1>1, <1>3, <2>1, <2>3 DEF ValueAt
  <2> QED
    BY <2>3, <2>4, <2>5, <2>6 DEF x
<1> QED
  BY <1>2, <1>3

LEMMA StreamType ==
  ASSUME IInv, NEW c \in Clients
  PROVE  /\ inbuf[c] \in Seq(Elements) /\ net[c] \in Seq(Elements)
         /\ Stream(c) \in Seq(Elements)
         /\ Len(Stream(c)) = Len(inbuf[c]) + Len(net[c])
  BY Concat DEF IInv, Stream

\* The line of a "set" has a key and a length.
LEMMA SetLineType ==
  ASSUME NEW x \in Elements, IsSet(x)
  PROVE  x.key \in Keys /\ x.len \in Nat
  BY CommandType DEF IsSet

\* What is announced in a stream still is when e of its elements are read.
LEMMA ReadAnnounced ==
  ASSUME IInv, NEW c \in Clients, NEW e \in 0..Len(inbuf[c]),
         inbuf' = [inbuf EXCEPT ![c] = SubSeq(@, e + 1, Len(@))],
         UNCHANGED <<net, sent, cut>>
  PROVE  /\ \A i \in DOMAIN Stream(c)' :
              /\ i \in Nat /\ i + e \in DOMAIN Stream(c)
              /\ Stream(c)'[i] = Stream(c)[i + e]
         /\ \A i, len \in Nat : \A k :
              Announced(c, i + e, k, len) => Announced(c, i, k, len)'
         /\ \A d \in Clients \ {c} :
              /\ Stream(d)' = Stream(d)
              /\ \A i, len, k :
                   Announced(d, i, k, len) => Announced(d, i, k, len)'
<1> DEFINE a == inbuf[c]
           b == net[c]
           r == SubSeq(a, e + 1, Len(a))
           s == a \o b
           t == r \o b
<1>1. a \in Seq(Elements) /\ b \in Seq(Elements) /\ e \in 0..Len(a)
  BY StreamType
<1>2. /\ inbuf' = [inbuf EXCEPT ![c] = r]
      /\ inbuf'[c] = r /\ net' = net
      /\ \A d \in Clients \ {c} : inbuf'[d] = inbuf[d]
  BY DEF IInv
<1>3. Stream(c) = s /\ Stream(c)' = t
  BY <1>2 DEF Stream
<1> HIDE DEF a, b
<1>4. /\ s \in Seq(Elements) /\ t \in Seq(Elements)
      /\ r \in Seq(Elements) /\ Len(r) = Len(a) - e
      /\ e \in 0..Len(s) /\ Len(t) = Len(s) - e
      /\ \A j \in 1..(Len(s) - e) : t[j] = s[j + e]
  BY <1>1, ReadOfStream, Zenon
<1> HIDE DEF r, s, t
<1>5. \A k : ValuesSent(k)' = ValuesSent(k)
  BY DEF ValuesSent
<1>6. ASSUME NEW i \in DOMAIN Stream(c)'
      PROVE  /\ i \in Nat /\ i + e \in DOMAIN Stream(c)
             /\ Stream(c)'[i] = Stream(c)[i + e]
  <2>1. i \in 1..Len(t)
    BY <1>3, <1>4, <1>6
  <2>2. i \in Nat /\ i + e \in 1..Len(s)
    BY <1>4, <2>1
  <2>3. t[i] = s[i + e]
    BY <1>4, <2>1
  <2>4. DOMAIN s = 1..Len(s)
    BY <1>4
  <2> QED
    BY <1>3, <2>2, <2>3, <2>4
<1>7. ASSUME NEW i \in Nat, NEW len \in Nat, NEW k, Announced(c, i + e, k, len)
      PROVE  Announced(c, i, k, len)'
  <2>1. ValueAt(s, i + e, ValuesSent(k), len)
    BY <1>3, <1>7 DEF Announced
  <2>2. ValueAt(t, i, ValuesSent(k), len)
    <3>1. Len(s) - e <= Len(t)
      BY <1>4
    <3> QED
      BY <1>4, <2>1, <3>1, Shifted
  <2>3. ASSUME c \notin cut' PROVE NotWithin(Len(inbuf'[c]), i, len)
    <3>1. NotWithin(Len(a), i + e, len)
      BY <1>7, <2>3 DEF Announced, a
    <3>2. Len(a) \in Nat
      BY <1>1
    <3>3. NotWithin(Len(r), i, len)
      BY <1>4, <3>1, <3>2 DEF NotWithin
    <3> QED
      BY <1>2, <3>3
  <2> QED
    BY <1>3, <1>5, <2>2, <2>3 DEF Announced
<1>8. ASSUME NEW d \in Clients \ {c}
      PROVE  /\ Stream(d)' = Stream(d)
             /\ \A i, len, k :
                  Announced(d, i, k, len) => Announced(d, i, k, len)'
  <2>1. Stream(d)' = Stream(d) /\ inbuf'[d] = inbuf[d]
    BY <1>2 DEF Stream
  <2> QED
    BY <1>5, <2>1 DEF Announced
<1> QED
  BY <1>6, <1>7, <1>8

\* So the lines that are left announce their values.
LEMMA ReadLines ==
  ASSUME IInv, LinesAnnounce, NEW c \in Clients, NEW e \in 0..Len(inbuf[c]),
         inbuf' = [inbuf EXCEPT ![c] = SubSeq(@, e + 1, Len(@))],
         UNCHANGED <<net, sent, cut>>
  PROVE  LinesAnnounce'
<1> SUFFICES ASSUME NEW d \in Clients, NEW i \in DOMAIN Stream(d)',
                    IsSet(Stream(d)'[i])
             PROVE  Announced(d, i, Stream(d)[i].key, Stream(d)[i].len)'
  BY DEF LinesAnnounce
<1> DEFINE x == Stream(d)'[i]
<1>1. CASE d = c
  <2>1. /\ i \in Nat /\ i + e \in DOMAIN Stream(c) /\ x = Stream(c)[i + e]
    BY <1>1, ReadAnnounced
  <2>2. Announced(c, i + e, Stream(c)[i + e].key, Stream(c)[i + e].len)
    BY <2>1 DEF LinesAnnounce
  <2>3. Stream(c)[i + e] \in Elements
    <3>1. Stream(c) \in Seq(Elements)
      BY StreamType
    <3> QED
      BY <2>1, <3>1
  <2>4. Stream(c)[i + e].len \in Nat
    BY <2>1, <2>3, SetLineType
  <2>5. PICK k, len : k = Stream(c)[i + e].key /\ len = Stream(c)[i + e].len
    OBVIOUS
  <2>6. Announced(c, i, k, len)'
    BY <2>1, <2>2, <2>4, <2>5, ReadAnnounced
  <2> QED
    BY <1>1, <2>1, <2>5, <2>6
<1>2. CASE d # c
  <2>1. Stream(d)' = Stream(d)
    BY <1>2, ReadAnnounced
  <2>2. PICK k, len : k = Stream(d)[i].key /\ len = Stream(d)[i].len
    OBVIOUS
  <2>3. Announced(d, i, k, len)
    BY <2>1, <2>2 DEF LinesAnnounce
  <2>4. Announced(d, i, k, len)'
    BY <1>2, <2>3, ReadAnnounced
  <2> QED
    BY <2>1, <2>2, <2>4
<1> QED
  BY <1>1, <1>2

\* A request that is sent is behind the stream of its client.
LEMMA SendStored ==
  ASSUME IInv, StoredInv, NEW c \in Clients, NEW r \in Requests, Send(c, r)
  PROVE  StoredInv'
<1> DEFINE a == inbuf[c]
           b == net[c]
           x == Encoded(r)
           s == a \o b
           t == a \o (b \o x)
<1>1. /\ a \in Seq(Elements) /\ b \in Seq(Elements) /\ s \in Seq(Elements)
      /\ Len(s) = Len(a) + Len(b)
  BY StreamType, Concat
<1>2. x \in Seq(Elements)
  BY EncodedType
<1>3. /\ sent' = [sent EXCEPT ![c] = Append(@, r)]
      /\ net' = [net EXCEPT ![c] = b \o x]
      /\ UNCHANGED <<inbuf, cut, state, entry, table>>
  BY DEF Send, conversations
<1>4. /\ Stream(c) = s /\ Stream(c)' = t
      /\ \A d \in Clients \ {c} : Stream(d)' = Stream(d)
  BY <1>3 DEF Stream, IInv
<1> HIDE DEF a, b, x
<1>5. /\ t \in Seq(Elements) /\ Len(t) = Len(s) + Len(x)
      /\ \A j \in 1..Len(s) : t[j] = s[j]
      /\ \A j \in 1..Len(x) : t[Len(s) + j] = x[j]
  <2>1. b \o x \in Seq(Elements) /\ Len(b \o x) = Len(b) + Len(x)
    BY <1>1, <1>2, Concat
  <2>2. t \in Seq(Elements) /\ Len(t) = Len(s) + Len(x)
    BY <1>1, <1>2, <2>1, Concat
  <2>3. ASSUME NEW j \in 1..Len(s) PROVE t[j] = s[j]
    BY <1>1, <1>2, <2>1, <2>2
  <2>4. ASSUME NEW j \in 1..Len(x) PROVE t[Len(s) + j] = x[j]
    BY <1>1, <1>2, <2>1, <2>2
  <2> QED
    BY <2>2, <2>3, <2>4
<1> HIDE DEF s, t
<1>6. /\ sent[c] \in Seq(Requests) /\ sent' \in [Clients -> Seq(Requests)]
      /\ \A d \in Clients : Range(sent[d]) \subseteq Range(sent'[d])
      /\ r \in Range(sent'[c])
  <2>1. /\ sent[c] \in Seq(Requests) /\ sent' \in [Clients -> Seq(Requests)]
    BY <1>3 DEF StoredInv
  <2>2. sent'[c] = Append(sent[c], r)
    BY <1>3 DEF StoredInv
  <2>3. /\ Len(sent'[c]) = Len(sent[c]) + 1 /\ sent'[c][Len(sent[c]) + 1] = r
        /\ \A i \in DOMAIN sent[c] : i \in DOMAIN sent'[c] /\ sent'[c][i] = sent[c][i]
        /\ Len(sent[c]) + 1 \in DOMAIN sent'[c]
    BY <2>1, <2>2
  <2>4. Range(sent[c]) \subseteq Range(sent'[c]) /\ r \in Range(sent'[c])
    BY <2>3 DEF Range
  <2>5. \A d \in Clients \ {c} : sent'[d] = sent[d]
    BY <1>3 DEF StoredInv
  <2> QED
    BY <2>1, <2>4, <2>5
<1>7. \A k : ValuesSent(k) \subseteq ValuesSent(k)'
  BY <1>6 DEF ValuesSent
<1>8. ASSUME NEW d \in Clients, NEW i \in Nat, NEW len \in Nat, NEW k,
             Announced(d, i, k, len)
      PROVE  Announced(d, i, k, len)'
  <2>1. CASE d # c
    <3>1. Stream(d)' = Stream(d) /\ Stream(d) \in Seq(Elements)
      BY <1>4, <2>1, StreamType
    <3>2. ValueAt(Stream(d), i, ValuesSent(k)', len)
      BY <1>7, <1>8 DEF Announced, ValueAt
    <3> QED
      BY <1>3, <1>8, <3>1, <3>2 DEF Announced
  <2>2. CASE d = c
    <3>1. ValueAt(s, i + 0, ValuesSent(k), len)
      BY <1>4, <1>8, <2>2 DEF Announced
    <3>2. /\ 0 \in 0..Len(s) /\ Len(s) - 0 <= Len(t)
          /\ \A j \in 1..(Len(s) - 0) : t[j] = s[j + 0]
      BY <1>1, <1>2, <1>5
    <3>3. ValueAt(t, i, ValuesSent(k)', len)
      BY <1>1, <1>5, <1>7, <3>1, <3>2, Shifted
    <3> QED
      BY <1>3, <1>4, <1>8, <2>2, <3>3 DEF Announced
  <2> QED
    BY <2>1, <2>2
<1>9. LinesAnnounce'
  <2> SUFFICES ASSUME NEW d \in Clients, NEW i \in DOMAIN Stream(d)',
                      IsSet(Stream(d)'[i])
               PROVE  Announced(d, i, Stream(d)[i].key, Stream(d)[i].len)'
    BY DEF LinesAnnounce
  <2>1. CASE i \in DOMAIN Stream(d) /\ Stream(d)'[i] = Stream(d)[i]
    <3>1. Stream(d) \in Seq(Elements)
      BY StreamType
    <3>2. i \in Nat /\ Stream(d)[i] \in Elements
      BY <2>1, <3>1
    <3>3. PICK k, len : k = Stream(d)[i].key /\ len = Stream(d)[i].len
      OBVIOUS
    <3>4. Announced(d, i, k, len) /\ len \in Nat
      BY <2>1, <3>2, <3>3, SetLineType DEF StoredInv, LinesAnnounce
    <3> QED
      BY <1>8, <2>1, <3>2, <3>3, <3>4
  <2>2. CASE d = c /\ i > Len(s)
    <3> DEFINE j == i - Len(s)
    <3>1. /\ j \in 1..Len(x) /\ Len(s) + j = i /\ DOMAIN x = 1..Len(x)
          /\ Len(s) \in Nat /\ Len(x) \in Nat
      BY <1>1, <1>2, <1>4, <1>5, <2>2
    <3> HIDE DEF j
    <3>2. t[i] = x[j] /\ IsSet(x[j])
      BY <1>4, <1>5, <2>2, <3>1
    <3>3. /\ j = 1 /\ r.cmd = "set" /\ r.value \in Values
          /\ x[1] = Line(r) /\ ValueAt(x, 1, {r.value}, Len(r.value))
      BY <3>1, <3>2, EncodedAnnounces DEF x
    <3>4. /\ Stream(d)'[i].key = r.key
          /\ Stream(d)'[i].len = Len(r.value)
      BY <1>4, <2>2, <3>2, <3>3 DEF Line
    <3>5. r.value \in ValuesSent(r.key)'
      BY <1>6, <3>3 DEF ValuesSent
    <3>6. Len(r.value) \in Nat
      BY <3>3, ValuesAssumption
    <3>7. ValueAt(t, i, ValuesSent(r.key)', Len(r.value))
      <4>1. /\ 1 + Len(r.value) <= Len(x)
            /\ \A m \in 1..Len(r.value) : x[1 + m] = r.value[m]
        BY <3>3 DEF ValueAt
      <4>2. i = Len(s) + 1
        BY <3>1, <3>3
      <4>3. i + Len(r.value) <= Len(t)
        <5>1. Len(t) = Len(s) + Len(x)
          BY <1>5
        <5>2. 1 + Len(r.value) <= Len(x)
          BY <4>1
        <5>3. Len(s) \in Nat /\ Len(x) \in Nat
          BY <3>1
        <5>4. \A p, q, l \in Nat : 1 + l <= q => (p + 1) + l <= p + q
          OBVIOUS
        <5>5. (Len(s) + 1) + Len(r.value) <= Len(s) + Len(x)
          BY <3>6, <5>2, <5>3, <5>4
        <5> QED
          BY <4>2, <5>1, <5>5
      <4>4. ASSUME NEW m \in 1..Len(r.value) PROVE t[i + m] = r.value[m]
        <5>1. 1 + m \in 1..Len(x) /\ i + m = Len(s) + (1 + m)
          BY <3>1, <3>6, <4>1, <4>2
        <5> QED
          BY <1>5, <4>1, <5>1
      <4> QED
        BY <3>5, <4>3, <4>4 DEF ValueAt
    <3>8. NotWithin(Len(inbuf'[d]), i, Len(r.value))
      <4>1. Len(inbuf'[d]) <= Len(s) /\ Len(inbuf'[d]) \in Nat /\ i > Len(s)
        BY <1>1, <1>3, <2>2 DEF a
      <4> QED
        BY <3>1, <3>6, <4>1 DEF NotWithin
    <3> QED
      BY <1>4, <2>2, <3>4, <3>7, <3>8 DEF Announced
  <2>3. \/ i \in DOMAIN Stream(d) /\ Stream(d)'[i] = Stream(d)[i]
        \/ d = c /\ i > Len(s)
    <3>1. CASE d = c
      <4>1. i \in 1..Len(t) /\ DOMAIN s = 1..Len(s) /\ Len(s) \in Nat
        BY <1>1, <1>4, <1>5, <3>1
      <4> QED
        BY <1>4, <1>5, <3>1, <4>1
    <3>2. CASE d # c
      BY <1>4, <3>2
    <3> QED
      BY <3>1, <3>2
  <2> QED
    BY <2>1, <2>2, <2>3
<1>10. ValueIsNext'
  <2> SUFFICES ASSUME NEW d \in Clients, state'[d] = "kReceiveValue"
               PROVE  Announced(d, 0, entry[d].key, entry[d].free)'
    BY DEF ValueIsNext
  <2>1. PICK k, len : k = entry[d].key /\ len = entry[d].free
    OBVIOUS
  <2>2. Announced(d, 0, k, len)
    BY <1>3, <2>1 DEF StoredInv, ValueIsNext
  <2>3. len \in Nat
    BY <2>1 DEF IInv, Entries
  <2> QED
    BY <1>3, <1>8, <2>1, <2>2, <2>3
<1>11. StoredWasSent'
  <2> SUFFICES ASSUME NEW k \in Keys, table'[k] # None
               PROVE  \E v \in ValuesSent(k)' :
                        /\ \E n \in 1..Len(v) : table'[k] = SubSeq(v, 1, n)
                        /\ cut' = {} => table'[k] = v
    BY DEF StoredWasSent
  <2> QED
    BY <1>3, <1>7 DEF StoredInv, StoredWasSent
<1> QED
  BY <1>3, <1>6, <1>9, <1>10, <1>11 DEF StoredInv

\* What arrives is where it was in the stream; if its end is within a value,
\* the value is cut.
LEMMA ArriveStored ==
  ASSUME IInv, StoredInv, NEW c \in Clients, NEW n \in 1..Len(net[c]),
         Arrive(c, n)
  PROVE  StoredInv'
<1> DEFINE a == inbuf[c]
           b == net[c]
           x == a \o SubSeq(b, 1, n)
           y == SubSeq(b, n + 1, Len(b))
           s == a \o b
           t == x \o y
<1>1. /\ a \in Seq(Elements) /\ b \in Seq(Elements) /\ s \in Seq(Elements)
      /\ Len(s) = Len(a) + Len(b) /\ n \in 1..Len(b)
  BY StreamType, Concat
<1>2. /\ inbuf' = [inbuf EXCEPT ![c] = x]
      /\ net' = [net EXCEPT ![c] = y]
      /\ cut' = IF n < Len(b) /\ {b[n], b[n + 1]} \subseteq Bytes
                  THEN cut \cup {c} ELSE cut
      /\ UNCHANGED <<sent, state, entry, table>>
  BY DEF Arrive, conversations
<1>3. /\ Stream(c) = s /\ Stream(c)' = t /\ inbuf'[c] = x
      /\ \A d \in Clients \ {c} : Stream(d)' = Stream(d) /\ inbuf'[d] = inbuf[d]
  BY <1>2 DEF Stream, IInv
<1> HIDE DEF a, b
<1>4. /\ x \in Seq(Elements) /\ Len(x) = Len(a) + n
      /\ t \in Seq(Elements) /\ Len(t) = Len(s)
      /\ \A j \in 1..Len(s) : t[j] = s[j]
  BY <1>1, ArrivalInStream, Zenon
<1>5. \A j \in 1..Len(b) : s[Len(a) + j] = b[j]
  BY <1>1
<1> HIDE DEF x, y, s, t
<1>6. /\ \A k : ValuesSent(k)' = ValuesSent(k)
      /\ \A k : ValuesSent(k) \subseteq Seq(Bytes)
  BY <1>2, ValuesAssumption DEF ValuesSent
<1>7. cut \subseteq cut' /\ cut' \subseteq Clients
  BY <1>2 DEF StoredInv
<1>8. ASSUME NEW d \in Clients, NEW i \in Nat, NEW len \in Nat, NEW k,
             Announced(d, i, k, len)
      PROVE  Announced(d, i, k, len)'
  <2>1. CASE d # c
    BY <1>3, <1>6, <1>7, <1>8, <2>1 DEF Announced
  <2>2. CASE d = c
    <3>1. PICK v \in ValuesSent(k) :
            /\ Len(v) = len /\ i + len <= Len(s)
            /\ \A j \in 1..len : s[i + j] = v[j]
      BY <1>3, <1>8, <2>2 DEF Announced, ValueAt
    <3>2. ValueAt(t, i, ValuesSent(k), len)
      <4>1. \A j \in 1..len : i + j \in 1..Len(s)
        BY <1>1, <3>1
      <4>2. \A j \in 1..len : t[i + j] = v[j]
        BY <1>4, <3>1, <4>1
      <4> QED
        BY <1>4, <3>1, <4>2 DEF ValueAt
    <3>3. ASSUME c \notin cut' PROVE NotWithin(Len(x), i, len)
      <4> SUFFICES ASSUME Len(x) \in (i + 1)..(i + len - 1) PROVE FALSE
        BY DEF NotWithin
      <4>0. Len(a) \in Nat /\ Len(b) \in Nat /\ n \in Nat /\ n >= 1
        BY <1>1
      <4>1. Len(a) \notin (i + 1)..(i + len - 1)
        BY <1>7, <1>8, <2>2, <3>3 DEF Announced, NotWithin, a
      <4>2. i + len <= Len(a) + Len(b) /\ Len(x) = Len(a) + n
        BY <1>1, <1>4, <3>1
      <4>3. Len(a) <= i /\ n < Len(b)
        BY <4>0, <4>1, <4>2
      <4> DEFINE j == (Len(a) + n) - i
      <4>4. /\ j \in 1..len /\ j + 1 \in 1..len
            /\ i + j = Len(a) + n /\ i + (j + 1) = Len(a) + (n + 1)
            /\ n \in 1..Len(b) /\ n + 1 \in 1..Len(b)
        BY <4>0, <4>2, <4>3
      <4> HIDE DEF j
      <4>5. b[n] = v[j] /\ b[n + 1] = v[j + 1]
        <5>1. s[Len(a) + n] = b[n] /\ s[Len(a) + (n + 1)] = b[n + 1]
          BY <1>5, <4>4
        <5>2. s[i + j] = v[j] /\ s[i + (j + 1)] = v[j + 1]
          BY <3>1, <4>4
        <5> QED
          BY <4>4, <5>1, <5>2
      <4>6. v[j] \in Bytes /\ v[j + 1] \in Bytes
        BY <1>6, <3>1, <4>4
      <4>7. c \in cut'
        BY <1>2, <4>3, <4>5, <4>6
      <4> QED
        BY <3>3, <4>7
    <3> QED
      BY <1>3, <1>6, <2>2, <3>2, <3>3 DEF Announced
  <2> QED
    BY <2>1, <2>2
<1>9. LinesAnnounce'
  <2> SUFFICES ASSUME NEW d \in Clients, NEW i \in DOMAIN Stream(d)',
                      IsSet(Stream(d)'[i])
               PROVE  Announced(d, i, Stream(d)[i].key, Stream(d)[i].len)'
    BY DEF LinesAnnounce
  <2>1. i \in DOMAIN Stream(d) /\ Stream(d)'[i] = Stream(d)[i]
    BY <1>1, <1>3, <1>4
  <2>2. Stream(d) \in Seq(Elements)
    BY StreamType
  <2>3. i \in Nat /\ Stream(d)[i] \in Elements
    BY <2>1, <2>2
  <2>4. PICK k, len : k = Stream(d)[i].key /\ len = Stream(d)[i].len
    OBVIOUS
  <2>5. Announced(d, i, k, len) /\ len \in Nat
    BY <2>1, <2>3, <2>4, SetLineType DEF StoredInv, LinesAnnounce
  <2> QED
    BY <1>8, <2>1, <2>3, <2>4, <2>5
<1>10. ValueIsNext'
  <2> SUFFICES ASSUME NEW d \in Clients, state'[d] = "kReceiveValue"
               PROVE  Announced(d, 0, entry[d].key, entry[d].free)'
    BY DEF ValueIsNext
  <2>1. PICK k, len : k = entry[d].key /\ len = entry[d].free
    OBVIOUS
  <2>2. Announced(d, 0, k, len)
    BY <1>2, <2>1 DEF StoredInv, ValueIsNext
  <2>3. len \in Nat
    BY <2>1 DEF IInv, Entries
  <2> QED
    BY <1>2, <1>8, <2>1, <2>2, <2>3
<1>11. StoredWasSent'
  <2>1. cut' = {} => cut = {}
    BY <1>7
  <2> SUFFICES ASSUME NEW k \in Keys, table'[k] # None
               PROVE  \E v \in ValuesSent(k)' :
                        /\ \E m \in 1..Len(v) : table'[k] = SubSeq(v, 1, m)
                        /\ cut' = {} => table'[k] = v
    BY DEF StoredWasSent
  <2> QED
    BY <1>2, <1>6, <2>1 DEF StoredInv, StoredWasSent
<1> QED
  BY <1>2, <1>7, <1>9, <1>10, <1>11 DEF StoredInv

\* The end of a connection leaves nothing of its stream.
LEMMA FinishStored ==
  ASSUME IInv, StoredInv, NEW c \in Clients, Finish(c)
  PROVE  StoredInv'
<1>1. /\ net' = [net EXCEPT ![c] = <<>>] /\ inbuf' = [inbuf EXCEPT ![c] = <<>>]
      /\ state' = [state EXCEPT ![c] = "kNewCommand"]
      /\ entry' = [entry EXCEPT ![c] = FirstEntry]
      /\ UNCHANGED <<sent, cut, table>>
  BY DEF Finish
<1>2. \A k : ValuesSent(k)' = ValuesSent(k)
  BY <1>1 DEF ValuesSent
<1>3. DOMAIN Stream(c)' = {} /\ state'[c] = "kNewCommand"
  BY <1>1 DEF Stream, IInv
<1>4. ASSUME NEW d \in Clients \ {c}
      PROVE  /\ Stream(d)' = Stream(d) /\ state'[d] = state[d]
             /\ entry'[d] = entry[d]
             /\ \A i, len, k : Announced(d, i, k, len) => Announced(d, i, k, len)'
  <2>1. /\ Stream(d)' = Stream(d) /\ state'[d] = state[d]
        /\ entry'[d] = entry[d] /\ inbuf'[d] = inbuf[d]
    BY <1>1 DEF Stream, IInv
  <2> QED
    BY <1>1, <1>2, <2>1 DEF Announced
<1>5. LinesAnnounce'
  <2> SUFFICES ASSUME NEW d \in Clients, NEW i \in DOMAIN Stream(d)',
                      IsSet(Stream(d)'[i])
               PROVE  Announced(d, i, Stream(d)[i].key, Stream(d)[i].len)'
    BY DEF LinesAnnounce
  <2>1. d # c /\ Stream(d)' = Stream(d)
    BY <1>3, <1>4
  <2>2. PICK k, len : k = Stream(d)[i].key /\ len = Stream(d)[i].len
    OBVIOUS
  <2>3. Announced(d, i, k, len)
    BY <2>1, <2>2 DEF StoredInv, LinesAnnounce
  <2> QED
    BY <1>4, <2>1, <2>2, <2>3
<1>6. ValueIsNext'
  <2> SUFFICES ASSUME NEW d \in Clients, state'[d] = "kReceiveValue"
               PROVE  Announced(d, 0, entry[d].key, entry[d].free)'
    BY DEF ValueIsNext
  <2>1. d # c
    BY <1>3
  <2>2. PICK k, len : k = entry[d].key /\ len = entry[d].free
    OBVIOUS
  <2>3. Announced(d, 0, k, len)
    BY <1>4, <2>1, <2>2 DEF StoredInv, ValueIsNext
  <2> QED
    BY <1>4, <2>1, <2>2, <2>3
<1>7. StoredWasSent'
  BY <1>1, <1>2 DEF StoredInv, StoredWasSent
<1> QED
  BY <1>1, <1>5, <1>6, <1>7 DEF StoredInv

\* What has arrived is the front of the stream.
LEMMA StreamFront ==
  ASSUME IInv, NEW c \in Clients, NEW j \in 1..Len(inbuf[c])
  PROVE  j \in DOMAIN Stream(c) /\ Stream(c)[j] = inbuf[c][j]
<1>1. \A a, b \in Seq(Elements) : \A i \in 1..Len(a) :
        i \in DOMAIN (a \o b) /\ (a \o b)[i] = a[i]
  OBVIOUS
<1>2. inbuf[c] \in Seq(Elements) /\ net[c] \in Seq(Elements)
  BY StreamType
<1> QED
  BY <1>1, <1>2 DEF Stream

\* A line that a command begins is that command alone.
LEMMA EndOfCommand ==
  ASSUME NEW s \in Seq(Elements), s # <<>>, s[1] \notin Bytes
  PROVE  EndOfLine(s) = 1
<1> DEFINE P(i) == s[i] \notin Bytes /\ \A j \in 1..(i - 1) : s[j] \in Bytes
           n == CHOOSE i \in DOMAIN s : P(i)
<1>1. 1 \in DOMAIN s /\ DOMAIN s \subseteq Nat \ {0}
  OBVIOUS
<1>2. P(1)
  OBVIOUS
<1>3. n \in DOMAIN s /\ P(n)
  <2> HIDE DEF P
  <2> QED
    BY <1>1, <1>2, Zenon
<1>4. EndOfLine(s) = n
  BY DEF EndOfLine
<1> HIDE DEF n
<1>5. n \in Nat \ {0}
  BY <1>1, <1>3
<1>6. ~(n > 1)
  <2> SUFFICES ASSUME n > 1 PROVE FALSE
    OBVIOUS
  <2>1. 1 \in 1..(n - 1)
    BY <1>5
  <2> QED
    BY <1>3, <2>1
<1> QED
  BY <1>4, <1>5, <1>6

\* A turn in kNewCommand reads a line.
LEMMA TakeLineReads ==
  ASSUME IInv, NEW c \in Clients, TakeLine(c)
  PROVE  /\ EndOfLine(inbuf[c]) \in 0..Len(inbuf[c])
         /\ inbuf' = [inbuf EXCEPT ![c] =
                        SubSeq(@, EndOfLine(inbuf[c]) + 1, Len(@))]
         /\ UNCHANGED <<net, sent, cut>>
         /\ inbuf[c] # <<>> /\ state[c] = "kNewCommand"
<1>1. inbuf[c] \in Seq(Elements) /\ HasLine(inbuf[c])
  BY DEF IInv, TakeLine
<1>2. EndOfLine(inbuf[c]) \in DOMAIN inbuf[c]
  BY <1>1, EndOfLineType
<1>3. EndOfLine(inbuf[c]) \in 0..Len(inbuf[c]) /\ inbuf[c] # <<>>
  BY <1>1, <1>2
<1>4. /\ UNCHANGED <<net, sent, cut>> /\ state[c] = "kNewCommand"
      /\ inbuf' = [inbuf EXCEPT ![c] =
                     SubSeq(inbuf[c], EndOfLine(inbuf[c]) + 1, Len(inbuf[c]))]
  BY DEF TakeLine
<1> QED
  BY <1>3, <1>4

\* What is stored was sent as long as nothing else is stored.
LEMMA TableStored ==
  ASSUME StoredInv, UNCHANGED <<sent, cut, table>>
  PROVE  StoredWasSent'
<1>1. \A k : ValuesSent(k)' = ValuesSent(k)
  BY DEF ValuesSent
<1> QED
  BY <1>1 DEF StoredInv, StoredWasSent

\* A line that is read and changes no conversation's state.
LEMMA LineStored ==
  ASSUME IInv, StoredInv, NEW c \in Clients, TakeLine(c),
         UNCHANGED <<state, table>>,
         \A d \in Clients \ {c} : entry'[d] = entry[d]
  PROVE  StoredInv'
<1>1. /\ EndOfLine(inbuf[c]) \in 0..Len(inbuf[c])
      /\ inbuf' = [inbuf EXCEPT ![c] =
                     SubSeq(@, EndOfLine(inbuf[c]) + 1, Len(@))]
      /\ UNCHANGED <<net, sent, cut>>
      /\ state[c] = "kNewCommand"
  BY TakeLineReads
<1>2. LinesAnnounce'
  BY <1>1, ReadLines DEF StoredInv
<1>3. ValueIsNext'
  <2> SUFFICES ASSUME NEW d \in Clients, state'[d] = "kReceiveValue"
               PROVE  Announced(d, 0, entry[d].key, entry[d].free)'
    BY DEF ValueIsNext
  <2>1. d \in Clients \ {c}
    BY <1>1
  <2>2. PICK k, len : k = entry[d].key /\ len = entry[d].free
    OBVIOUS
  <2>3. Announced(d, 0, k, len)
    BY <2>2 DEF StoredInv, ValueIsNext
  <2>4. Announced(d, 0, k, len)'
    BY <1>1, <2>1, <2>3, ReadAnnounced
  <2> QED
    BY <2>1, <2>2, <2>4
<1>4. StoredWasSent'
  BY <1>1, TableStored
<1> QED
  BY <1>1, <1>2, <1>3, <1>4 DEF StoredInv

\* The value that a "set" announces is the one its conversation waits for.
LEMMA SetStored ==
  ASSUME IInv, StoredInv, NEW c \in Clients, SetHandler(c)
  PROVE  StoredInv'
<1> DEFINE line == inbuf[c][1]
<1>0. TakeLine(c) /\ IsCommand(c, "set") /\ UNCHANGED table
  BY DEF SetHandler
<1>1. CASE line.len > kMaxValue
  BY <1>0, <1>1, LineStored DEF SetHandler
<1>2. CASE ~(line.len > kMaxValue)
  <2>1. inbuf[c] \in Seq(Elements) /\ inbuf[c] # <<>>
    BY <1>0, StreamType, TakeLineReads
  <2>2. line \notin Bytes \cup {CRLF} /\ line.cmd = "set" /\ line \in Elements
    BY <1>0, <2>1 DEF IsCommand
  <2>3. line.key \in Keys /\ line.len \in Nat
    BY <2>2, CommandType
  <2>4. EndOfLine(inbuf[c]) = 1
    BY <2>1, <2>2, EndOfCommand
  <2>5. /\ 1 \in 0..Len(inbuf[c])
        /\ inbuf' = [inbuf EXCEPT ![c] = SubSeq(@, 1 + 1, Len(@))]
        /\ UNCHANGED <<net, sent, cut>>
    BY <1>0, <2>4, TakeLineReads
  <2>6. LinesAnnounce'
    BY <2>5, ReadLines DEF StoredInv
  <2>7. PICK k, len : k = line.key /\ len = line.len
    OBVIOUS
  <2>8. Announced(c, 0 + 1, k, len)
    <3>1. 1 \in DOMAIN Stream(c) /\ Stream(c)[1] = line
      <4>1. 1 \in 1..Len(inbuf[c])
        BY <2>1
      <4> QED
        BY <4>1, StreamFront
    <3> QED
      BY <2>2, <2>7, <3>1 DEF StoredInv, LinesAnnounce, IsSet
  <2>9. Announced(c, 0, k, len)'
    BY <2>3, <2>5, <2>7, <2>8, ReadAnnounced
  <2>10. /\ entry' = [entry EXCEPT ![c] = ResetKeyFor(entry[c], line.key, line.len)]
         /\ state' = [state EXCEPT ![c] = "kReceiveValue"]
    BY <1>2 DEF SetHandler
  <2>11. entry'[c].key = k /\ entry'[c].free = len
    <3>1. entry[c] \in Entries /\ entry'[c] = ResetKeyFor(entry[c], line.key, line.len)
      BY <2>10 DEF IInv
    <3> HIDE DEF line
    <3> QED
      BY <2>7, <3>1 DEF ResetKeyFor, Entries
  <2>12. ValueIsNext'
    <3> SUFFICES ASSUME NEW d \in Clients, state'[d] = "kReceiveValue"
                 PROVE  Announced(d, 0, entry[d].key, entry[d].free)'
      BY DEF ValueIsNext
    <3>1. CASE d = c
      BY <2>9, <2>11, <3>1
    <3>2. CASE d # c
      <4>1. entry'[d] = entry[d] /\ state'[d] = state[d]
        BY <2>10, <3>2 DEF IInv
      <4>2. PICK kd, ld : kd = entry[d].key /\ ld = entry[d].free
        OBVIOUS
      <4>3. Announced(d, 0, kd, ld)
        BY <4>1, <4>2 DEF StoredInv, ValueIsNext
      <4>4. Announced(d, 0, kd, ld)'
        BY <2>5, <3>2, <4>3, ReadAnnounced
      <4> QED
        BY <4>1, <4>2, <4>4
    <3> QED
      BY <3>1, <3>2
  <2>13. StoredWasSent'
    BY <1>0, <2>5, TableStored
  <2> QED
    BY <1>0, <2>5, <2>6, <2>12, <2>13 DEF StoredInv
<1> QED
  BY <1>1, <1>2

\* What a conversation stores is what is there of the value it waits for.
LEMMA ReceiveStored ==
  ASSUME IInv, StoredInv, NEW c \in Clients, ReceiveValue(c)
  PROVE  StoredInv'
<1> DEFINE n == ValueBytes(c)
           a == inbuf[c]
           e == entry[c]
           x == SubSeq(a, 1, n)
<1>1. /\ state[c] = "kReceiveValue" /\ a # <<>>
      /\ inbuf' = [inbuf EXCEPT ![c] = SubSeq(a, n + 1, Len(a))]
      /\ table' = [table EXCEPT ![AppendTo(e, x).key] = AppendTo(e, x).value]
      /\ entry' = [entry EXCEPT ![c] = ResetEntry(AppendTo(e, x))]
      /\ state' = [state EXCEPT ![c] = "kNewCommand"]
      /\ UNCHANGED <<net, sent, cut>>
  BY DEF ReceiveValue, TableSet
<1>2. /\ a \in Seq(Elements) /\ net[c] \in Seq(Elements)
      /\ e \in Entries /\ e.free \in Nat /\ e.key \in Keys /\ e.value = <<>>
  BY <1>1 DEF IInv, Entries
<1>3. /\ n \in 0..Len(a) /\ n = (IF Len(a) < e.free THEN Len(a) ELSE e.free)
      /\ Len(a) \in Nat \ {0}
  BY <1>1, <1>2 DEF ValueBytes
<1> HIDE DEF n
<1>4. /\ x \in Seq(Elements) /\ Len(x) = n
      /\ \A j \in 1..n : x[j] = a[j]
  BY <1>2, <1>3
<1>5. AppendTo(e, x).key = e.key /\ AppendTo(e, x).value = x
  <2> DEFINE v == e.value \o x
             f == e.free - Len(x)
  <2>1. v = x
    BY <1>2, <1>4
  <2>2. AppendTo(e, x) = [e EXCEPT !.value = v, !.free = f]
    BY Zenon DEF AppendTo
  <2> HIDE DEF v, f, e, x
  <2> QED
    BY <1>2, <2>1, <2>2 DEF Entries
<1>6. table' = [table EXCEPT ![e.key] = x]
  BY <1>1, <1>5
<1>7. LinesAnnounce'
  BY <1>1, <1>3, ReadLines DEF StoredInv, a
<1>8. ValueIsNext'
  <2> SUFFICES ASSUME NEW d \in Clients, state'[d] = "kReceiveValue"
               PROVE  Announced(d, 0, entry[d].key, entry[d].free)'
    BY DEF ValueIsNext
  <2>1. /\ d \in Clients \ {c}
        /\ entry'[d] = entry[d] /\ state'[d] = state[d]
    BY <1>1 DEF IInv
  <2>2. PICK k, len : k = entry[d].key /\ len = entry[d].free
    OBVIOUS
  <2>3. Announced(d, 0, k, len)
    BY <2>1, <2>2 DEF StoredInv, ValueIsNext
  <2>4. Announced(d, 0, k, len)'
    BY <1>1, <1>3, <2>1, <2>3, ReadAnnounced DEF a
  <2> QED
    BY <2>1, <2>2, <2>4
<1>9. Announced(c, 0, e.key, e.free)
  BY <1>1 DEF StoredInv, ValueIsNext
<1>10. PICK v \in ValuesSent(e.key) :
         /\ Len(v) = e.free /\ 0 + e.free <= Len(Stream(c))
         /\ \A j \in 1..e.free : Stream(c)[0 + j] = v[j]
  BY <1>9 DEF Announced, ValueAt
<1>11. v \in Seq(Bytes) /\ v # <<>>
  BY ValuesAssumption DEF ValuesSent
<1>12. x = SubSeq(v, 1, n) /\ n \in 1..Len(v)
  <2>1. n \in 1..Len(v) /\ n <= e.free
    BY <1>2, <1>3, <1>10, <1>11
  <2>2. ASSUME NEW j \in 1..n PROVE x[j] = v[j]
    <3>1. j \in 1..Len(a) /\ j \in 1..e.free /\ 0 + j = j
      BY <1>2, <1>3, <2>1
    <3>2. Stream(c)[j] = a[j]
      BY <3>1, StreamFront
    <3>3. Stream(c)[j] = v[j]
      BY <1>10, <3>1
    <3> QED
      BY <1>4, <3>2, <3>3
  <2>3. SubSeq(v, 1, n) = [j \in 1..n |-> v[j]]
    BY <1>11, <2>1
  <2>4. x = [j \in 1..n |-> x[j]]
    BY <1>4
  <2> QED
    BY <2>1, <2>2, <2>3, <2>4
<1>13. cut = {} => x = v
  <2> SUFFICES ASSUME cut = {} PROVE x = v
    OBVIOUS
  <2>1. NotWithin(Len(a), 0, e.free)
    BY <1>9 DEF Announced
  <2>2. n = Len(v)
    BY <1>2, <1>3, <1>10, <2>1 DEF NotWithin
  <2>3. SubSeq(v, 1, Len(v)) = v
    BY <1>11
  <2> QED
    BY <1>12, <2>2, <2>3
<1>14. \A k : ValuesSent(k)' = ValuesSent(k)
  BY <1>1 DEF ValuesSent
<1>15. StoredWasSent'
  <2> SUFFICES ASSUME NEW k \in Keys, table'[k] # None
               PROVE  \E w \in ValuesSent(k) :
                        /\ \E m \in 1..Len(w) : table'[k] = SubSeq(w, 1, m)
                        /\ cut = {} => table'[k] = w
    BY <1>1, <1>14 DEF StoredWasSent
  <2>0. table \in [Keys -> Seq(Elements) \cup {None}]
    BY DEF StoredInv
  <2>1. CASE k = e.key
    BY <1>6, <1>12, <1>13, <2>0, <2>1
  <2>2. CASE k # e.key
    <3>1. table'[k] = table[k]
      BY <1>6, <2>0, <2>2
    <3> QED
      BY <3>1 DEF StoredInv, StoredWasSent
  <2> QED
    BY <2>1, <2>2
<1>16. table' \in [Keys -> Seq(Elements) \cup {None}]
  BY <1>2, <1>4, <1>6 DEF StoredInv
<1> QED
  BY <1>1, <1>7, <1>8, <1>15, <1>16 DEF StoredInv

\* Every step keeps what is stored as it was sent.
LEMMA StepStored == IInv /\ StoredInv /\ [Next]_vars => StoredInv'
<1> SUFFICES ASSUME IInv, StoredInv, [Next]_vars PROVE StoredInv'
  OBVIOUS
<1>1. ASSUME NEW c \in Clients, GetHandler(c)
      PROVE  StoredInv'
  <2>1. TakeLine(c) /\ UNCHANGED <<state, table>>
    BY <1>1 DEF GetHandler
  <2>2. \A d \in Clients \ {c} : entry'[d] = entry[d]
    BY <1>1 DEF GetHandler, IInv
  <2> QED
    BY <2>1, <2>2, LineStored
<1>2. ASSUME NEW c \in Clients, OtherLine(c)
      PROVE  StoredInv'
  BY <1>2, LineStored DEF OtherLine, conversations
<1>3. CASE UNCHANGED <<net, inbuf, state, entry, table, sent, cut>>
  <2>1. \A k : ValuesSent(k)' = ValuesSent(k)
    BY <1>3 DEF ValuesSent
  <2>2. \A c : Stream(c)' = Stream(c)
    BY <1>3 DEF Stream
  <2>3. \A c, i, k, len : Announced(c, i, k, len)' <=> Announced(c, i, k, len)
    BY <1>3, <2>1, <2>2 DEF Announced
  <2>4. LinesAnnounce'
    <3> SUFFICES ASSUME NEW d \in Clients, NEW i \in DOMAIN Stream(d)',
                        IsSet(Stream(d)'[i])
                 PROVE  Announced(d, i, Stream(d)[i].key, Stream(d)[i].len)'
      BY DEF LinesAnnounce
    <3>1. PICK k, len : k = Stream(d)[i].key /\ len = Stream(d)[i].len
      OBVIOUS
    <3>2. Announced(d, i, k, len)
      BY <2>2, <3>1 DEF StoredInv, LinesAnnounce
    <3> QED
      BY <2>2, <2>3, <3>1, <3>2
  <2>5. ValueIsNext'
    <3> SUFFICES ASSUME NEW d \in Clients, state'[d] = "kReceiveValue"
                 PROVE  Announced(d, 0, entry[d].key, entry[d].free)'
      BY DEF ValueIsNext
    <3>1. PICK k, len : k = entry[d].key /\ len = entry[d].free
      OBVIOUS
    <3>2. Announced(d, 0, k, len)
      BY <1>3, <3>1 DEF StoredInv, ValueIsNext
    <3> QED
      BY <1>3, <2>3, <3>1, <3>2
  <2>6. StoredWasSent'
    BY <1>3, TableStored
  <2> QED
    BY <1>3, <2>4, <2>5, <2>6 DEF StoredInv
<1>4. ASSUME NEW c \in Clients, Return(c)
      PROVE  StoredInv'
  BY <1>3, <1>4 DEF Return, conversations
<1>5. CASE UNCHANGED vars
  BY <1>3, <1>5 DEF vars, conversations
<1> QED
  BY <1>1, <1>2, <1>4, <1>5, SendStored, ArriveStored, FinishStored, SetStored,
     ReceiveStored DEF Next, msgCb

\* Whatever is sent and however it is cut, what is stored under a key is a
\* value that was sent for it, or its beginning if values were cut.
THEOREM StoredValues == Spec => []StoredWasSent
<1>1. Init => IInv
  BY FirstFits DEF Init, IInv, Fits, Total
<1>2. Init => StoredInv
  <2> SUFFICES ASSUME Init PROVE StoredInv
    OBVIOUS
  <2>1. \A c \in Clients : DOMAIN Stream(c) = {} /\ state[c] = "kNewCommand"
    BY DEF Init, Stream
  <2>2. LinesAnnounce /\ ValueIsNext
    BY <2>1 DEF LinesAnnounce, ValueIsNext
  <2>3. StoredWasSent
    BY DEF Init, StoredWasSent
  <2> QED
    BY <2>2, <2>3 DEF Init, StoredInv
<1>3. StoredInv => StoredWasSent
  BY DEF StoredInv
<1> QED
  BY <1>1, <1>2, <1>3, StepFits, StepStored, PTL DEF Spec

=============================================================================
