------------------------- MODULE TcpConnectionProofs -------------------------
(***************************************************************************)
(* Proofs about TcpConnection.tla and the buffers of a connection,         *)
(* Buffer.tla: for any messages, any cuts and any socket, the bytes of a   *)
(* connection arrive whole and in order, in both directions; and every     *)
(* operation of a buffer keeps its indices in order and does to the        *)
(* readable bytes what ByteString.tla says.                                *)
(***************************************************************************)
EXTENDS TcpConnection, Buffer, SequenceTheorems, TLAPS

-----------------------------------------------------------------------------
(* The connection.                                                         *)

In == Range(Inbound)

\* The string w is a, b and c in a row.
InRow(w, a, b, c) == w = (a \o b) \o c

\* The life of the connection, and what its event asks for.
LifeInv ==
  /\ state \in {"kDisconnected", "kConnected"}
  /\ life \in {"new", "established", "closed", "destroyed"}
  /\ life = "established" <=> state = "kConnected"
  /\ reading \in BOOLEAN /\ writing \in BOOLEAN
  /\ reading <=> state = "kConnected"
  /\ writing => state = "kConnected"
  /\ handle \in {"idle", "polled", "message", "write"}
  /\ revents \subseteq {"POLLIN", "POLLOUT", "POLLERR", "POLLHUP"}
  /\ peer \in {"open", "closed", "reset"} /\ error \in BOOLEAN

OutTypes ==
  /\ output \in Seq(Bytes) /\ socket \in Seq(Bytes)
  /\ received \in Seq(Bytes) /\ accepted \in Seq(Bytes)
  /\ Len(socket) <= Room

OutOrder == peer # "reset" => InRow(accepted, received, socket, output)

InTypes ==
  /\ offered \in 0..Len(Inbound) /\ incoming \in Seq(In)
  /\ input \in Seq(In) /\ taken \in Seq(In)

InOrder ==
  peer # "reset" => InRow(Prefix(Inbound, offered), taken, input, incoming)

\* Nothing waits to be written before the connection is established.
StartInv == life = "new" => output = <<>>

\* What poll saw is still there, or the peer is gone; so a connection that
\* reads nothing and is closed has no more to read, now and later.
EndInv ==
  /\ handle = "polled" /\ "POLLIN" \in revents =>
       incoming # <<>> \/ peer # "open"
  /\ life = "closed" => incoming = <<>> /\ peer # "open"

CallInv ==
  /\ functors \in Seq(Messages)
  /\ call \in [Others -> Messages \cup {<<>>}]
  /\ sends \in 0..MaxSends

IInv == /\ LifeInv /\ OutTypes /\ OutOrder /\ WritingWhileOutput
        /\ InTypes /\ InOrder /\ StartInv /\ EndInv /\ CallInv

-----------------------------------------------------------------------------
(* Sequences.                                                              *)

\* A string that is cut in two is the two parts in a row.
LEMMA CutCorrect ==
  ASSUME NEW S, NEW s \in Seq(S), NEW n \in 0..Len(s)
  PROVE  /\ Prefix(s, n) \in Seq(S) /\ Rest(s, n) \in Seq(S)
         /\ Len(Prefix(s, n)) = n /\ Len(Rest(s, n)) = Len(s) - n
         /\ Prefix(s, n) \o Rest(s, n) = s
<1>1. Len(s) \in Nat /\ \A i \in 1..Len(s) : s[i] \in S
  BY LenProperties, ElementOfSeq
<1>2. Prefix(s, n) \in Seq(S) /\ Len(Prefix(s, n)) = n
  BY <1>1, SubSeqProperties DEF Prefix
<1>3. Rest(s, n) \in Seq(S) /\ Len(Rest(s, n)) = Len(s) - n
  BY <1>1, SubSeqProperties DEF Rest
<1>4. SubSeq(s, 1, n) \o SubSeq(s, n + 1, Len(s)) = SubSeq(s, 1, Len(s))
  <2>1. /\ 1 \in 1..Len(s) + 1 /\ n \in 1 - 1..Len(s)
        /\ Len(s) \in n..Len(s)
    BY <1>1
  <2> QED
    BY <2>1, ConcatAdjacentSubSeq, Zenon
<1> QED
  BY <1>2, <1>3, <1>4, SubSeqFull DEF Prefix, Rest

\* Nothing is left exactly when everything was taken.
LEMMA RestEmpty ==
  ASSUME NEW S, NEW s \in Seq(S), NEW n \in 0..Len(s)
  PROVE  Rest(s, n) # <<>> <=> n < Len(s)
<1>1. Rest(s, n) \in Seq(S) /\ Len(Rest(s, n)) = Len(s) - n /\ Len(s) \in Nat
  BY CutCorrect, LenProperties
<1> QED
  BY <1>1, EmptySeq

Regrouped(a, b, c) == (a \o b) \o c = a \o (b \o c)

LEMMA Regroup ==
  ASSUME NEW S, NEW a \in Seq(S), NEW b \in Seq(S), NEW c \in Seq(S)
  PROVE  Regrouped(a, b, c)
BY ConcatAssociative DEF Regrouped

\* The first part of the third string goes to the second one.
LEMMA MoveToSecond ==
  ASSUME NEW S, NEW w, NEW a \in Seq(S), NEW b \in Seq(S),
         NEW p \in Seq(S), NEW r \in Seq(S), InRow(w, a, b, p \o r)
  PROVE  InRow(w, a, b \o p, r)
<1>1. a \o b \in Seq(S)
  BY ConcatProperties, Zenon
<1>2. Regrouped(a \o b, p, r) /\ Regrouped(a, b, p)
  BY <1>1, Regroup, Zenon
<1> QED
  BY <1>2 DEF InRow, Regrouped

\* The first part of the second string goes to the first one.
LEMMA MoveToFirst ==
  ASSUME NEW S, NEW w, NEW a \in Seq(S), NEW p \in Seq(S),
         NEW r \in Seq(S), NEW c \in Seq(S), InRow(w, a, p \o r, c)
  PROVE  InRow(w, a \o p, r, c)
<1>1. Regrouped(a, p, r)
  BY Regroup, Zenon
<1> QED
  BY <1>1 DEF InRow, Regrouped

\* What is added to the whole comes last.
LEMMA AddToThird ==
  ASSUME NEW S, NEW w, NEW a \in Seq(S), NEW b \in Seq(S),
         NEW c \in Seq(S), NEW m \in Seq(S), InRow(w, a, b, c)
  PROVE  InRow(w \o m, a, b, c \o m)
<1>1. a \o b \in Seq(S)
  BY ConcatProperties, Zenon
<1>2. Regrouped(a \o b, c, m)
  BY <1>1, Regroup, Zenon
<1> QED
  BY <1>2 DEF InRow, Regrouped

\* So it is for a string that is cut after n bytes.
LEMMA CutThird ==
  ASSUME NEW S, NEW w, NEW a \in Seq(S), NEW b \in Seq(S),
         NEW c \in Seq(S), NEW n \in 0..Len(c), InRow(w, a, b, c)
  PROVE  InRow(w, a, b \o Prefix(c, n), Rest(c, n))
<1>1. /\ Prefix(c, n) \in Seq(S) /\ Rest(c, n) \in Seq(S)
      /\ Prefix(c, n) \o Rest(c, n) = c
  BY CutCorrect
<1>2. InRow(w, a, b, Prefix(c, n) \o Rest(c, n))
  BY <1>1, Zenon
<1> QED
  BY <1>1, <1>2, MoveToSecond, Zenon

LEMMA CutSecond ==
  ASSUME NEW S, NEW w, NEW a \in Seq(S), NEW b \in Seq(S),
         NEW c \in Seq(S), NEW n \in 0..Len(b), InRow(w, a, b, c)
  PROVE  InRow(w, a \o Prefix(b, n), Rest(b, n), c)
<1>1. /\ Prefix(b, n) \in Seq(S) /\ Rest(b, n) \in Seq(S)
      /\ Prefix(b, n) \o Rest(b, n) = b
  BY CutCorrect
<1>2. InRow(w, a, Prefix(b, n) \o Rest(b, n), c)
  BY <1>1, Zenon
<1> QED
  BY <1>1, <1>2, MoveToFirst, Zenon

\* A message is a string of bytes.
LEMMA MessageType == Messages \subseteq Seq(Bytes) \ {<<>>}
<1> SUFFICES ASSUME NEW m \in Messages PROVE m \in Seq(Bytes) /\ m # <<>>
  OBVIOUS
<1>1. m \in Seq(Range(m)) /\ m # <<>>
  BY MessagesAssumption
<1>2. Range(m) \subseteq Bytes
  BY DEF Bytes
<1> QED
  BY <1>1, <1>2, SeqMonotonic

-----------------------------------------------------------------------------
(* Sending and reading.                                                    *)

\* A send leaves the bytes in order and the write event right, and is
\* without effect on a connection that is closed.
LEMMA SendCorrect ==
  ASSUME LifeInv, OutTypes, OutOrder, WritingWhileOutput,
         NEW m \in Messages, sendInReactor(m),
         UNCHANGED <<received, peer, state>>
  PROVE  /\ OutTypes' /\ OutOrder' /\ WritingWhileOutput'
         /\ writing' \in BOOLEAN /\ error' \in BOOLEAN
         /\ writing' => state = "kConnected"
         /\ state = "kDisconnected" => UNCHANGED <<socket, output>>
<1>0. m \in Seq(Bytes) /\ m # <<>> /\ Len(m) \in Nat \ {0}
  <2>1. m \in Seq(Bytes) /\ m # <<>>
    BY MessageType
  <2> QED
    BY <2>1, EmptySeq
<1>1. CASE state = "kDisconnected" /\ UNCHANGED <<writing, output, socket, accepted, error>>
  BY <1>1 DEF LifeInv, OutTypes, OutOrder, WritingWhileOutput
<1>2. CASE state = "kConnected" /\ ~writing /\ output = <<>> /\ WriteNow(m)
  <2>1. CASE WriteFails /\ UNCHANGED <<writing, output, socket, accepted>>
    BY <1>2, <2>1 DEF WriteFails, LifeInv, OutTypes, OutOrder, WritingWhileOutput
  <2>2. ASSUME NEW n \in 0..Len(m), Takes(m, n),
               socket' = socket \o Prefix(m, n),
               output' = output \o Rest(m, n),
               writing' = (writing \/ n < Len(m)),
               accepted' = accepted \o m, UNCHANGED error
        PROVE  /\ OutTypes' /\ OutOrder' /\ WritingWhileOutput'
               /\ writing' \in BOOLEAN /\ error' \in BOOLEAN
    <3>1. /\ Prefix(m, n) \in Seq(Bytes) /\ Rest(m, n) \in Seq(Bytes)
          /\ Len(Prefix(m, n)) = n
      BY <1>0, CutCorrect
    <3>2. output' = Rest(m, n)
      BY <1>2, <2>2, <3>1, ConcatEmptySeq
    <3>3. /\ socket' \in Seq(Bytes) /\ Len(socket') = Len(socket) + n
          /\ accepted' \in Seq(Bytes)
      BY <1>0, <2>2, <3>1, ConcatProperties DEF OutTypes
    <3>4. Len(socket') <= Room
      <4>1. Len(socket) \in Nat /\ n \in Nat /\ n <= Room - Len(socket)
        BY <1>0, <2>2, LenProperties DEF OutTypes, Takes
      <4> QED
        BY <3>3, <4>1, BoundsAssumption
    <3>5. OutTypes'
      BY <3>1, <3>2, <3>3, <3>4 DEF OutTypes
    <3>6. OutOrder'
      <4> SUFFICES ASSUME peer # "reset"
                   PROVE  InRow(accepted', received, socket', output')
        BY DEF OutOrder
      <4>1. InRow(accepted \o m, received, socket, <<>> \o m)
        <5>1. InRow(accepted, received, socket, <<>>) /\ <<>> \in Seq(Bytes)
          BY <1>2 DEF OutOrder
        <5> QED
          BY <1>0, <5>1, AddToThird, Zenon DEF OutTypes
      <4>2. <<>> \o m = m
        BY <1>0, ConcatEmptySeq
      <4>3. InRow(accepted \o m, received, socket, m)
        BY <4>1, <4>2, Zenon
      <4>4. InRow(accepted \o m, received, socket \o Prefix(m, n), Rest(m, n))
        BY <1>0, <4>3, CutThird, Zenon DEF OutTypes
      <4> QED
        BY <2>2, <3>2, <4>4, Zenon
    <3>7. WritingWhileOutput'
      <4>1. Rest(m, n) # <<>> <=> n < Len(m)
        BY <1>0, RestEmpty
      <4> QED
        BY <1>2, <2>2, <3>2, <4>1 DEF WritingWhileOutput
    <3> QED
      BY <1>2, <2>2, <3>5, <3>6, <3>7 DEF LifeInv
  <2> QED
    BY <1>2, <2>1, <2>2 DEF WriteNow
<1>3. CASE state = "kConnected" /\ WriteLater(m)
  <2>1. /\ output' = output \o m /\ writing' = TRUE
        /\ accepted' = accepted \o m /\ UNCHANGED <<socket, error>>
    BY <1>3 DEF WriteLater
  <2>2. /\ output' \in Seq(Bytes) /\ accepted' \in Seq(Bytes)
        /\ Len(output') = Len(output) + Len(m) /\ Len(output) \in Nat
    BY <1>0, <2>1, ConcatProperties, LenProperties DEF OutTypes
  <2>3. OutTypes' /\ WritingWhileOutput' /\ output' # <<>>
    BY <1>0, <1>3, <2>1, <2>2, EmptySeq DEF OutTypes, WritingWhileOutput
  <2>4. OutOrder'
    <3> SUFFICES ASSUME peer # "reset"
                 PROVE  InRow(accepted \o m, received, socket, output \o m)
      BY <2>1 DEF OutOrder
    <3>1. InRow(accepted, received, socket, output)
      BY DEF OutOrder
    <3> QED
      BY <1>0, <3>1, AddToThird, Zenon DEF OutTypes
  <2> QED
    BY <1>3, <2>1, <2>3, <2>4 DEF LifeInv
<1> QED
  BY <1>1, <1>2, <1>3 DEF sendInReactor, LifeInv

\* The bytes the socket takes from outputBuffer_ are its next ones, and the
\* write event goes with the last of them.
LEMMA WriteOutputCorrect ==
  ASSUME LifeInv, OutTypes, OutOrder, state = "kConnected", WriteOutput,
         UNCHANGED <<received, accepted, peer, state>>
  PROVE  /\ OutTypes' /\ OutOrder' /\ WritingWhileOutput'
         /\ writing' \in BOOLEAN
<1>1. PICK n \in 1..Len(output) :
        /\ Takes(output, n)
        /\ socket' = socket \o Prefix(output, n)
        /\ output' = Rest(output, n)
        /\ writing' = (n < Len(output))
  BY DEF WriteOutput
<1>2. n \in 0..Len(output) /\ n \in Nat
  BY LenProperties DEF OutTypes
<1>3. /\ Prefix(output, n) \in Seq(Bytes) /\ Rest(output, n) \in Seq(Bytes)
      /\ Len(Prefix(output, n)) = n
  BY <1>2, CutCorrect DEF OutTypes
<1>4. socket' \in Seq(Bytes) /\ Len(socket') = Len(socket) + n
  BY <1>1, <1>3, ConcatProperties DEF OutTypes
<1>5. Len(socket') <= Room
  <2>1. Len(socket) \in Nat /\ n <= Room - Len(socket)
    BY <1>1, LenProperties DEF OutTypes, Takes
  <2> QED
    BY <1>2, <1>4, <2>1, BoundsAssumption
<1>6. OutOrder'
  <2> SUFFICES ASSUME peer # "reset"
               PROVE  InRow(accepted, received, socket', output')
    BY DEF OutOrder
  <2>1. InRow(accepted, received, socket, output)
    BY DEF OutOrder
  <2>2. InRow(accepted, received, socket \o Prefix(output, n), Rest(output, n))
    BY <1>2, <2>1, CutThird, Zenon DEF OutTypes
  <2> QED
    BY <1>1, <2>2
<1>7. WritingWhileOutput'
  <2>1. Rest(output, n) # <<>> <=> n < Len(output)
    BY <1>2, RestEmpty DEF OutTypes
  <2> QED
    BY <1>1, <2>1 DEF WritingWhileOutput
<1> QED
  BY <1>1, <1>3, <1>4, <1>5, <1>6, <1>7 DEF OutTypes

\* The peer reads the socket's first bytes.
LEMMA PeerReadsCorrect ==
  ASSUME OutTypes, OutOrder, PeerReads
  PROVE  OutTypes' /\ OutOrder' /\ Len(socket') <= Len(socket)
<1>1. PICK n \in 1..Len(socket) : /\ received' = received \o Prefix(socket, n)
                                  /\ socket' = Rest(socket, n)
  BY DEF PeerReads
<1>2. n \in 0..Len(socket) /\ n \in Nat /\ Len(socket) \in Nat
  BY LenProperties DEF OutTypes
<1>3. /\ Prefix(socket, n) \in Seq(Bytes) /\ Rest(socket, n) \in Seq(Bytes)
      /\ Len(Rest(socket, n)) = Len(socket) - n
  BY <1>2, CutCorrect DEF OutTypes
<1>4. received' \in Seq(Bytes)
  BY <1>1, <1>3, ConcatProperties DEF OutTypes
<1>5. InRow(accepted, received, socket, output) =>
        InRow(accepted, received \o Prefix(socket, n), Rest(socket, n), output)
  BY <1>2, CutSecond, Zenon DEF OutTypes
<1>6. UNCHANGED <<output, accepted, peer>>
  BY DEF PeerReads
<1>7. Len(socket') <= Len(socket) /\ Len(socket') <= Room
  BY <1>1, <1>2, <1>3, BoundsAssumption DEF OutTypes
<1> QED
  BY <1>1, <1>3, <1>4, <1>5, <1>6, <1>7 DEF OutTypes, OutOrder

\* A read takes the first bytes that have come.
LEMMA ReadCorrect ==
  ASSUME InTypes, InOrder, NEW n \in 1..Len(incoming),
         input' = input \o Prefix(incoming, n),
         incoming' = Rest(incoming, n), UNCHANGED <<offered, taken, peer>>
  PROVE  InTypes' /\ InOrder'
<1>1. n \in 0..Len(incoming)
  BY LenProperties DEF InTypes
<1>2. Prefix(incoming, n) \in Seq(In) /\ Rest(incoming, n) \in Seq(In)
  BY <1>1, CutCorrect DEF InTypes
<1>3. input' \in Seq(In)
  BY <1>2, ConcatProperties DEF InTypes
<1>4. ASSUME NEW w, InRow(w, taken, input, incoming)
      PROVE  InRow(w, taken, input \o Prefix(incoming, n), Rest(incoming, n))
  BY <1>1, <1>4, CutThird, Zenon DEF InTypes
<1> QED
  BY <1>2, <1>3, <1>4 DEF InTypes, InOrder

\* msgCb_ takes the first bytes of inputBuffer_.
LEMMA TakenCorrect ==
  ASSUME InTypes, InOrder, MessageTaken
  PROVE  InTypes' /\ InOrder'
<1>1. PICK n \in 0..Len(input) : /\ taken' = taken \o Prefix(input, n)
                                 /\ input' = Rest(input, n)
  BY DEF MessageTaken
<1>2. Prefix(input, n) \in Seq(In) /\ Rest(input, n) \in Seq(In)
  BY CutCorrect DEF InTypes
<1>3. taken' \in Seq(In)
  BY <1>1, <1>2, ConcatProperties DEF InTypes
<1>4. ASSUME NEW w, InRow(w, taken, input, incoming)
      PROVE  InRow(w, taken \o Prefix(input, n), Rest(input, n), incoming)
  BY <1>4, CutSecond, Zenon DEF InTypes
<1>5. UNCHANGED <<offered, incoming, peer>>
  BY DEF MessageTaken
<1> QED
  BY <1>1, <1>2, <1>3, <1>4, <1>5 DEF InTypes, InOrder

\* The peer's next byte comes last.
LEMMA PeerSendsCorrect ==
  ASSUME InTypes, InOrder, PeerSends
  PROVE  InTypes' /\ InOrder' /\ incoming' # <<>>
<1> DEFINE x == Inbound[offered + 1]
<1>1. /\ peer = "open" /\ offered < Len(Inbound) /\ offered' = offered + 1
      /\ incoming' = Append(incoming, x) /\ UNCHANGED <<input, taken, peer>>
  BY DEF PeerSends
<1>2. Inbound \in Seq(In) /\ Len(Inbound) \in Nat
  BY BoundsAssumption, LenProperties DEF In
<1>3. offered \in Nat /\ offered + 1 \in 1..Len(Inbound)
  BY <1>1, <1>2 DEF InTypes
<1>4. x \in In
  BY <1>2, <1>3, ElementOfSeq
<1>5. incoming' \in Seq(In) /\ incoming' # <<>> /\ incoming' = incoming \o <<x>>
  BY <1>1, <1>4, AppendProperties, AppendIsConcat DEF InTypes
<1>6. Prefix(Inbound, offered + 1) = Prefix(Inbound, offered) \o <<x>>
  <2>1. SubSeq(Inbound, 1, offered + 1)
          = SubSeq(Inbound, 1, offered + 1 - 1) \o <<x>>
    <3>1. 1 \in 1..Len(Inbound) /\ offered + 1 \in 1..(Len(Inbound))
      BY <1>2, <1>3
    <3> QED
      BY <1>2, <1>3, <3>1, SubSeqRecursiveSecond
  <2>2. offered + 1 - 1 = offered
    BY <1>3
  <2> QED
    BY <2>1, <2>2 DEF Prefix
<1>7. InRow(Prefix(Inbound, offered), taken, input, incoming) =>
        InRow(Prefix(Inbound, offered) \o <<x>>, taken, input, incoming \o <<x>>)
  <2>1. <<x>> \in Seq(In)
    BY <1>4
  <2> QED
    BY <2>1, AddToThird, Zenon DEF InTypes
<1>8. InTypes'
  BY <1>1, <1>2, <1>3, <1>5 DEF InTypes
<1> HIDE DEF x
<1>9. InOrder'
  BY <1>1, <1>5, <1>6, <1>7 DEF InOrder
<1> QED
  BY <1>5, <1>8, <1>9

-----------------------------------------------------------------------------
(* The steps.                                                              *)

LEMMA InitInv == Init => IInv
<1> SUFFICES ASSUME Init PROVE IInv
  OBVIOUS
<1>1. /\ OutTypes /\ InTypes
  BY BoundsAssumption, LenProperties DEF Init, OutTypes, InTypes
<1>2. OutOrder
  BY DEF Init, OutOrder, InRow
<1>3. InOrder
  <2>1. Prefix(Inbound, 0) = <<>>
    BY SubSeqEmpty DEF Prefix
  <2> QED
    BY <2>1 DEF Init, InOrder, InRow
<1>4. LifeInv /\ WritingWhileOutput /\ StartInv /\ EndInv
  BY DEF Init, LifeInv, WritingWhileOutput, StartInv, EndInv
<1>5. CallInv
  BY BoundsAssumption DEF Init, CallInv
<1> QED
  BY <1>1, <1>2, <1>3, <1>4, <1>5 DEF IInv

\* What is left alone stays right.
LEMMA OutUnchanged ==
  OutTypes /\ OutOrder /\ UNCHANGED outVars /\ (peer' = "reset" \/ peer # "reset")
    => OutTypes' /\ OutOrder'
BY DEF OutTypes, OutOrder, outVars

LEMMA InUnchanged ==
  InTypes /\ InOrder /\ UNCHANGED inVars /\ (peer' = "reset" \/ peer # "reset")
    => InTypes' /\ InOrder'
BY DEF InTypes, InOrder, inVars

LEMMA CallsUnchanged == CallInv /\ UNCHANGED callVars => CallInv'
BY DEF CallInv, callVars

\* After the read callback the loop goes on to write, or is done.
LEMMA ToWriteType ==
  ASSUME LifeInv, ToWrite
  PROVE  /\ handle' \in {"idle", "write"}
         /\ revents' \subseteq {"POLLIN", "POLLOUT", "POLLERR", "POLLHUP"}
BY DEF LifeInv, ToWrite

LEMMA SendStep ==
  ASSUME IInv, NEW m \in Messages, sendInReactor(m), CallInv',
         UNCHANGED <<state, life, reading, handleVars, received, inVars, peer>>
  PROVE  IInv'
<1>1. /\ OutTypes' /\ OutOrder' /\ WritingWhileOutput'
      /\ writing' \in BOOLEAN /\ error' \in BOOLEAN
      /\ writing' => state = "kConnected"
      /\ state = "kDisconnected" => UNCHANGED <<socket, output>>
  BY SendCorrect DEF IInv
<1>2. LifeInv' /\ StartInv'
  BY <1>1 DEF IInv, LifeInv, StartInv, handleVars
<1>3. InTypes' /\ InOrder'
  BY InUnchanged DEF IInv
<1>4. EndInv'
  BY DEF IInv, EndInv, handleVars, inVars
<1> QED
  BY <1>1, <1>2, <1>3, <1>4 DEF IInv

LEMMA ReadStep == IInv /\ handleRead => IInv'
<1> SUFFICES ASSUME IInv, handleRead PROVE IInv'
  OBVIOUS
<1>1. /\ handle = "polled" /\ "POLLIN" \in revents
      /\ UNCHANGED <<outVars, callVars, peer>>
  BY DEF handleRead
<1>2. OutTypes' /\ OutOrder' /\ CallInv'
  BY <1>1, OutUnchanged, CallsUnchanged DEF IInv
<1>3. CASE ~ReadEnds
  <2>1. PICK n \in 1..Len(incoming) : /\ input' = input \o Prefix(incoming, n)
                                       /\ incoming' = Rest(incoming, n)
    BY <1>3 DEF handleRead
  <2>2. /\ handle' = "message"
        /\ UNCHANGED <<eventVars, revents, offered, taken>>
        /\ error' \in BOOLEAN
    BY <1>3 DEF handleRead, handleError, IInv, LifeInv
  <2>3. InTypes' /\ InOrder'
    BY <1>1, <2>1, <2>2, ReadCorrect DEF IInv
  <2>4. LifeInv' /\ WritingWhileOutput' /\ StartInv'
    BY <1>1, <2>2 DEF IInv, LifeInv, WritingWhileOutput, StartInv, eventVars, outVars
  <2>5. EndInv'
    BY <1>1, <1>3, <2>2 DEF IInv, EndInv, ReadEnds, eventVars
  <2> QED
    BY <1>2, <2>3, <2>4, <2>5 DEF IInv
<1>4. CASE ReadEnds
  <2>1. /\ ToWrite /\ UNCHANGED inVars /\ error' = FALSE
        /\ handleClose \/ UNCHANGED eventVars
    BY <1>4 DEF handleRead, handleError
  <2>2. /\ handle' \in {"idle", "write"}
        /\ revents' \subseteq {"POLLIN", "POLLOUT", "POLLERR", "POLLHUP"}
    BY <2>1, ToWriteType DEF IInv
  <2>3. InTypes' /\ InOrder'
    BY <1>1, <2>1, InUnchanged DEF IInv
  <2>4. incoming' = <<>> /\ peer' # "open"
    BY <1>1, <1>4, <2>1 DEF IInv, EndInv, ReadEnds, inVars
  <2>5. CASE handleClose
    BY <1>1, <1>2, <2>1, <2>2, <2>3, <2>4, <2>5
       DEF handleClose, IInv, LifeInv, WritingWhileOutput, StartInv, EndInv
  <2>6. CASE UNCHANGED eventVars
    BY <1>1, <1>2, <2>1, <2>2, <2>3, <2>4, <2>6
       DEF eventVars, outVars, IInv, LifeInv, WritingWhileOutput, StartInv, EndInv
  <2> QED
    BY <2>1, <2>5, <2>6
<1> QED
  BY <1>3, <1>4

LEMMA WriteStep == IInv /\ handleWrite => IInv'
<1> SUFFICES ASSUME IInv, handleWrite PROVE IInv'
  OBVIOUS
<1>1. /\ handle' = "idle" /\ revents' = {}
      /\ UNCHANGED <<state, life, reading, received, accepted, inVars, callVars,
                     peer>>
  BY DEF handleWrite
<1>2. InTypes' /\ InOrder' /\ CallInv' /\ EndInv'
  BY <1>1, InUnchanged, CallsUnchanged DEF IInv, EndInv, inVars
<1>3. CASE writing /\ WriteOutput
  <2>1. state = "kConnected" /\ life = "established"
    BY <1>3 DEF IInv, LifeInv
  <2>2. /\ OutTypes' /\ OutOrder' /\ WritingWhileOutput'
        /\ writing' \in BOOLEAN
    BY <1>1, <1>3, <2>1, WriteOutputCorrect DEF IInv
  <2>3. UNCHANGED error
    BY <1>3 DEF WriteOutput
  <2>4. LifeInv' /\ StartInv'
    BY <1>1, <2>1, <2>2, <2>3 DEF IInv, LifeInv, StartInv
  <2> QED
    BY <1>2, <2>2, <2>4 DEF IInv
<1>4. CASE UNCHANGED <<writing, output, socket>> /\ error' \in BOOLEAN
  <2>1. OutTypes' /\ OutOrder'
    BY <1>1, <1>4, OutUnchanged DEF IInv, outVars
  <2>2. LifeInv' /\ WritingWhileOutput' /\ StartInv'
    BY <1>1, <1>4 DEF IInv, LifeInv, WritingWhileOutput, StartInv
  <2> QED
    BY <1>2, <2>1, <2>2 DEF IInv
<1> QED
  BY <1>3, <1>4 DEF handleWrite, IsWriting, WriteFails, IInv, LifeInv

\* Every step keeps the invariant.
LEMMA StepInv == IInv /\ [Next]_vars => IInv'
<1> SUFFICES ASSUME IInv, [Next]_vars PROVE IInv'
  OBVIOUS
<1>1. CASE connectEstablished
  <2>1. UNCHANGED <<writing, handleVars, outVars, inVars, error, callVars, peer>>
    BY <1>1 DEF connectEstablished
  <2>2. OutTypes' /\ OutOrder' /\ InTypes' /\ InOrder' /\ CallInv'
    BY <2>1, OutUnchanged, InUnchanged, CallsUnchanged DEF IInv
  <2>3. LifeInv' /\ WritingWhileOutput' /\ StartInv' /\ EndInv'
    BY <1>1, <2>1 DEF connectEstablished, handleVars, outVars, inVars, IInv,
         LifeInv, WritingWhileOutput, StartInv, EndInv
  <2> QED
    BY <2>2, <2>3 DEF IInv
<1>2. ASSUME NEW m \in Messages, Send(m)
      PROVE  IInv'
  <2>1. /\ sendInReactor(m)
        /\ UNCHANGED <<state, life, reading, handleVars, received, inVars, peer>>
    BY <1>2 DEF Send
  <2>2. CallInv'
    BY <1>2, BoundsAssumption DEF Send, IInv, CallInv
  <2> QED
    BY <2>1, <2>2, SendStep
<1>3. ASSUME NEW m \in Messages, NEW t \in Others, SendTest(t, m)
      PROVE  IInv'
  <2>1. UNCHANGED <<eventVars, handleVars, outVars, inVars, error, functors, peer>>
    BY <1>3 DEF SendTest
  <2>2. CallInv'
    BY <1>3, BoundsAssumption DEF SendTest, IInv, CallInv
  <2>3. OutTypes' /\ OutOrder' /\ InTypes' /\ InOrder'
    BY <2>1, OutUnchanged, InUnchanged DEF IInv
  <2> QED
    BY <2>1, <2>2, <2>3 DEF eventVars, handleVars, outVars, inVars, IInv,
         LifeInv, WritingWhileOutput, StartInv, EndInv
<1>4. ASSUME NEW t \in Others, SendQueue(t)
      PROVE  IInv'
  <2>1. UNCHANGED <<eventVars, handleVars, outVars, inVars, error, peer, sends>>
    BY <1>4 DEF SendQueue
  <2>2. CallInv'
    <3>1. call[t] \in Messages
      BY <1>4 DEF SendQueue, IInv, CallInv
    <3>2. functors' \in Seq(Messages)
      BY <1>4, <3>1, AppendProperties DEF SendQueue, IInv, CallInv
    <3> QED
      BY <1>4, <2>1, <3>2 DEF SendQueue, IInv, CallInv
  <2>3. OutTypes' /\ OutOrder' /\ InTypes' /\ InOrder'
    BY <2>1, OutUnchanged, InUnchanged DEF IInv
  <2> QED
    BY <2>1, <2>2, <2>3 DEF eventVars, handleVars, outVars, inVars, IInv,
         LifeInv, WritingWhileOutput, StartInv, EndInv
<1>5. CASE RunFunctor
  <2>1. /\ functors # <<>> /\ functors' = Tail(functors)
        /\ sendInReactor(Head(functors))
        /\ UNCHANGED <<state, life, reading, handleVars, received, inVars, peer>>
        /\ UNCHANGED <<call, sends>>
    BY <1>5 DEF RunFunctor
  <2>2. Head(functors) \in Messages /\ Tail(functors) \in Seq(Messages)
    BY <2>1, HeadTailProperties DEF IInv, CallInv
  <2>3. CallInv'
    BY <2>1, <2>2 DEF IInv, CallInv
  <2> QED
    BY <2>1, <2>2, <2>3, SendStep
<1>6. CASE Demultiplex
  <2>1. /\ revents' = Ready /\ handle' = "polled" /\ reading
        /\ UNCHANGED <<eventVars, outVars, inVars, error, callVars, peer>>
    BY <1>6 DEF Demultiplex
  <2>2. /\ Ready \subseteq {"POLLIN", "POLLOUT", "POLLERR", "POLLHUP"}
        /\ "POLLIN" \in Ready => incoming # <<>> \/ peer # "open"
    BY DEF Ready
  <2>3. OutTypes' /\ OutOrder' /\ InTypes' /\ InOrder' /\ CallInv'
    BY <2>1, OutUnchanged, InUnchanged, CallsUnchanged DEF IInv
  <2>4. LifeInv' /\ WritingWhileOutput' /\ StartInv' /\ EndInv'
    BY <2>1, <2>2 DEF eventVars, outVars, inVars, IInv,
         LifeInv, WritingWhileOutput, StartInv, EndInv
  <2> QED
    BY <2>3, <2>4 DEF IInv
<1>7. CASE handleRead
  BY <1>7, ReadStep
<1>8. CASE MessageTaken
  <2>1. /\ ToWrite
        /\ UNCHANGED <<eventVars, outVars, offered, incoming, error, callVars, peer>>
    BY <1>8 DEF MessageTaken
  <2>2. InTypes' /\ InOrder'
    BY <1>8, TakenCorrect DEF IInv
  <2>3. OutTypes' /\ OutOrder' /\ CallInv'
    BY <2>1, OutUnchanged, CallsUnchanged DEF IInv
  <2>4. /\ handle' \in {"idle", "write"}
        /\ revents' \subseteq {"POLLIN", "POLLOUT", "POLLERR", "POLLHUP"}
    BY <2>1, ToWriteType DEF IInv
  <2>5. LifeInv' /\ WritingWhileOutput' /\ StartInv' /\ EndInv'
    BY <2>1, <2>4 DEF eventVars, outVars, IInv, LifeInv, WritingWhileOutput,
         StartInv, EndInv
  <2> QED
    BY <2>2, <2>3, <2>5 DEF IInv
<1>9. CASE NothingToRead
  <2>1. /\ ToWrite
        /\ UNCHANGED <<eventVars, outVars, inVars, error, callVars, peer>>
    BY <1>9 DEF NothingToRead
  <2>2. OutTypes' /\ OutOrder' /\ InTypes' /\ InOrder' /\ CallInv'
    BY <2>1, OutUnchanged, InUnchanged, CallsUnchanged DEF IInv
  <2>3. /\ handle' \in {"idle", "write"}
        /\ revents' \subseteq {"POLLIN", "POLLOUT", "POLLERR", "POLLHUP"}
    BY <2>1, ToWriteType DEF IInv
  <2>4. LifeInv' /\ WritingWhileOutput' /\ StartInv' /\ EndInv'
    BY <2>1, <2>3 DEF eventVars, outVars, inVars, IInv, LifeInv,
         WritingWhileOutput, StartInv, EndInv
  <2> QED
    BY <2>2, <2>4 DEF IInv
<1>10. CASE handleWrite
  BY <1>10, WriteStep
<1>11. CASE connectDestroyed
  <2>1. UNCHANGED <<handleVars, outVars, inVars, error, callVars, peer>>
    BY <1>11 DEF connectDestroyed
  <2>2. OutTypes' /\ OutOrder' /\ InTypes' /\ InOrder' /\ CallInv'
    BY <2>1, OutUnchanged, InUnchanged, CallsUnchanged DEF IInv
  <2>3. LifeInv' /\ WritingWhileOutput' /\ StartInv' /\ EndInv'
    BY <1>11, <2>1 DEF connectDestroyed, handleVars, inVars, IInv, LifeInv,
         WritingWhileOutput, StartInv, EndInv
  <2> QED
    BY <2>2, <2>3 DEF IInv
<1>12. CASE PeerReads
  <2>1. UNCHANGED <<eventVars, handleVars, output, accepted, inVars, error,
                    callVars, peer>>
    BY <1>12 DEF PeerReads
  <2>2. OutTypes' /\ OutOrder' /\ InTypes' /\ InOrder' /\ CallInv'
    BY <1>12, <2>1, PeerReadsCorrect, InUnchanged, CallsUnchanged DEF IInv
  <2>3. LifeInv' /\ WritingWhileOutput' /\ StartInv' /\ EndInv'
    BY <2>1 DEF eventVars, handleVars, inVars, IInv, LifeInv,
         WritingWhileOutput, StartInv, EndInv
  <2> QED
    BY <2>2, <2>3 DEF IInv
<1>13. CASE PeerSends
  <2>1. /\ peer = "open"
        /\ UNCHANGED <<eventVars, handleVars, outVars, error, callVars, peer>>
    BY <1>13 DEF PeerSends
  <2>2. InTypes' /\ InOrder' /\ incoming' # <<>>
    BY <1>13, PeerSendsCorrect DEF IInv
  <2>3. OutTypes' /\ OutOrder' /\ CallInv'
    BY <2>1, OutUnchanged, CallsUnchanged DEF IInv
  <2>4. LifeInv' /\ WritingWhileOutput' /\ StartInv' /\ EndInv'
    BY <2>1, <2>2 DEF eventVars, handleVars, outVars, IInv, LifeInv,
         WritingWhileOutput, StartInv, EndInv
  <2> QED
    BY <2>2, <2>3, <2>4 DEF IInv
<1>14. CASE PeerEnds
  <2>1. UNCHANGED <<eventVars, handleVars, output, received, accepted, offered,
                    input, taken, callVars>>
    BY <1>14 DEF PeerEnds
  <2>2. \/ /\ peer = "open" /\ peer' = "closed"
           /\ UNCHANGED <<socket, incoming, error>>
        \/ /\ peer' = "reset" /\ socket' = <<>> /\ error' = TRUE
           /\ incoming' \in {incoming, <<>>}
    BY <1>14 DEF PeerEnds
  <2>3. OutTypes' /\ OutOrder'
    <3>1. socket' \in Seq(Bytes) /\ Len(socket') <= Room
      <4>1. <<>> \in Seq(Bytes) /\ Len(<<>>) = 0
        BY EmptySeq
      <4>2. CASE UNCHANGED socket
        BY <4>2 DEF IInv, OutTypes
      <4>3. CASE socket' = <<>>
        BY <4>1, <4>3, BoundsAssumption
      <4> QED
        BY <2>2, <4>2, <4>3
    <3>2. peer' # "reset" => peer # "reset" /\ UNCHANGED socket
      BY <2>2
    <3> QED
      BY <2>1, <3>1, <3>2 DEF IInv, OutTypes, OutOrder
  <2>4. InTypes' /\ InOrder'
    <3>1. incoming' \in Seq(In)
      BY <2>2, EmptySeq DEF IInv, InTypes
    <3>2. peer' # "reset" => peer # "reset" /\ UNCHANGED incoming
      BY <2>2
    <3> QED
      BY <2>1, <3>1, <3>2 DEF IInv, InTypes, InOrder
  <2>5. LifeInv' /\ WritingWhileOutput' /\ StartInv' /\ EndInv' /\ CallInv'
    BY <2>1, <2>2, CallsUnchanged DEF eventVars, handleVars, IInv, LifeInv,
         WritingWhileOutput, StartInv, EndInv
  <2> QED
    BY <2>3, <2>4, <2>5 DEF IInv
<1>15. CASE UNCHANGED vars
  <2>1. UNCHANGED <<eventVars, handleVars, outVars, inVars, error, callVars, peer>>
    BY <1>15 DEF vars
  <2>2. OutTypes' /\ OutOrder' /\ InTypes' /\ InOrder' /\ CallInv'
    BY <2>1, OutUnchanged, InUnchanged, CallsUnchanged DEF IInv
  <2> QED
    BY <2>1, <2>2 DEF eventVars, handleVars, outVars, inVars, IInv, LifeInv,
         WritingWhileOutput, StartInv, EndInv
<1> QED
  BY <1>1, <1>2, <1>3, <1>4, <1>5, <1>6, <1>7, <1>8, <1>9, <1>10, <1>11,
     <1>12, <1>13, <1>14, <1>15 DEF Next, HandleStep

LEMMA Invariant == Spec => []IInv
BY InitInv, StepInv, PTL DEF Spec

-----------------------------------------------------------------------------
(* The theorems.                                                           *)

\* Every variable keeps its type, and only an established connection has
\* events.
THEOREM TypeCorrect == Spec => []TypeOK
<1>1. IInv => TypeOK
  BY DEF IInv, LifeInv, OutTypes, InTypes, CallInv, TypeOK, In
<1> QED
  BY <1>1, Invariant, PTL

\* The loop asks for the write event exactly while bytes wait in
\* outputBuffer_ (TcpConnection.cc:77 sendInReactor, 126 handleWrite).
THEOREM WriteEventIsRight == Spec => []WritingWhileOutput
<1>1. IInv => WritingWhileOutput
  BY DEF IInv
<1> QED
  BY <1>1, Invariant, PTL

\* No byte is lost, duplicated or reordered in either direction, and no
\* connection is closed with bytes to read (TcpConnection.cc:68
\* sendInReactor, 108 handleRead, 124 handleWrite).
THEOREM BytesArriveInOrder == Spec => []StreamIntact
<1>1. IInv => StreamIntact
  <2> SUFFICES ASSUME IInv PROVE StreamIntact
    OBVIOUS
  <2>1. life = "closed" => incoming = <<>>
    BY DEF IInv, EndInv
  <2>2. peer # "reset" => /\ accepted = received \o socket \o output
                          /\ Prefix(Inbound, offered) = taken \o input \o incoming
    BY DEF IInv, OutOrder, InOrder, InRow
  <2> QED
    BY <2>1, <2>2 DEF StreamIntact
<1> QED
  BY <1>1, Invariant, PTL

\* A connection that is closed writes nothing, whatever is still queued or
\* being handled (TcpConnection.cc:70 sendInReactor, 126 handleWrite).
THEOREM NothingAfterClose == Spec => NoWriteAfterClose
<1>1. IInv /\ [Next]_vars =>
        [state = "kDisconnected" => Len(socket') <= Len(socket)]_vars
  <2> SUFFICES ASSUME IInv, Next, state = "kDisconnected"
               PROVE  Len(socket') <= Len(socket)
    OBVIOUS
  <2>0. Len(socket) \in Nat
    BY LenProperties DEF IInv, OutTypes
  <2>1. ASSUME NEW m \in Messages, sendInReactor(m)
        PROVE  UNCHANGED socket
    BY <2>1 DEF sendInReactor
  <2>2. CASE RunFunctor
    <3>1. sendInReactor(Head(functors))
      BY <2>2 DEF RunFunctor
    <3>2. UNCHANGED socket
      BY <3>1 DEF sendInReactor
    <3> QED
      BY <2>0, <3>2
  <2>3. CASE handleWrite
    BY <2>0, <2>3 DEF handleWrite, IsWriting, IInv, LifeInv
  <2>4. CASE PeerReads
    BY <2>4, PeerReadsCorrect DEF IInv
  <2>5. CASE PeerEnds
    BY <2>0, <2>5 DEF PeerEnds
  <2>6. CASE UNCHANGED socket
    BY <2>0, <2>6
  <2>7. ASSUME NEW m \in Messages, Send(m)
        PROVE  UNCHANGED socket
    BY <2>1, <2>7 DEF Send
  <2>8. CASE \/ connectEstablished \/ Demultiplex \/ handleRead \/ MessageTaken
             \/ NothingToRead \/ connectDestroyed \/ PeerSends
    BY <2>6, <2>8 DEF connectEstablished, Demultiplex, handleRead, MessageTaken,
         NothingToRead, connectDestroyed, PeerSends, outVars
  <2>9. ASSUME NEW t \in Others, SendQueue(t) \/ \E m \in Messages : SendTest(t, m)
        PROVE  UNCHANGED socket
    BY <2>9 DEF SendQueue, SendTest, outVars
  <2> QED
    BY <2>2, <2>3, <2>4, <2>5, <2>6, <2>7, <2>8, <2>9 DEF Next, HandleStep
<1> QED
  BY <1>1, Invariant, PTL DEF Spec, NoWriteAfterClose

-----------------------------------------------------------------------------
(* The buffers.                                                            *)

\* std::copy changes no length and no type.
LEMMA CopyType ==
  ASSUME NEW bytes \in Seq(Byte), NEW s \in Seq(Byte), NEW at \in Nat
  PROVE  /\ CopyTo(bytes, s, at) \in Seq(Byte)
         /\ Len(CopyTo(bytes, s, at)) = Len(bytes)
         /\ \A i \in 1..Len(bytes) : i \in (at + 1)..(at + Len(s)) =>
              CopyTo(bytes, s, at)[i] = s[i - at]
         /\ \A i \in 1..Len(bytes) : i \notin (at + 1)..(at + Len(s)) =>
              CopyTo(bytes, s, at)[i] = bytes[i]
<1> DEFINE c == CopyTo(bytes, s, at)
<1>1. \A i \in 1..Len(bytes) :
        (IF i \in (at + 1)..(at + Len(s)) THEN s[i - at] ELSE bytes[i]) \in Byte
  OBVIOUS
<1>2. c \in [1..Len(bytes) -> Byte]
  BY <1>1 DEF CopyTo
<1>3. Len(bytes) \in Nat
  OBVIOUS
<1>4. c \in Seq(Byte) /\ Len(c) = Len(bytes)
  BY <1>2, <1>3
<1> QED
  BY <1>4 DEF CopyTo

\* The content is a string of bytes.
LEMMA ContentType ==
  ASSUME NEW b, WellFormed(b)
  PROVE  Content(b) \in Seq(Byte) /\ Len(Content(b)) = Readable(b)
<1>1. Readable(b) \in Nat
  BY DEF WellFormed, Readable
<1>2. \A i \in 1..Readable(b) : b.bytes[b.reader + i] \in Byte
  BY DEF WellFormed, Readable
<1>3. Content(b) \in [1..Readable(b) -> Byte]
  BY <1>2 DEF Content
<1> QED
  BY <1>1, <1>3

\* Writing at writerIndex_ appends to the content.
LEMMA WrittenCorrect ==
  ASSUME NEW b, WellFormed(b), NEW s \in Seq(Byte), Len(s) <= Writable(b)
  PROVE  /\ WellFormed(Written(b, s))
         /\ Content(Written(b, s)) = Content(b) \o s
         /\ Len(Written(b, s).bytes) = Len(b.bytes)
<1> DEFINE w == Written(b, s)
           c == CopyTo(b.bytes, s, b.writer)
<1>0. /\ b.bytes \in Seq(Byte) /\ b.reader \in Nat /\ b.writer \in Nat
      /\ b.reader <= b.writer /\ b.writer <= Len(b.bytes)
      /\ b.writer + Len(s) <= Len(b.bytes) /\ Len(s) \in Nat
      /\ Len(b.bytes) \in Nat
  BY DEF WellFormed, Writable
<1>1. /\ c \in Seq(Byte) /\ Len(c) = Len(b.bytes)
      /\ \A i \in 1..Len(b.bytes) :
           i \in (b.writer + 1)..(b.writer + Len(s)) => c[i] = s[i - b.writer]
      /\ \A i \in 1..Len(b.bytes) :
           i \notin (b.writer + 1)..(b.writer + Len(s)) => c[i] = b.bytes[i]
  BY <1>0, CopyType, Zenon
<1>2. /\ w \in [bytes : Seq(Byte), reader : Nat, writer : Nat]
      /\ w.bytes = c /\ w.reader = b.reader /\ w.writer = b.writer + Len(s)
  <2>1. w = [b EXCEPT !.bytes = c, !.writer = b.writer + Len(s)]
    BY Zenon DEF Written
  <2>2. b.writer + Len(s) \in Nat /\ c \in Seq(Byte)
    BY <1>0, <1>1
  <2> DEFINE n == b.writer + Len(s)
  <2> HIDE DEF c, n
  <2>3. w = [b EXCEPT !.bytes = c, !.writer = n]
    BY <2>1 DEF n
  <2> HIDE DEF w
  <2>4. n \in Nat
    BY <2>2 DEF n
  <2>5. /\ w \in [bytes : Seq(Byte), reader : Nat, writer : Nat]
        /\ w.bytes = c /\ w.reader = b.reader /\ w.writer = n
    BY <2>2, <2>3, <2>4 DEF WellFormed
  <2> QED
    BY <2>5 DEF n
<1> HIDE DEF c, w
<1>3. WellFormed(w) /\ Len(w.bytes) = Len(b.bytes)
  BY <1>0, <1>1, <1>2 DEF WellFormed
<1>4. Content(w) = Content(b) \o s
  <2>1. /\ Content(w) \in Seq(Byte) /\ Len(Content(w)) = Readable(b) + Len(s)
        /\ Content(b) \in Seq(Byte) /\ Len(Content(b)) = Readable(b)
        /\ Readable(b) \in Nat
    BY <1>0, <1>2, <1>3, ContentType DEF Readable
  <2>2. /\ Content(b) \o s \in Seq(Byte)
        /\ Len(Content(b) \o s) = Readable(b) + Len(s)
        /\ \A i \in 1..(Readable(b) + Len(s)) : (Content(b) \o s)[i] =
             IF i <= Readable(b) THEN Content(b)[i] ELSE s[i - Readable(b)]
    <3>1. /\ Content(b) \o s \in Seq(Byte)
          /\ Len(Content(b) \o s) = Len(Content(b)) + Len(s)
          /\ \A i \in 1..(Len(Content(b)) + Len(s)) : (Content(b) \o s)[i] =
               IF i <= Len(Content(b)) THEN Content(b)[i]
               ELSE s[i - Len(Content(b))]
      BY <2>1, ConcatProperties, Zenon
    <3> QED
      BY <2>1, <3>1, Zenon
  <2>3. ASSUME NEW i \in 1..(Readable(b) + Len(s))
        PROVE  Content(w)[i] = (Content(b) \o s)[i]
    <3>1. Content(w)[i] = c[b.reader + i]
      BY <1>0, <1>2 DEF Content, Readable
    <3>2. CASE i <= Readable(b)
      <4>0. /\ b.reader + i \in 1..Len(b.bytes)
            /\ b.reader + i \notin (b.writer + 1)..(b.writer + Len(s))
        BY <1>0, <3>2 DEF Readable
      <4>1. c[b.reader + i] = b.bytes[b.reader + i]
        BY <1>1, <4>0
      <4>2. Content(b)[i] = b.bytes[b.reader + i]
        BY <2>1, <3>2 DEF Content
      <4> QED
        BY <2>2, <3>1, <3>2, <4>1, <4>2
    <3>3. CASE ~(i <= Readable(b))
      <4>0. /\ b.reader + i \in 1..Len(b.bytes)
            /\ b.reader + i \in (b.writer + 1)..(b.writer + Len(s))
        BY <1>0, <3>3 DEF Readable
      <4> DEFINE j == b.reader + i
      <4> HIDE DEF j
      <4>1. c[j] = s[j - b.writer]
        BY <1>1, <4>0 DEF j
      <4>a. j - b.writer = i - Readable(b)
        BY <1>0 DEF j, Readable
      <4>3. s[j - b.writer] = s[i - Readable(b)]
        BY <4>a, Zenon
      <4>4. (Content(b) \o s)[i] = s[i - Readable(b)]
        BY <2>2, <3>3
      <4>5. Content(w)[i] = c[j]
        BY <3>1 DEF j
      <4> QED
        BY <4>1, <4>3, <4>4, <4>5
    <3> QED
      BY <3>2, <3>3
  <2> QED
    BY <2>1, <2>2, <2>3, SeqEqual
<1> QED
  BY <1>3, <1>4 DEF w

\* makeSpace: growing keeps the content and makes room for len bytes.
LEMMA GrowCorrect ==
  ASSUME NEW b, WellFormed(b), NEW len \in Nat, Writable(b) < len
  PROVE  /\ WellFormed(Grow(b, len))
         /\ Content(Grow(b, len)) = Content(b)
         /\ len <= Writable(Grow(b, len))
<1> DEFINE g == Grow(b, len)
           c == [i \in 1..(b.writer + len) |->
                   IF i <= Len(b.bytes) THEN b.bytes[i] ELSE Zero]
<1>0. /\ b.bytes \in Seq(Byte) /\ b.reader \in Nat /\ b.writer \in Nat
      /\ b.reader <= b.writer /\ b.writer <= Len(b.bytes)
      /\ Len(b.bytes) \in Nat /\ Zero \in Byte
      /\ kCheapPrepend \in Nat /\ kCheapPrepend <= Len(b.bytes)
      /\ Len(b.bytes) - b.writer < len
  BY ByteAssumption, SizeAssumption DEF WellFormed, Writable
<1>1. \A i \in 1..(b.writer + len) :
        (IF i <= Len(b.bytes) THEN b.bytes[i] ELSE Zero) \in Byte
  BY <1>0
<1>2. c \in [1..(b.writer + len) -> Byte] /\ b.writer + len \in Nat
  BY <1>0, <1>1
<1>3. c \in Seq(Byte) /\ Len(c) = b.writer + len
  BY <1>2
<1>4. /\ g \in [bytes : Seq(Byte), reader : Nat, writer : Nat]
      /\ g.bytes = c /\ g.reader = b.reader /\ g.writer = b.writer
  <2>1. g = [b EXCEPT !.bytes = c]
    BY Zenon DEF Grow
  <2> HIDE DEF c, g
  <2> QED
    BY <1>3, <2>1 DEF WellFormed
<1>5. WellFormed(g) /\ len <= Writable(g)
  BY <1>0, <1>3, <1>4 DEF WellFormed, Writable
<1>6. Content(g) = Content(b)
  <2>1. Readable(g) = Readable(b)
    BY <1>4 DEF Readable
  <2>2. \A i \in 1..Readable(b) :
          g.bytes[g.reader + i] = b.bytes[b.reader + i]
    <3>1. \A j \in 1..Len(b.bytes) : c[j] = b.bytes[j]
      BY <1>0
    <3>2. \A i \in 1..Readable(b) : b.reader + i \in 1..Len(b.bytes)
      BY <1>0 DEF Readable
    <3> HIDE DEF c
    <3> QED
      BY <1>4, <3>1, <3>2
  <2> QED
    BY <2>1, <2>2 DEF Content
<1> QED
  BY <1>5, <1>6

\* makeSpace: moving the content to the front keeps it.
LEMMA MoveCorrect ==
  ASSUME NEW b, WellFormed(b), NEW len \in Nat,
         Writable(b) < len, FitsAtFront(b, len)
  PROVE  /\ kCheapPrepend < b.reader
         /\ WellFormed(MoveToFront(b))
         /\ Content(MoveToFront(b)) = Content(b)
         /\ len <= Writable(MoveToFront(b))
<1> DEFINE m == MoveToFront(b)
           c == CopyTo(b.bytes, Content(b), kCheapPrepend)
<1>0. /\ b.bytes \in Seq(Byte) /\ b.reader \in Nat /\ b.writer \in Nat
      /\ b.reader <= b.writer /\ b.writer <= Len(b.bytes)
      /\ Len(b.bytes) \in Nat /\ kCheapPrepend \in Nat
  BY SizeAssumption DEF WellFormed
<1>1. /\ kCheapPrepend < b.reader
      /\ kCheapPrepend + Readable(b) + len <= Len(b.bytes)
      /\ Readable(b) \in Nat
  BY <1>0 DEF FitsAtFront, Writable, Readable
<1>2. Content(b) \in Seq(Byte) /\ Len(Content(b)) = Readable(b)
  BY ContentType
<1>3. /\ c \in Seq(Byte) /\ Len(c) = Len(b.bytes)
      /\ \A i \in 1..Len(b.bytes) :
           i \in (kCheapPrepend + 1)..(kCheapPrepend + Readable(b)) =>
             c[i] = Content(b)[i - kCheapPrepend]
  <2>1. /\ c \in Seq(Byte) /\ Len(c) = Len(b.bytes)
        /\ \A i \in 1..Len(b.bytes) :
             i \in (kCheapPrepend + 1)..(kCheapPrepend + Len(Content(b))) =>
               c[i] = Content(b)[i - kCheapPrepend]
    BY <1>0, <1>2, CopyType, Zenon
  <2> QED
    BY <1>2, <2>1, Zenon
<1> HIDE DEF c
<1>4. m = [bytes |-> c, reader |-> kCheapPrepend,
           writer |-> kCheapPrepend + Readable(b)]
  BY DEF MoveToFront, c
<1>5. WellFormed(m) /\ len <= Writable(m) /\ Readable(m) = Readable(b)
  BY <1>0, <1>1, <1>3, <1>4 DEF WellFormed, Writable, Readable
<1>6. Content(m) = Content(b)
  <2>1. Content(m) \in Seq(Byte) /\ Len(Content(m)) = Readable(b)
    BY <1>5, ContentType
  <2>2. ASSUME NEW i \in 1..Readable(b)
        PROVE  Content(m)[i] = Content(b)[i]
    <3>1. Content(m)[i] = c[kCheapPrepend + i]
      BY <1>4, <1>5 DEF Content
    <3>0. /\ kCheapPrepend + i \in 1..Len(b.bytes)
          /\ kCheapPrepend + i
               \in (kCheapPrepend + 1)..(kCheapPrepend + Readable(b))
      BY <1>0, <1>1
    <3> DEFINE j == kCheapPrepend + i
    <3> HIDE DEF j
    <3>2. c[j] = Content(b)[j - kCheapPrepend]
      BY <1>3, <3>0 DEF j
    <3>3. j - kCheapPrepend = i
      BY <1>0 DEF j
    <3> QED
      BY <3>1, <3>2, <3>3 DEF j
  <2> QED
    BY <1>2, <2>1, <2>2, SeqEqual
<1> QED
  BY <1>1, <1>5, <1>6

\* ensureWritableBytes keeps the content and its assertion holds.
LEMMA EnsureCorrect ==
  ASSUME NEW b, WellFormed(b), NEW len \in Nat
  PROVE  /\ WellFormed(EnsureWritableBytes(b, len))
         /\ Content(EnsureWritableBytes(b, len)) = Content(b)
         /\ len <= Writable(EnsureWritableBytes(b, len))
<1>1. CASE Writable(b) < len /\ FitsAtFront(b, len)
  BY <1>1, MoveCorrect DEF EnsureWritableBytes, MakeSpace
<1>2. CASE Writable(b) < len /\ ~FitsAtFront(b, len)
  BY <1>2, GrowCorrect DEF EnsureWritableBytes, MakeSpace
<1>3. CASE ~(Writable(b) < len)
  BY <1>3 DEF EnsureWritableBytes, WellFormed, Writable
<1> QED
  BY <1>1, <1>2, <1>3

\* append appends.
LEMMA AppendedCorrect ==
  ASSUME NEW b, WellFormed(b), NEW s \in Seq(Byte)
  PROVE  /\ WellFormed(Appended(b, s))
         /\ Content(Appended(b, s)) = Content(b) \o s
<1> DEFINE e == EnsureWritableBytes(b, Len(s))
<1>1. WellFormed(e) /\ Content(e) = Content(b) /\ Len(s) <= Writable(e)
  BY EnsureCorrect, LenProperties
<1>2. WellFormed(Written(e, s)) /\ Content(Written(e, s)) = Content(e) \o s
  BY <1>1, WrittenCorrect
<1> QED
  BY <1>1, <1>2 DEF Appended

\* readFd appends what was read, in the buffer's own space and beyond it.
LEMMA ReadIntoCorrect ==
  ASSUME NEW b, WellFormed(b), NEW s \in Seq(Byte)
  PROVE  /\ WellFormed(ReadInto(b, s))
         /\ Content(ReadInto(b, s)) = Content(b) \o s
<1>1. CASE Len(s) <= Writable(b)
  BY <1>1, WrittenCorrect DEF ReadInto
<1>2. CASE ~(Len(s) <= Writable(b))
  <2> DEFINE n == Writable(b)
             s1 == SubSeq(s, 1, n)
             s2 == SubSeq(s, n + 1, Len(s))
             w == Written(b, s1)
  <2>1. n \in Nat /\ n < Len(s) /\ Len(s) \in Nat
    BY <1>2 DEF WellFormed, Writable
  <2> HIDE DEF n
  <2>2. s1 \in Seq(Byte) /\ s2 \in Seq(Byte) /\ Len(s1) = n /\ s1 \o s2 = s
    <3>1. /\ s1 \in Seq(Byte) /\ Len(s1) = n
          /\ \A i \in 1..n : s1[i] = s[i]
      BY <2>1
    <3>2. /\ s2 \in Seq(Byte) /\ Len(s2) = Len(s) - n
          /\ \A i \in 1..(Len(s) - n) : s2[i] = s[n + i]
      BY <2>1
    <3> HIDE DEF s1, s2
    <3>3. s1 \o s2 = s
      <4>1. /\ s1 \o s2 \in Seq(Byte)
            /\ Len(s1 \o s2) = Len(s1) + Len(s2)
            /\ \A i \in 1..(Len(s1) + Len(s2)) : (s1 \o s2)[i] =
                 IF i <= Len(s1) THEN s1[i] ELSE s2[i - Len(s1)]
        BY <3>1, <3>2, ConcatProperties, Zenon
      <4>2. Len(s1 \o s2) = Len(s) /\ Len(s1) + Len(s2) = Len(s)
        BY <2>1, <3>1, <3>2, <4>1
      <4>3. ASSUME NEW i \in 1..Len(s) PROVE (s1 \o s2)[i] = s[i]
        <5>1. CASE i <= n
          BY <2>1, <3>1, <4>1, <4>2, <5>1
        <5>2. CASE ~(i <= n)
          <6>1. i - n \in 1..(Len(s) - n) /\ n + (i - n) = i
            BY <2>1, <5>2
          <6>2. (s1 \o s2)[i] = s2[i - n]
            BY <3>1, <4>1, <4>2, <5>2
          <6> QED
            BY <3>2, <6>1, <6>2
        <5> QED
          BY <5>1, <5>2
      <4> QED
        BY <4>1, <4>2, <4>3, SeqEqual
    <3> QED
      BY <3>1, <3>2, <3>3
  <2> HIDE DEF s1, s2
  <2>3. WellFormed(w) /\ Content(w) = Content(b) \o s1
    BY <2>1, <2>2, WrittenCorrect DEF n
  <2> HIDE DEF w
  <2>4. /\ WellFormed(Appended(w, s2))
        /\ Content(Appended(w, s2)) = Content(w) \o s2
    BY <2>2, <2>3, AppendedCorrect
  <2>5. Content(b) \in Seq(Byte)
    BY ContentType
  <2>6. (Content(b) \o s1) \o s2 = Content(b) \o (s1 \o s2)
    <3>1. \A x, y, z \in Seq(Byte) : (x \o y) \o z = x \o (y \o z)
      BY ConcatAssociative, SMTT(30)
    <3> QED
      BY <2>2, <2>5, <3>1
  <2>7. ReadInto(b, s) = Appended(w, s2)
    BY <1>2 DEF ReadInto, n, s1, s2, w
  <2> QED
    BY <2>2, <2>3, <2>4, <2>6, <2>7
<1> QED
  BY <1>1, <1>2

\* A new buffer is empty.
LEMMA NewBufferCorrect ==
  WellFormed(NewBuffer) /\ Content(NewBuffer) = <<>>
<1> DEFINE c == [i \in 1..(kCheapPrepend + kInitialSize) |-> Zero]
<1>1. kCheapPrepend \in Nat /\ kInitialSize \in Nat /\ Zero \in Byte
  BY SizeAssumption, ByteAssumption
<1>2. c \in [1..(kCheapPrepend + kInitialSize) -> Byte]
  BY <1>1
<1>3. c \in Seq(Byte) /\ Len(c) = kCheapPrepend + kInitialSize
  BY <1>1, <1>2
<1>4. WellFormed(NewBuffer)
  BY <1>1, <1>3 DEF WellFormed, NewBuffer
<1>5. Len(Content(NewBuffer)) = 0 /\ Content(NewBuffer) \in Seq(Byte)
  BY <1>1, <1>4, ContentType DEF NewBuffer, Readable
<1> QED
  BY <1>4, <1>5, EmptySeq

\* shrink keeps the content.
LEMMA ShrunkCorrect ==
  ASSUME NEW b, WellFormed(b), NEW reserve \in Nat
  PROVE  WellFormed(Shrunk(b, reserve)) /\ Content(Shrunk(b, reserve)) = Content(b)
<1> DEFINE e == EnsureWritableBytes(NewBuffer, Readable(b) + reserve)
<1>1. Content(b) \in Seq(Byte) /\ Readable(b) + reserve \in Nat
  BY ContentType DEF WellFormed, Readable
<1>2. WellFormed(e) /\ Content(e) = <<>>
  BY <1>1, NewBufferCorrect, EnsureCorrect
<1>3. /\ WellFormed(Appended(e, Content(b)))
      /\ Content(Appended(e, Content(b))) = <<>> \o Content(b)
  BY <1>1, <1>2, AppendedCorrect
<1> QED
  BY <1>1, <1>3, ConcatEmptySeq DEF Shrunk

\* prepend adds at the front, as long as there are prependable bytes.
LEMMA PrependedCorrect ==
  ASSUME NEW b, WellFormed(b), NEW s \in Seq(Byte), Len(s) <= b.reader
  PROVE  /\ WellFormed(Prepended(b, s))
         /\ Content(Prepended(b, s)) = s \o Content(b)
<1> DEFINE at == b.reader - Len(s)
           c == CopyTo(b.bytes, s, at)
           p == Prepended(b, s)
<1>0. /\ b.bytes \in Seq(Byte) /\ b.reader \in Nat /\ b.writer \in Nat
      /\ b.reader <= b.writer /\ b.writer <= Len(b.bytes)
      /\ Len(s) \in Nat /\ Len(b.bytes) \in Nat
  BY DEF WellFormed
<1>1. at \in Nat /\ at + Len(s) = b.reader
  BY <1>0
<1> HIDE DEF at
<1>2. /\ c \in Seq(Byte) /\ Len(c) = Len(b.bytes)
      /\ \A i \in 1..Len(b.bytes) :
           i \in (at + 1)..(at + Len(s)) => c[i] = s[i - at]
      /\ \A i \in 1..Len(b.bytes) :
           i \notin (at + 1)..(at + Len(s)) => c[i] = b.bytes[i]
  BY <1>0, <1>1, CopyType, Zenon
<1>3. /\ p \in [bytes : Seq(Byte), reader : Nat, writer : Nat]
      /\ p.bytes = c /\ p.reader = at /\ p.writer = b.writer
  <2>1. p = [b EXCEPT !.bytes = c, !.reader = at]
    BY Zenon DEF Prepended, at
  <2> HIDE DEF c, p
  <2> QED
    BY <1>1, <1>2, <2>1 DEF WellFormed
<1> HIDE DEF c, p
<1>4. WellFormed(p) /\ Readable(p) = Len(s) + Readable(b)
  BY <1>0, <1>1, <1>2, <1>3 DEF WellFormed, Readable
<1>5. Content(p) = s \o Content(b)
  <2>1. /\ Content(p) \in Seq(Byte) /\ Len(Content(p)) = Len(s) + Readable(b)
        /\ Content(b) \in Seq(Byte) /\ Len(Content(b)) = Readable(b)
        /\ Readable(b) \in Nat
    BY <1>0, <1>4, ContentType DEF Readable
  <2>2. /\ s \o Content(b) \in Seq(Byte)
        /\ Len(s \o Content(b)) = Len(s) + Readable(b)
        /\ \A i \in 1..(Len(s) + Readable(b)) : (s \o Content(b))[i] =
             IF i <= Len(s) THEN s[i] ELSE Content(b)[i - Len(s)]
    <3>1. /\ s \o Content(b) \in Seq(Byte)
          /\ Len(s \o Content(b)) = Len(s) + Len(Content(b))
          /\ \A i \in 1..(Len(s) + Len(Content(b))) : (s \o Content(b))[i] =
               IF i <= Len(s) THEN s[i] ELSE Content(b)[i - Len(s)]
      BY <2>1, ConcatProperties, Zenon
    <3> QED
      BY <2>1, <3>1, Zenon
  <2>3. ASSUME NEW i \in 1..(Len(s) + Readable(b))
        PROVE  Content(p)[i] = (s \o Content(b))[i]
    <3>1. Content(p)[i] = c[at + i]
      BY <1>3, <1>4 DEF Content
    <3>2. CASE i <= Len(s)
      <4>0. /\ at + i \in 1..Len(b.bytes)
            /\ at + i \in (at + 1)..(at + Len(s))
        BY <1>0, <1>1, <3>2
      <4> DEFINE j == at + i
      <4> HIDE DEF j
      <4>1. c[j] = s[j - at]
        BY <1>2, <4>0 DEF j
      <4>a. j - at = i
        BY <1>1, <3>2 DEF j
      <4>2. s[j - at] = s[i]
        BY <4>a, Zenon
      <4>3. (s \o Content(b))[i] = s[i]
        BY <2>2, <3>2
      <4>4. Content(p)[i] = c[j]
        BY <3>1 DEF j
      <4> QED
        BY <4>1, <4>2, <4>3, <4>4
    <3>3. CASE ~(i <= Len(s))
      <4>0. /\ at + i \in 1..Len(b.bytes)
            /\ at + i \notin (at + 1)..(at + Len(s))
            /\ at + i = b.reader + (i - Len(s))
            /\ i - Len(s) \in 1..Readable(b)
        BY <1>0, <1>1, <3>3 DEF Readable
      <4>1. c[at + i] = b.bytes[at + i]
        BY <1>2, <4>0, Zenon
      <4>2. Content(b)[i - Len(s)] = b.bytes[b.reader + (i - Len(s))]
        BY <4>0 DEF Content
      <4>3. (s \o Content(b))[i] = Content(b)[i - Len(s)]
        BY <2>2, <3>3
      <4> QED
        BY <3>1, <4>0, <4>1, <4>2, <4>3
    <3> QED
      BY <3>2, <3>3
  <2> QED
    BY <2>1, <2>2, <2>3, SeqEqual
<1> QED
  BY <1>4, <1>5 DEF p

\* retrieve drops bytes at the front.
LEMMA RetrievedCorrect ==
  ASSUME NEW b, WellFormed(b), NEW n \in 0..Readable(b)
  PROVE  /\ WellFormed(Retrieved(b, n))
         /\ Content(Retrieved(b, n)) =
              SubSeq(Content(b), n + 1, Len(Content(b)))
<1> DEFINE r == Retrieved(b, n)
           d == SubSeq(Content(b), n + 1, Len(Content(b)))
<1>0. /\ b.bytes \in Seq(Byte) /\ b.reader \in Nat /\ b.writer \in Nat
      /\ b.reader <= b.writer /\ b.writer <= Len(b.bytes)
      /\ n \in Nat /\ n <= Readable(b) /\ Readable(b) \in Nat
      /\ kCheapPrepend \in Nat
  BY SizeAssumption DEF WellFormed, Readable
<1>1. Content(b) \in Seq(Byte) /\ Len(Content(b)) = Readable(b)
  BY ContentType
<1>2. /\ d \in Seq(Byte) /\ Len(d) = Readable(b) - n
      /\ \A i \in 1..(Readable(b) - n) : d[i] = Content(b)[n + i]
  BY <1>0, <1>1
<1> HIDE DEF d
<1>3. CASE n < Readable(b)
  <2>1. r = [b EXCEPT !.reader = b.reader + n]
    BY <1>3, Zenon DEF Retrieved
  <2> DEFINE m == b.reader + n
  <2>2. m \in Nat
    BY <1>0
  <2>3. r = [b EXCEPT !.reader = m]
    BY <2>1
  <2> HIDE DEF r, m
  <2>4. /\ r \in [bytes : Seq(Byte), reader : Nat, writer : Nat]
        /\ r.bytes = b.bytes /\ r.reader = m /\ r.writer = b.writer
    BY <2>2, <2>3 DEF WellFormed
  <2>5. WellFormed(r) /\ Readable(r) = Readable(b) - n
    BY <1>0, <1>3, <2>4 DEF WellFormed, Readable, m
  <2>6. Content(r) \in Seq(Byte) /\ Len(Content(r)) = Readable(b) - n
    BY <2>5, ContentType
  <2>7. ASSUME NEW i \in 1..(Readable(b) - n) PROVE Content(r)[i] = d[i]
    <3>1. Content(r)[i] = b.bytes[m + i]
      BY <2>4, <2>5 DEF Content
    <3>2. n + i \in 1..Readable(b) /\ b.reader + (n + i) = m + i
      BY <1>0 DEF m
    <3>3. Content(b)[n + i] = b.bytes[b.reader + (n + i)]
      BY <3>2 DEF Content
    <3>4. b.bytes[b.reader + (n + i)] = b.bytes[m + i]
      BY <3>2, Zenon
    <3> QED
      BY <1>2, <3>1, <3>3, <3>4
  <2>8. Content(r) = d
    BY <1>2, <2>6, <2>7, SeqEqual
  <2> QED
    BY <2>5, <2>8 DEF r, d
<1>4. CASE ~(n < Readable(b))
  <2>1. r = [b EXCEPT !.reader = kCheapPrepend, !.writer = kCheapPrepend]
    BY <1>4, Zenon DEF Retrieved
  <2> HIDE DEF r
  <2>2. /\ r \in [bytes : Seq(Byte), reader : Nat, writer : Nat]
        /\ r.bytes = b.bytes
        /\ r.reader = kCheapPrepend /\ r.writer = kCheapPrepend
    BY <1>0, <2>1 DEF WellFormed
  <2>3. WellFormed(r) /\ Readable(r) = 0
    BY <1>0, <2>2 DEF WellFormed, Readable
  <2>4. Content(r) = <<>>
    BY <2>3, ContentType, EmptySeq
  <2>5. d = <<>>
    BY <1>0, <1>2, <1>4, EmptySeq
  <2> QED
    BY <2>3, <2>4, <2>5 DEF r, d
<1> QED
  BY <1>3, <1>4

\* unwrite drops bytes at the end.
LEMMA UnwrittenCorrect ==
  ASSUME NEW b, WellFormed(b), NEW n \in 0..Readable(b)
  PROVE  /\ WellFormed(Unwritten(b, n))
         /\ Content(Unwritten(b, n)) =
              SubSeq(Content(b), 1, Len(Content(b)) - n)
<1> DEFINE u == Unwritten(b, n)
           d == SubSeq(Content(b), 1, Len(Content(b)) - n)
<1>0. /\ b.bytes \in Seq(Byte) /\ b.reader \in Nat /\ b.writer \in Nat
      /\ b.reader <= b.writer /\ b.writer <= Len(b.bytes)
      /\ n \in Nat /\ n <= Readable(b) /\ Readable(b) \in Nat
  BY DEF WellFormed, Readable
<1>1. Content(b) \in Seq(Byte) /\ Len(Content(b)) = Readable(b)
  BY ContentType
<1>2. /\ d \in Seq(Byte) /\ Len(d) = Readable(b) - n
      /\ \A i \in 1..(Readable(b) - n) : d[i] = Content(b)[i]
  BY <1>0, <1>1
<1> DEFINE m == b.writer - n
<1>3. m \in Nat /\ b.reader <= m /\ m <= b.writer
  BY <1>0 DEF Readable
<1>4. u = [b EXCEPT !.writer = m]
  BY Zenon DEF Unwritten
<1> HIDE DEF d, u, m
<1>5. /\ u \in [bytes : Seq(Byte), reader : Nat, writer : Nat]
      /\ u.bytes = b.bytes /\ u.reader = b.reader /\ u.writer = m
  BY <1>3, <1>4 DEF WellFormed
<1>6. WellFormed(u) /\ Readable(u) = Readable(b) - n
  BY <1>0, <1>3, <1>5 DEF WellFormed, Readable, m
<1>7. Content(u) \in Seq(Byte) /\ Len(Content(u)) = Readable(b) - n
  BY <1>6, ContentType
<1>8. ASSUME NEW i \in 1..(Readable(b) - n) PROVE Content(u)[i] = d[i]
  <2>1. Content(u)[i] = b.bytes[b.reader + i]
    BY <1>5, <1>6 DEF Content
  <2>2. Content(b)[i] = b.bytes[b.reader + i]
    BY <1>0 DEF Content
  <2> QED
    BY <1>2, <2>1, <2>2
<1>9. Content(u) = d
  BY <1>2, <1>7, <1>8, SeqEqual
<1> QED
  BY <1>6, <1>9 DEF u, d

-----------------------------------------------------------------------------

\* What each call does to the content; it also keeps the indices in order.
LEMMA CallCorrect ==
  ASSUME BufferTypeOK
  PROVE  /\ \A s \in Strings :
              /\ AppendBytes(s) => BufferTypeOK' /\ String!AddLast(s)
              /\ Read(s) => BufferTypeOK' /\ String!AddLast(s)
              /\ HasWritten(s) => BufferTypeOK' /\ String!AddLast(s)
              /\ Prepend(s) => BufferTypeOK' /\ String!AddFirst(s)
              /\ EnsureWritable(s) => BufferTypeOK' /\ Content(buf') = Content(buf)
              /\ Shrink(s) => BufferTypeOK' /\ Content(buf') = Content(buf)
         /\ \A n \in 0..Readable(buf) :
              /\ Retrieve(n) => BufferTypeOK' /\ String!DropFirst(n)
              /\ Unwrite(n) => BufferTypeOK' /\ String!DropLast(n)
<1> USE DEF BufferTypeOK
<1>0. /\ \A s \in Strings : s \in Seq(Byte) /\ Len(s) \in Nat
      /\ Content(buf) \in Seq(Byte)
  BY ByteAssumption, ContentType
<1>1. ASSUME NEW s \in Strings, AppendBytes(s)
      PROVE  BufferTypeOK' /\ String!AddLast(s)
  BY <1>0, <1>1, AppendedCorrect DEF AppendBytes, String!AddLast
<1>2. ASSUME NEW s \in Strings, Read(s)
      PROVE  BufferTypeOK' /\ String!AddLast(s)
  BY <1>0, <1>2, ReadIntoCorrect DEF Read, String!AddLast
<1>3. ASSUME NEW s \in Strings, EnsureWritable(s)
      PROVE  BufferTypeOK' /\ Content(buf') = Content(buf)
  BY <1>0, <1>3, EnsureCorrect DEF EnsureWritable
<1>4. ASSUME NEW s \in Strings, HasWritten(s)
      PROVE  BufferTypeOK' /\ String!AddLast(s)
  BY <1>0, <1>4, WrittenCorrect DEF HasWritten, String!AddLast
<1>5. ASSUME NEW s \in Strings, Prepend(s)
      PROVE  BufferTypeOK' /\ String!AddFirst(s)
  BY <1>0, <1>5, PrependedCorrect DEF Prepend, String!AddFirst
<1>6. ASSUME NEW s \in Strings, Shrink(s)
      PROVE  BufferTypeOK' /\ Content(buf') = Content(buf)
  BY <1>0, <1>6, ShrunkCorrect DEF Shrink
<1>7. ASSUME NEW n \in 0..Readable(buf), Unwrite(n)
      PROVE  BufferTypeOK' /\ String!DropLast(n)
  BY <1>7, UnwrittenCorrect DEF Unwrite, String!DropLast
<1>8. ASSUME NEW n \in 0..Readable(buf), Retrieve(n)
      PROVE  BufferTypeOK' /\ String!DropFirst(n)
  BY <1>8, RetrievedCorrect DEF Retrieve, String!DropFirst
<1> QED
  BY <1>1, <1>2, <1>3, <1>4, <1>5, <1>6, <1>7, <1>8, Zenon

\* A step is a step of the string, or leaves it alone.
LEMMA StepCorrect ==
  ASSUME BufferTypeOK, BufferNext
  PROVE  BufferTypeOK' /\ (String!Next \/ Content(buf') = Content(buf))
<1>1. 0..Readable(buf) = 0..Len(Content(buf))
  BY ContentType DEF BufferTypeOK
<1> QED
  BY <1>1, CallCorrect DEF BufferNext, String!Next

\* The indices of a buffer are always in order and within buffer_.
THEOREM BufferTypeCorrect == BufferSpec => []BufferTypeOK
<1>1. BufferInit => BufferTypeOK
  BY NewBufferCorrect DEF BufferInit, BufferTypeOK
<1>2. BufferTypeOK /\ [BufferNext]_buf => BufferTypeOK'
  BY StepCorrect DEF BufferTypeOK
<1> QED
  BY <1>1, <1>2, PTL DEF BufferSpec

\* makeSpace moves the content only where there is room for it in front:
\* the assertion in its second branch never fails.
THEOREM MoveIsSafe == BufferSpec => []MovesToTheFront
<1>1. BufferTypeOK => MovesToTheFront
  <2> SUFFICES ASSUME BufferTypeOK, NEW s \in Strings,
                      Writable(buf) < Len(s), FitsAtFront(buf, Len(s))
               PROVE  /\ kCheapPrepend < buf.reader
                      /\ kCheapPrepend + Readable(buf) + Len(s) <= Len(buf.bytes)
    BY DEF MovesToTheFront
  <2>1. /\ buf.reader \in Nat /\ buf.writer \in Nat /\ Len(buf.bytes) \in Nat
        /\ kCheapPrepend \in Nat /\ Len(s) \in Nat
    BY ByteAssumption, SizeAssumption DEF BufferTypeOK, WellFormed
  <2> QED
    BY <2>1 DEF FitsAtFront, Writable, Readable
<1> QED
  BY <1>1, BufferTypeCorrect, PTL

\* Each call adds or drops exactly the bytes it is asked to.
THEOREM CallsCorrect == BufferSpec => CallsAreExact
<1> DEFINE Exact ==
      /\ \A s \in Strings :
           /\ AppendBytes(s) \/ Read(s) \/ HasWritten(s) => String!AddLast(s)
           /\ Prepend(s) => String!AddFirst(s)
           /\ EnsureWritable(s) \/ Shrink(s) => Content(buf') = Content(buf)
      /\ \A n \in 0..Readable(buf) :
           /\ Retrieve(n) => String!DropFirst(n)
           /\ Unwrite(n) => String!DropLast(n)
<1>1. BufferTypeOK /\ [BufferNext]_buf => [Exact]_buf
  BY CallCorrect, Zenon
<1> QED
  BY <1>1, BufferTypeCorrect, PTL DEF BufferSpec, CallsAreExact

\* The buffer implements a string of bytes.
THEOREM BufferImplementsString == BufferSpec => Implements
<1>1. BufferInit => String!Init
  BY NewBufferCorrect DEF BufferInit, String!Init
<1>2. BufferTypeOK /\ [BufferNext]_buf => [String!Next]_(Content(buf))
  <2>1. CASE BufferNext
    BY <2>1, StepCorrect DEF Content, Readable
  <2>2. CASE UNCHANGED buf
    BY <2>2 DEF Content, Readable
  <2> QED
    BY <2>1, <2>2
<1> QED
  BY <1>1, <1>2, BufferTypeCorrect, PTL DEF BufferSpec, Implements, String!Spec
=============================================================================
