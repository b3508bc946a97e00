----------------------------- MODULE Conversation -----------------------------
(***************************************************************************)
(* minimemcached: Conversation.cc, with the entry it assembles (Entry.cc)  *)
(* and the table all conversations share (MiniMemcached.cc).               *)
(*                                                                         *)
(* A client sends lines, and a value after the line of a "set", as one     *)
(* stream.  The stream arrives in pieces that are cut anywhere; each piece *)
(* is put into the connection's input buffer and msgCb() works on what is  *)
(* there.  There is one sub reactor, so one msgCb() runs at a time.        *)
(*                                                                         *)
(* A stream is a sequence of lines, each with its end, of bytes of values  *)
(* and of the line ends behind them.  A line arrives as a whole here, as   *)
(* msgCb() does nothing with a part of one.  A value has no line ends and  *)
(* spells no command.                                                      *)
(***************************************************************************)
EXTENDS Integers, Sequences, Functions

CONSTANTS Clients,
          Keys,
          Values,         \* the values sent, as sequences of bytes
          Bytes,
          CRLF,           \* the line end behind a value
          None,           \* no key, no entry, no client
          KeyLen,         \* the length of every key
          kMaxValue,      \* the longest value a "set" may announce: 1024
          FirstKeyLen,    \* the entry a conversation begins with: a key of
          FirstFree,      \* this length and room for this many bytes
          MaxRequests     \* bound: how many requests each client sends

ASSUME ValuesAssumption ==
  /\ Values \subseteq Seq(Bytes) \ {<<>>}
  /\ None \notin Keys \cup Clients /\ CRLF \notin Bytes
ASSUME LengthsAssumption ==
  /\ KeyLen \in Nat /\ kMaxValue \in Nat
  /\ FirstKeyLen \in Nat /\ FirstFree \in Nat
  /\ KeyLen <= FirstKeyLen + FirstFree
  /\ MaxRequests \in [Clients -> Nat]

\* Any other line (too short a "set", "Test", an unknown command) only makes
\* the server reply; a value follows it all the same.
Requests ==
  [cmd : {"get"}, key : Keys, value : {<<>>}]
    \cup [cmd : {"set"}, key : Keys, value : Values]
    \cup [cmd : {"other"}, key : {None}, value : Values]

\* The line of a request, and all of it.
Line(r) == [cmd |-> r.cmd, key |-> r.key, len |-> Len(r.value)]

Encoded(r) ==
  <<Line(r)>> \o IF r.value = <<>> THEN <<>> ELSE Append(r.value, CRLF)

VARIABLES
  open,     \* the clients with a conversation in conversations_
  net,      \* what each client has sent and has not arrived
  inbuf,    \* the readable bytes of each connection's inputBuffer_
  state,    \* state_ of each conversation
  entry,    \* currEntry_ of each conversation
  table,    \* the value of the entry with each key in shards_, or None
  busy,     \* the client whose msgCb() is running, or None
  sent,     \* history: the requests of each client
  answers,  \* history: what each "get" was answered, with its key
  cut       \* history: the clients with a value that arrived in pieces

conversations == <<state, entry, table, answers>>
vars == <<open, net, inbuf, busy, sent, cut, conversations>>

\* An entry: the key and the value in data_, keyLen_ and free_, and how many
\* bytes data_ was allocated with.  valueLen_ is the length of the value.
Total(e) == e.keyLen + Len(e.value) + e.free

FirstEntry ==
  [key |-> None, keyLen |-> FirstKeyLen, value |-> <<>>, free |-> FirstFree,
   capacity |-> FirstKeyLen + FirstFree]

\* newConnCb has run for every client.
Init ==
  /\ open = Clients
  /\ net = [c \in Clients |-> <<>>]
  /\ inbuf = [c \in Clients |-> <<>>]
  /\ state = [c \in Clients |-> "kNewCommand"]
  /\ entry = [c \in Clients |-> FirstEntry]
  /\ table = [k \in Keys |-> None]
  /\ busy = None
  /\ sent = [c \in Clients |-> <<>>]
  /\ answers = [c \in Clients |-> <<>>]
  /\ cut = {}

-----------------------------------------------------------------------------
(* The clients and the network.                                            *)

\* Nothing arrives during a callback, so no client need send during one.
Send(c, r) ==
  /\ busy = None /\ c \in open
  /\ Len(sent[c]) < MaxRequests[c]
  /\ sent' = [sent EXCEPT ![c] = Append(@, r)]
  /\ net' = [net EXCEPT ![c] = @ \o Encoded(r)]
  /\ UNCHANGED <<open, inbuf, busy, cut, conversations>>

\* The next n bytes arrive and handleRead() calls msgCb().
Arrive(c, n) ==
  /\ busy = None /\ c \in open /\ n \in 1..Len(net[c])
  /\ inbuf' = [inbuf EXCEPT ![c] = @ \o SubSeq(net[c], 1, n)]
  /\ net' = [net EXCEPT ![c] = SubSeq(@, n + 1, Len(@))]
  /\ busy' = c
  /\ cut' = IF n < Len(net[c]) /\ {net[c][n], net[c][n + 1]} \subseteq Bytes
              THEN cut \cup {c} ELSE cut
  /\ UNCHANGED <<open, sent, conversations>>

\* finConnCb: the connection ends, what is unread of it is lost, and its
\* conversation is deleted.
Finish(c) ==
  /\ busy = None /\ c \in open
  /\ open' = open \ {c}
  /\ net' = [net EXCEPT ![c] = <<>>]
  /\ inbuf' = [inbuf EXCEPT ![c] = <<>>]
  /\ state' = [state EXCEPT ![c] = "kNewCommand"]
  /\ entry' = [entry EXCEPT ![c] = FirstEntry]
  /\ UNCHANGED <<busy, sent, cut, table, answers>>

-----------------------------------------------------------------------------
(* The entry.                                                              *)

\* resetKey( key )
ResetKey(e, k) ==
  [e EXCEPT !.key = k, !.keyLen = KeyLen, !.value = <<>>,
            !.free = Total(e) - KeyLen]

\* Mutant of ResetKeyFor: the key is forgotten in the size that is needed.
ResetKeyTooSmall(e, k, len) ==
  [e EXCEPT !.key = k, !.keyLen = KeyLen, !.value = <<>>, !.free = len,
            !.capacity = IF Total(e) < len THEN KeyLen + len ELSE @]

\* resetKey( key, valueLen ), which reallocates data_ if the entry is too small.
ResetKeyFor(e, k, len) ==
  [e EXCEPT !.key = k, !.keyLen = KeyLen, !.value = <<>>, !.free = len,
            !.capacity = IF Total(e) < KeyLen + len THEN KeyLen + len ELSE @]

AppendTo(e, bytes) ==
  [e EXCEPT !.value = @ \o bytes, !.free = @ - Len(bytes)]

\* Reset()
ResetEntry(e) == [e EXCEPT !.keyLen = 0, !.value = <<>>, !.free = Total(e)]

-----------------------------------------------------------------------------
(* msgCb(): one turn of its loop is a step.                                *)

HasLine(s) == \E i \in DOMAIN s : s[i] \notin Bytes

\* findCRLF: where the first line of s ends.
EndOfLine(s) ==
  CHOOSE i \in DOMAIN s :
    s[i] \notin Bytes /\ \A j \in 1..(i - 1) : s[j] \in Bytes

\* The first line of c's buffer is a command: no byte is before it.
IsCommand(c, cmd) ==
  inbuf[c][1] \notin Bytes \cup {CRLF} /\ inbuf[c][1].cmd = cmd

\* A turn in kNewCommand that finds a line, and retrieves it.
TakeLine(c) ==
  /\ busy = c /\ state[c] = "kNewCommand" /\ HasLine(inbuf[c])
  /\ inbuf' = [inbuf EXCEPT ![c] = SubSeq(@, EndOfLine(@) + 1, Len(@))]
  /\ UNCHANGED <<open, net, busy, sent, cut>>

\* MiniMemcached::get and MiniMemcached::set: the shards are one table.
TableGet(k) == table[k]
TableSet(k, value) == table' = [table EXCEPT ![k] = value]

GetHandler(c) ==
  /\ TakeLine(c) /\ IsCommand(c, "get")
  /\ LET k == inbuf[c][1].key IN
       /\ entry' = [entry EXCEPT ![c] = ResetKey(@, k)]
       /\ answers' = [answers EXCEPT ![c] =
                        Append(@, [key |-> k, value |-> TableGet(k)])]
  /\ UNCHANGED <<state, table>>

\* Mutant of SetHandler: a value that is too long is to be discarded.
SetHandlerDiscarding(c) ==
  /\ TakeLine(c) /\ IsCommand(c, "set")
  /\ LET line == inbuf[c][1] IN
       IF line.len > kMaxValue
         THEN state' = [state EXCEPT ![c] = "kDiscardValue"] /\ UNCHANGED entry
         ELSE /\ entry' = [entry EXCEPT
                             ![c] = ResetKeyFor(@, line.key, line.len)]
              /\ state' = [state EXCEPT ![c] = "kReceiveValue"]
  /\ UNCHANGED <<table, answers>>

\* A "set" whose value is too long is given up: its value will be read as a
\* line.
SetHandler(c) ==
  /\ TakeLine(c) /\ IsCommand(c, "set")
  /\ LET line == inbuf[c][1] IN
       IF line.len > kMaxValue
         THEN UNCHANGED <<state, entry>>
         ELSE /\ entry' = [entry EXCEPT
                             ![c] = ResetKeyFor(@, line.key, line.len)]
              /\ state' = [state EXCEPT ![c] = "kReceiveValue"]
  /\ UNCHANGED <<table, answers>>

\* An empty line, a line without a command, and one with another command.
OtherLine(c) ==
  /\ TakeLine(c) /\ ~IsCommand(c, "get") /\ ~IsCommand(c, "set")
  /\ UNCHANGED conversations

\* Mutant of ValueBytes: all that is there is taken for the value.
AllBytes(c) == Len(inbuf[c])

ValueBytes(c) ==
  IF Len(inbuf[c]) < entry[c].free THEN Len(inbuf[c]) ELSE entry[c].free

\* receiveValue: what is there of the value is stored as the value.
ReceiveValue(c) ==
  /\ busy = c /\ state[c] = "kReceiveValue" /\ inbuf[c] # <<>>
  /\ LET n == ValueBytes(c)
         e == AppendTo(entry[c], SubSeq(inbuf[c], 1, n)) IN
       /\ inbuf' = [inbuf EXCEPT ![c] = SubSeq(@, n + 1, Len(@))]
       /\ TableSet(e.key, e.value)
       /\ entry' = [entry EXCEPT ![c] = ResetEntry(e)]
  /\ state' = [state EXCEPT ![c] = "kNewCommand"]
  /\ UNCHANGED <<open, net, busy, sent, cut, answers>>

\* The end of the loop: nothing is left, or no whole line.
Return(c) ==
  /\ busy = c
  /\ \/ inbuf[c] = <<>>
     \/ state[c] = "kNewCommand" /\ ~HasLine(inbuf[c])
  /\ busy' = None
  /\ UNCHANGED <<open, net, inbuf, sent, cut, conversations>>

msgCb(c) ==
  GetHandler(c) \/ SetHandler(c) \/ OtherLine(c) \/ ReceiveValue(c) \/ Return(c)

Next ==
  \E c \in Clients :
    \/ \E r \in Requests : Send(c, r)
    \/ \E n \in 1..Len(net[c]) : Arrive(c, n)
    \/ Finish(c) \/ msgCb(c)

Spec == Init /\ [][Next]_vars

\* What was sent arrives, and a callback goes on.
FairSpec ==
  /\ Spec
  /\ \A c \in Clients :
       /\ WF_vars(\E n \in 1..Len(net[c]) : Arrive(c, n))
       /\ WF_vars(msgCb(c))

-----------------------------------------------------------------------------
(* Properties.                                                             *)

\* The memory of an entry is large enough for what its lengths say, after any
\* sequence of requests and cuts: append() and resetKey() stay within data_
\* (the assertions of Entry.cc and Entry.h).
EntryFits ==
  /\ \A c \in Clients :
       LET e == entry[c] IN
       /\ e.free >= 0 /\ e.keyLen >= 0
       /\ KeyLen <= Total(e) /\ Total(e) <= e.capacity
       /\ state[c] = "kReceiveValue" => e.key \in Keys /\ e.value = <<>>
  /\ busy # None => busy \in open

ValuesSent(k) ==
  {v \in Values : \E c \in Clients : \E r \in Range(sent[c]) :
     r.cmd = "set" /\ r.key = k /\ r.value = v}

\* What is stored under a key is what some client sent for that key, or a part
\* of it from its beginning: nothing of other lines, values or clients gets in.
\* It is all of it as long as no value arrives in pieces.
StoredWasSent ==
  \A k \in Keys :
    table[k] # None =>
      \E v \in ValuesSent(k) :
        /\ \E n \in 1..Len(v) : table[k] = SubSeq(v, 1, n)
        /\ cut = {} => table[k] = v

Gets(c) == SelectSeq(sent[c], LAMBDA r : r.cmd = "get")

\* Each "get" of a client is answered once and in order, however its requests
\* are cut and whatever else it sends: a conversation that has read a piece
\* of a value as a line gets back in step.
GetsAreAnswered ==
  \A c \in Clients :
    <>[](c \in open => /\ Len(answers[c]) = Len(Gets(c))
                       /\ \A i \in DOMAIN answers[c] :
                            answers[c][i].key = Gets(c)[i].key)
=============================================================================
