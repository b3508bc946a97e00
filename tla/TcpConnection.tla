---------------------------- MODULE TcpConnection ----------------------------
(***************************************************************************)
(* libeva/Net/TcpConnection.cc: the bytes of a connection, to the peer and *)
(* from it.  send() works on the loop's thread, where it writes to the     *)
(* socket as far as that takes the bytes and leaves the rest to            *)
(* handleWrite(); on another thread it queues a functor that does the same.*)
(* handleRead() reads what has come and hands it to the program's msgCb_.  *)
(*                                                                         *)
(* The loop polls the socket and later, when it has handled other events,  *)
(* calls Event::handle (Reactor/Event.cc), which goes by what poll saw     *)
(* (revents_), whatever has happened since.  POLLHUP never comes without   *)
(* POLLIN here: a TCP socket with the one has the other, and a connection  *)
(* that is registered asks for it; so closeCallback_ is not called.        *)
(*                                                                         *)
(* inputBuffer_ and outputBuffer_ are strings of bytes (Buffer.tla         *)
(* implements one), and the socket holds at most Room bytes for the peer.  *)
(* state_ is an int that send() reads on any thread and the loop writes;   *)
(* kConnecting and kDisconnecting are never assigned.                      *)
(***************************************************************************)
EXTENDS Naturals, Sequences, Functions

CONSTANTS Others,    \* the threads that send, beside the loop's own
          Messages,  \* what they send: strings of bytes, none empty
          Room,      \* the bytes the socket holds
          Inbound,   \* the bytes the peer sends, if it gets so far
          MaxSends   \* bound: calls of send()

ASSUME MessagesAssumption ==
  \A m \in Messages : m \in Seq(Range(m)) /\ m # <<>>
ASSUME BoundsAssumption ==
  /\ Room \in Nat \ {0} /\ MaxSends \in Nat
  /\ Inbound \in Seq(Range(Inbound))

VARIABLES
  state,     \* state_
  life,      \* new, established, closed by the peer or destroyed
  reading,   \* the event asks for kReadEvent
  writing,   \* the event asks for kWriteEvent
  handle,    \* where the loop is with the event
  revents,   \* what poll saw of it
  output,    \* the readable bytes of outputBuffer_
  socket,    \* the bytes the socket holds for the peer
  received,  \* history: the bytes the peer has read
  accepted,  \* history: the bytes sendInReactor() has been given in time
  offered,   \* history: how many bytes of Inbound the peer has sent
  incoming,  \* those of them that the socket holds
  input,     \* the readable bytes of inputBuffer_
  taken,     \* history: the bytes msgCb_ has taken from there
  error,     \* the socket has an error to tell
  functors,  \* the sends queued to the loop
  call,      \* what each other thread's send() is about to queue, or <<>>
  peer,      \* the peer: open, closed or reset
  sends      \* calls of send() so far

eventVars == <<state, life, reading, writing>>
handleVars == <<handle, revents>>
outVars == <<output, socket, received, accepted>>
inVars == <<offered, incoming, input, taken>>
callVars == <<functors, call, sends>>
vars == <<eventVars, handleVars, outVars, inVars, error, callVars, peer>>

Init ==
  /\ state = "kDisconnected" /\ life = "new"
  /\ reading = FALSE /\ writing = FALSE
  /\ handle = "idle" /\ revents = {}
  /\ output = <<>> /\ socket = <<>> /\ received = <<>> /\ accepted = <<>>
  /\ offered = 0 /\ incoming = <<>> /\ input = <<>> /\ taken = <<>>
  /\ functors = <<>> /\ call = [t \in Others |-> <<>>]
  /\ peer = "open" /\ error = FALSE /\ sends = 0

connectEstablished ==
  /\ life = "new" /\ life' = "established"
  /\ state' = "kConnected" /\ reading' = TRUE
  /\ UNCHANGED <<writing, handleVars, outVars, inVars, error, callVars, peer>>

-----------------------------------------------------------------------------
(* Sending.                                                                *)

Prefix(s, n) == SubSeq(s, 1, n)
Rest(s, n) == SubSeq(s, n + 1, Len(s))

\* write() takes n bytes of s: some, as long as there is room for them, or
\* none (EWOULDBLOCK).  A socket the peer has reset takes none, and has then
\* told its error (EPIPE, ECONNRESET).
Takes(s, n) ==
  /\ n <= Len(s) /\ n <= Room - Len(socket)
  /\ n = 0 => Len(socket) = Room
  /\ peer # "reset"

WriteFails == peer = "reset" /\ error' = FALSE

\* Mutant of WriteNow: the write event is not asked for.
WriteAndForget(m) ==
  \/ /\ \E n \in 0..Len(m) : /\ Takes(m, n)
                             /\ socket' = socket \o Prefix(m, n)
                             /\ output' = output \o Rest(m, n)
     /\ accepted' = accepted \o m
     /\ UNCHANGED <<writing, error>>
  \/ WriteFails /\ UNCHANGED <<writing, output, socket, accepted>>

\* Write to the socket and keep what it does not take for handleWrite(); a
\* write that fails for good gives m up.
WriteNow(m) ==
  \/ /\ \E n \in 0..Len(m) : /\ Takes(m, n)
                             /\ socket' = socket \o Prefix(m, n)
                             /\ output' = output \o Rest(m, n)
                             /\ writing' = (writing \/ n < Len(m))
     /\ accepted' = accepted \o m
     /\ UNCHANGED error
  \/ WriteFails /\ UNCHANGED <<writing, output, socket, accepted>>

WriteLater(m) ==
  /\ output' = output \o m
  /\ writing' = TRUE
  /\ accepted' = accepted \o m
  /\ UNCHANGED <<socket, error>>

\* Mutant of sendInReactor: it does not look at what waits already.
sendOvertaking(m) ==
  \/ /\ state = "kDisconnected"
     /\ UNCHANGED <<writing, output, socket, accepted, error>>
  \/ state # "kDisconnected" /\ WriteNow(m)

\* Mutant of sendInReactor: a closed connection is not told apart.
sendWhenClosed(m) ==
  IF ~writing /\ output = <<>> THEN WriteNow(m) ELSE WriteLater(m)

sendInReactor(m) ==
  \/ /\ state = "kDisconnected"
     /\ UNCHANGED <<writing, output, socket, accepted, error>>
  \/ /\ state # "kDisconnected"
     /\ IF ~writing /\ output = <<>> THEN WriteNow(m) ELSE WriteLater(m)

\* send() on the loop's thread: in a functor, in the callback of another event
\* or in msgCb_.
Send(m) ==
  /\ handle # "write"
  /\ sends < MaxSends /\ sends' = sends + 1
  /\ state = "kConnected"
  /\ sendInReactor(m)
  /\ UNCHANGED <<state, life, reading, handleVars, received, inVars, functors,
                 call, peer>>

\* send() on another thread reads state_.
SendTest(t, m) ==
  /\ sends < MaxSends /\ sends' = sends + 1
  /\ call[t] = <<>>
  /\ state = "kConnected"
  /\ call' = [call EXCEPT ![t] = m]
  /\ UNCHANGED <<eventVars, handleVars, outVars, inVars, error, functors, peer>>

\* Then it queues sendInReactor().
SendQueue(t) ==
  /\ call[t] # <<>>
  /\ functors' = Append(functors, call[t])
  /\ call' = [call EXCEPT ![t] = <<>>]
  /\ UNCHANGED <<eventVars, handleVars, outVars, inVars, error, peer, sends>>

\* The loop executes the functor, when it has handled the events.
RunFunctor ==
  /\ handle = "idle"
  /\ functors # <<>>
  /\ functors' = Tail(functors)
  /\ sendInReactor(Head(functors))
  /\ UNCHANGED <<state, life, reading, handleVars, received, inVars, call, peer,
                 sends>>

-----------------------------------------------------------------------------
(* The events of the connection.                                           *)

\* What epoll_wait tells of the socket.
Ready ==
  (IF incoming # <<>> \/ peer # "open" THEN {"POLLIN"} ELSE {})
    \union (IF writing /\ (Len(socket) < Room \/ peer = "reset")
            THEN {"POLLOUT"} ELSE {})
    \union (IF error THEN {"POLLERR"} ELSE {})
    \union (IF peer = "reset" THEN {"POLLHUP"} ELSE {})

Demultiplex ==
  /\ handle = "idle" /\ reading /\ Ready # {}
  /\ revents' = Ready /\ handle' = "polled"
  /\ UNCHANGED <<eventVars, outVars, inVars, error, callVars, peer>>

\* After the read callback, Event::handle looks at POLLOUT.
ToWrite == IF "POLLOUT" \in revents
           THEN handle' = "write" /\ UNCHANGED revents
           ELSE handle' = "idle" /\ revents' = {}

\* handleError() reads the error, and the socket forgets it.
handleError == error' = FALSE

handleClose ==
  /\ state' = "kDisconnected" /\ life' = "closed"
  /\ reading' = FALSE /\ writing' = FALSE

\* Mutant of ReadEnds: a connection that is not open is not read any more.
ReadEndsEarly == peer # "open"

\* There is nothing left to read.
ReadEnds == incoming = <<>>

\* The error callback, if poll saw an error, and the read callback.
handleRead ==
  LET pending == error /\ "POLLERR" \notin revents
  IN  /\ handle = "polled" /\ "POLLIN" \in revents
      /\ \/ /\ ~ReadEnds /\ handle' = "message"
            /\ \E n \in 1..Len(incoming) :
                 /\ input' = input \o Prefix(incoming, n)
                 /\ incoming' = Rest(incoming, n)
            /\ IF "POLLERR" \in revents THEN handleError ELSE UNCHANGED error
            /\ UNCHANGED <<eventVars, revents, offered, taken>>
         \/ /\ ReadEnds /\ ~pending /\ ToWrite
            /\ handleClose /\ error' = FALSE /\ UNCHANGED inVars
         \/ /\ ReadEnds /\ pending /\ ToWrite
            /\ handleError /\ UNCHANGED <<eventVars, inVars>>
      /\ UNCHANGED <<outVars, callVars, peer>>

\* msgCb_ has taken some bytes, and returns.
MessageTaken ==
  /\ handle = "message" /\ ToWrite
  /\ \E n \in 0..Len(input) : /\ taken' = taken \o Prefix(input, n)
                              /\ input' = Rest(input, n)
  /\ UNCHANGED <<eventVars, outVars, offered, incoming, error, callVars, peer>>

NothingToRead ==
  /\ handle = "polled" /\ "POLLIN" \notin revents /\ ToWrite
  /\ UNCHANGED <<eventVars, outVars, inVars, error, callVars, peer>>

\* Mutant of WriteOutput: kWriteEvent is cleared after any write.
WriteOutputOnce ==
  /\ \E n \in 1..Len(output) :
       /\ Takes(output, n)
       /\ socket' = socket \o Prefix(output, n)
       /\ output' = Rest(output, n)
       /\ writing' = FALSE
  /\ UNCHANGED error

\* The socket takes some of the bytes of outputBuffer_.
WriteOutput ==
  /\ \E n \in 1..Len(output) :
       /\ Takes(output, n)
       /\ socket' = socket \o Prefix(output, n)
       /\ output' = Rest(output, n)
       /\ writing' = (n < Len(output))
  /\ UNCHANGED error

\* Mutant of IsWriting: what poll saw is believed.
WasWriting == output # <<>>

IsWriting == writing

\* After a reset the write fails, which is only logged; and the read callback
\* may just have closed the connection.
handleWrite ==
  /\ handle = "write" /\ handle' = "idle" /\ revents' = {}
  /\ \/ IsWriting /\ WriteOutput
     \/ IsWriting /\ WriteFails /\ UNCHANGED <<writing, output, socket>>
     \/ ~IsWriting /\ UNCHANGED <<writing, output, socket, error>>
  /\ UNCHANGED <<state, life, reading, received, accepted, inVars, callVars,
                 peer>>

\* The server destroys the connection, in a functor.
connectDestroyed ==
  /\ handle = "idle" /\ state = "kConnected"
  /\ state' = "kDisconnected" /\ life' = "destroyed"
  /\ reading' = FALSE /\ writing' = FALSE
  /\ UNCHANGED <<handleVars, outVars, inVars, error, callVars, peer>>

PeerReads ==
  /\ peer = "open"
  /\ \E n \in 1..Len(socket) :
       /\ received' = received \o Prefix(socket, n)
       /\ socket' = Rest(socket, n)
  /\ UNCHANGED <<eventVars, handleVars, output, accepted, inVars, error,
                 callVars, peer>>

PeerSends ==
  /\ peer = "open" /\ offered < Len(Inbound)
  /\ offered' = offered + 1
  /\ incoming' = Append(incoming, Inbound[offered + 1])
  /\ UNCHANGED <<eventVars, handleVars, outVars, input, taken, error, callVars,
                 peer>>

\* The peer ends its side, or resets the connection, which discards what the
\* socket holds for it, and maybe what it has sent.
PeerEnds ==
  /\ \/ /\ peer = "open" /\ peer' = "closed"
        /\ UNCHANGED <<socket, incoming, error>>
     \/ /\ peer \in {"open", "closed"} /\ peer' = "reset"
        /\ socket' = <<>> /\ error' = TRUE
        /\ incoming' \in {incoming, <<>>}
  /\ UNCHANGED <<eventVars, handleVars, output, received, accepted, offered,
                 input, taken, callVars>>

-----------------------------------------------------------------------------

HandleStep == \/ Demultiplex \/ handleRead \/ MessageTaken \/ NothingToRead
              \/ handleWrite

Next ==
  \/ connectEstablished
  \/ \E m \in Messages : Send(m) \/ \E t \in Others : SendTest(t, m)
  \/ \E t \in Others : SendQueue(t)
  \/ RunFunctor \/ HandleStep \/ connectDestroyed
  \/ PeerReads \/ PeerSends \/ PeerEnds

Spec == Init /\ [][Next]_vars

\* The loop handles what is ready and in every round executes its functors
\* (EveryFunctorRuns of Reactor.tla), a call of send() goes on, and a peer
\* that does not end the connection reads.
FairSpec ==
  /\ Spec
  /\ SF_vars(RunFunctor) /\ WF_vars(HandleStep)
  /\ \A t \in Others : WF_vars(SendQueue(t))
  /\ WF_vars(PeerReads)

-----------------------------------------------------------------------------
(* Properties.                                                             *)

Bytes == UNION {Range(m) : m \in Messages}

\* Every variable has its type; only a connected connection has events.
TypeOK ==
  /\ state \in {"kDisconnected", "kConnected"}
  /\ life \in {"new", "established", "closed", "destroyed"}
  /\ life = "established" <=> state = "kConnected"
  /\ reading \in BOOLEAN /\ writing \in BOOLEAN
  /\ reading <=> state = "kConnected"
  /\ handle \in {"idle", "polled", "message", "write"}
  /\ revents \subseteq {"POLLIN", "POLLOUT", "POLLERR", "POLLHUP"}
  /\ output \in Seq(Bytes) /\ socket \in Seq(Bytes)
  /\ received \in Seq(Bytes) /\ accepted \in Seq(Bytes)
  /\ Len(socket) <= Room
  /\ offered \in 0..Len(Inbound) /\ incoming \in Seq(Range(Inbound))
  /\ input \in Seq(Range(Inbound)) /\ taken \in Seq(Range(Inbound))
  /\ functors \in Seq(Messages)
  /\ call \in [Others -> Messages \cup {<<>>}]
  /\ peer \in {"open", "closed", "reset"} /\ error \in BOOLEAN
  /\ sends \in 0..MaxSends

\* The loop asks for the write event exactly while bytes wait in
\* outputBuffer_: it neither forgets them nor spins on a writable socket
\* (TcpConnection.cc:77 sendInReactor, 126 handleWrite).
WritingWhileOutput ==
  state = "kConnected" => (writing <=> output # <<>>)

\* No byte is lost, duplicated or reordered between send() and the peer, or
\* between the peer and msgCb_, as long as the peer does not reset the
\* connection; and the connection is not closed before all has been read
\* (TcpConnection.cc:68 sendInReactor, 108 handleRead, 124 handleWrite).
StreamIntact ==
  /\ peer # "reset" => /\ accepted = received \o socket \o output
                       /\ Prefix(Inbound, offered) = taken \o input \o incoming
  /\ life = "closed" => incoming = <<>>

\* Nothing is written to the socket once the connection is closed, although
\* sends of other threads may still be queued then, and the event that is
\* being handled may be a write event too (Event.cc:36).
NoWriteAfterClose ==
  [][state = "kDisconnected" => Len(socket') <= Len(socket)]_vars

\* Everything send() was called with reaches the peer, if the peer goes on
\* reading and the connection is not destroyed: what the loop's thread sent,
\* what is queued, and what another thread is about to queue.  And what the
\* peer has sent comes to msgCb_, though the connection may end meanwhile.
EverythingArrives ==
  /\ (state = "kConnected" /\ peer = "open"
        /\ (output # <<>> \/ functors # <<>>
             \/ \E t \in Others : call[t] # <<>>))
       ~> \/ state # "kConnected" \/ peer # "open"
          \/ /\ received = accepted /\ functors = <<>>
             /\ \A t \in Others : call[t] = <<>>
  /\ (life = "established" /\ incoming # <<>>)
       ~> (incoming = <<>> \/ life = "destroyed")
=============================================================================
