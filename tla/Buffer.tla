-------------------------------- MODULE Buffer --------------------------------
(***************************************************************************)
(* libeva/Net/Buffer.h and Buffer.cc: the byte buffer of a connection.     *)
(*                                                                         *)
(*   +-------------------+------------------+------------------+           *)
(*   | prependable bytes |  readable bytes  |  writable bytes  |           *)
(*   +-------------------+------------------+------------------+           *)
(*   0            readerIndex_        writerIndex_      buffer_.size()     *)
(*                                                                         *)
(* A buffer is a record of buffer_ and its two indices, which count from 0 *)
(* as in the code: buffer_[i] is bytes[i + 1].  The operations are         *)
(* functions of such a record; the integers of the wire format are strings *)
(* of one, two, four or eight bytes here.                                  *)
(***************************************************************************)
EXTENDS Naturals, Sequences

CONSTANTS Byte,            \* the values of a byte
          Zero,            \* the value resize() gives to new bytes
          Strings,         \* the strings appended, prepended and read
          kCheapPrepend,
          kInitialSize,
          MaxSize          \* bound: buffer_.size()

ASSUME ByteAssumption == Zero \in Byte /\ Strings \subseteq Seq(Byte)
ASSUME SizeAssumption ==
  kCheapPrepend \in Nat /\ kInitialSize \in Nat /\ MaxSize \in Nat

VARIABLE buf

WellFormed(b) ==
  /\ b \in [bytes : Seq(Byte), reader : Nat, writer : Nat]
  /\ b.reader <= b.writer
  /\ b.writer <= Len(b.bytes)
  /\ kCheapPrepend <= Len(b.bytes)

-----------------------------------------------------------------------------
(* Pure operations.                                                        *)

NewBuffer ==
  [bytes  |-> [i \in 1..(kCheapPrepend + kInitialSize) |-> Zero],
   reader |-> kCheapPrepend,
   writer |-> kCheapPrepend]

Readable(b) == b.writer - b.reader
Writable(b) == Len(b.bytes) - b.writer

\* toStringView, retrieveAllAsString: the readable bytes.
Content(b) == [i \in 1..Readable(b) |-> b.bytes[b.reader + i]]

\* std::copy of s to offset at and after.
CopyTo(bytes, s, at) ==
  [i \in 1..Len(bytes) |-> IF i \in (at + 1)..(at + Len(s)) THEN s[i - at]
                           ELSE bytes[i]]

\* buffer_.resize( writerIndex_ + len )
Grow(b, len) ==
  [b EXCEPT !.bytes = [i \in 1..(b.writer + len) |->
                         IF i <= Len(b.bytes) THEN b.bytes[i] ELSE Zero]]

\* Mutant of MoveToFront: the indices move and the bytes do not.
MoveIndicesOnly(b) ==
  [b EXCEPT !.reader = kCheapPrepend, !.writer = kCheapPrepend + Readable(b)]

\* The readable bytes move to the front.
MoveToFront(b) ==
  [bytes  |-> CopyTo(b.bytes, Content(b), kCheapPrepend),
   reader |-> kCheapPrepend,
   writer |-> kCheapPrepend + Readable(b)]

\* Mutant of FitsAtFront: the space before kCheapPrepend counts as free.
FitsAnywhere(b, len) == len <= Writable(b) + b.reader

\* makeSpace's condition, negated.
FitsAtFront(b, len) == len + kCheapPrepend <= Writable(b) + b.reader

MakeSpace(b, len) == IF FitsAtFront(b, len) THEN MoveToFront(b) ELSE Grow(b, len)

EnsureWritableBytes(b, len) == IF Writable(b) < len THEN MakeSpace(b, len) ELSE b

\* The copy to beginWrite(), then hasWritten().
Written(b, s) ==
  [b EXCEPT !.bytes = CopyTo(@, s, b.writer), !.writer = @ + Len(s)]

Appended(b, s) == Written(EnsureWritableBytes(b, Len(s)), s)

Prepended(b, s) ==
  [b EXCEPT !.bytes = CopyTo(@, s, b.reader - Len(s)), !.reader = @ - Len(s)]

Unwritten(b, n) == [b EXCEPT !.writer = @ - n]

\* retrieve() of len bytes; retrieveAll() when they are all.
Retrieved(b, len) ==
  IF len < Readable(b)
    THEN [b EXCEPT !.reader = @ + len]
    ELSE [b EXCEPT !.reader = kCheapPrepend, !.writer = kCheapPrepend]

\* Mutant of ReadInto: writerIndex_ is not moved before extrabuf is appended.
ReadIntoOverwriting(b, s) ==
  IF Len(s) <= Writable(b) THEN Written(b, s)
  ELSE LET n == Writable(b) IN
       Appended([Written(b, SubSeq(s, 1, n)) EXCEPT !.writer = b.writer],
                SubSeq(s, n + 1, Len(s)))

\* readFd: readv() has put the first bytes of s into the writable bytes, and
\* what they do not hold into extrabuf, which is appended.
ReadInto(b, s) ==
  IF Len(s) <= Writable(b) THEN Written(b, s)
  ELSE LET n == Writable(b) IN
       Appended(Written(b, SubSeq(s, 1, n)), SubSeq(s, n + 1, Len(s)))

\* shrink: the content in a new buffer.
Shrunk(b, reserve) ==
  Appended(EnsureWritableBytes(NewBuffer, Readable(b) + reserve), Content(b))

-----------------------------------------------------------------------------
(* The calls a program may make: the preconditions are those the code      *)
(* asserts.                                                                *)

BufferInit == buf = NewBuffer

AppendBytes(s) == buf' = Appended(buf, s)

Read(s) == buf' = ReadInto(buf, s)

EnsureWritable(s) == buf' = EnsureWritableBytes(buf, Len(s))

\* The program writes s at beginWrite() itself and calls hasWritten().
HasWritten(s) == Len(s) <= Writable(buf) /\ buf' = Written(buf, s)

Unwrite(n) == buf' = Unwritten(buf, n)

Prepend(s) == Len(s) <= buf.reader /\ buf' = Prepended(buf, s)

Retrieve(n) == buf' = Retrieved(buf, n)

Shrink(s) == buf' = Shrunk(buf, Len(s))

BufferNext ==
  /\ \/ \E s \in Strings :
          \/ AppendBytes(s) \/ Read(s) \/ EnsureWritable(s) \/ HasWritten(s)
          \/ Prepend(s) \/ Shrink(s)
     \/ \E n \in 0..Readable(buf) : Unwrite(n) \/ Retrieve(n)
  /\ Len(buf'.bytes) <= MaxSize

BufferSpec == BufferInit /\ [][BufferNext]_buf

-----------------------------------------------------------------------------
(* Properties.                                                             *)

\* readerIndex_ <= writerIndex_ <= buffer_.size(), whatever the calls, and
\* there is always room for retrieveAll() to put both at kCheapPrepend.
BufferTypeOK == WellFormed(buf)

String == INSTANCE ByteString WITH content <- Content(buf)

\* To its users the buffer is a string of bytes: moving the bytes to the
\* front, growing, shrinking and reading through extrabuf are invisible, and
\* no readable byte is lost, duplicated or overwritten.
Implements == String!Spec

\* Each call does to the string exactly what its name says: append, readFd
\* and hasWritten add all of s and nothing else at the end, prepend at the
\* front, retrieve and unwrite drop n bytes, and making room or shrinking
\* changes no readable byte.
CallsAreExact ==
  [][/\ \A s \in Strings :
          /\ AppendBytes(s) \/ Read(s) \/ HasWritten(s) => String!AddLast(s)
          /\ Prepend(s) => String!AddFirst(s)
          /\ EnsureWritable(s) \/ Shrink(s) => Content(buf') = Content(buf)
     /\ \A n \in 0..Readable(buf) :
          /\ Retrieve(n) => String!DropFirst(n)
          /\ Unwrite(n) => String!DropLast(n)]_buf

\* Where makeSpace moves the content, it moves it towards the front and into
\* bytes that are there (the assertion kCheapPrepend < readerIndex_).
MovesToTheFront ==
  \A s \in Strings :
    Writable(buf) < Len(s) /\ FitsAtFront(buf, Len(s)) =>
      /\ kCheapPrepend < buf.reader
      /\ kCheapPrepend + Readable(buf) + Len(s) <= Len(buf.bytes)
=============================================================================
