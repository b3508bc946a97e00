------------------------------ MODULE LogFile ------------------------------
(***************************************************************************)
(* libeva/Logger/LogFile with FileUtil's AppendFile: the threads of a      *)
(* program append messages to a file under a lock; when it has grown, or a *)
(* new period begins, a new file takes its place; from time to time stdio's *)
(* buffer is flushed.                                                      *)
(*                                                                         *)
(* A message is a record with its length, "len".  A file's text is a       *)
(* sequence of segments: bytes from + 1 to "to" of a message, written when *)
(* the clock showed "at".  The first onDisk segments of a file have left   *)
(* the process.  (What stdio writes on its own account, when its 64 KB are *)
(* full, only adds to that, and is left out.)                              *)
(***************************************************************************)
EXTENDS Integers, Sequences, FiniteSets

CONSTANTS Threads, NoThread,
          RollSize,           \* rollSize_, in bytes
          FlushInterval,      \* flushInterval_, in seconds
          CheckEveryN,        \* checkEveryN_, in appends
          RollPerSeconds,     \* kRollPerSeconds_
          StartClock

ASSUME FileAssumption ==
  /\ NoThread \notin Threads
  /\ RollSize \in Nat /\ FlushInterval \in Nat
  /\ CheckEveryN \in Nat \ {0} /\ RollPerSeconds \in Nat \ {0}
  /\ StartClock \in Nat \ {0}

VARIABLES bounds,    \* how far the clock goes, how often fwrite falls short
          clock, faults,
          pc,        \* where each thread is in append() or flush()
          msg,       \* what it appends
          sent,      \* how much of it fwrite has taken (n)
          mutex,     \* who holds mutex_
          count, startOfPeriod, lastRoll, lastFlush,
          writtenBytes, files

fileVars == <<bounds, clock, faults, pc, msg, sent, mutex, count, startOfPeriod,
              lastRoll, lastFlush, writtenBytes, files>>
counters == <<count, startOfPeriod, lastRoll, lastFlush, writtenBytes>>

NoMessage == [len |-> 0]
Period(second) == (second \div RollPerSeconds) * RollPerSeconds
NewFile(second) == [made |-> second, text |-> <<>>, onDisk |-> 0]
Current == files[Len(files)]
Flushed(fs) == [fs EXCEPT ![Len(fs)].onDisk = Len(fs[Len(fs)].text)]

\* The constructor rolls once: the clock is past lastRoll_ = 0.
FileInit ==
  /\ clock = StartClock /\ faults = 0
  /\ pc = [t \in Threads |-> "ready"]
  /\ msg = [t \in Threads |-> NoMessage] /\ sent = [t \in Threads |-> 0]
  /\ mutex = NoThread
  /\ count = 0 /\ writtenBytes = 0
  /\ startOfPeriod = Period(StartClock)
  /\ lastRoll = StartClock /\ lastFlush = StartClock
  /\ files = <<NewFile(StartClock)>>

Tick ==
  /\ clock < bounds.clock /\ clock' = clock + 1
  /\ UNCHANGED <<bounds, faults, pc, msg, sent, mutex, counters, files>>

Goto(t, place) == pc' = [pc EXCEPT ![t] = place]
-----------------------------------------------------------------------------
(* append(): AppendFile::append and what append_unlocked does after it.    *)

\* Mutant of Lock: the LogFile is built without a mutex.
LockNothing(t) ==
  /\ pc[t] = "append" /\ Goto(t, "write")
  /\ UNCHANGED <<bounds, clock, faults, msg, sent, mutex, counters, files>>

Lock(t) ==
  /\ pc[t] = "append" /\ mutex = NoThread
  /\ mutex' = t /\ Goto(t, "write")
  /\ UNCHANGED <<bounds, clock, faults, msg, sent, counters, files>>

\* fwrite_unlocked takes all it is given or, at a fault, half or nothing.
Takes(n) == {n} \union IF faults < bounds.faults THEN {0, n \div 2} ELSE {}

\* Mutant of From: what is left is written from the message's beginning.
FromStart(t) == 0

From(t) == sent[t]

Fwrite(t, k) ==
  /\ files' = IF k = 0 THEN files
              ELSE [files EXCEPT ![Len(files)].text =
                      Append(@, [msg |-> msg[t], from |-> From(t),
                                 to |-> From(t) + k, at |-> clock])]
  /\ sent' = [sent EXCEPT ![t] = @ + k]

\* The first write, and as many more as it takes, until one takes nothing.
Write(t) ==
  LET left == msg[t].len - sent[t]
  IN  /\ pc[t] \in {"write", "rewrite"}
      /\ \E k \in Takes(left) :
           /\ Fwrite(t, k)
           /\ faults' = IF k = left THEN faults ELSE faults + 1
           /\ Goto(t, IF k = left \/ (k = 0 /\ pc[t] = "rewrite")
                      THEN "count" ELSE "rewrite")
      /\ UNCHANGED <<bounds, clock, msg, mutex, counters>>

Due == clock - lastFlush > FlushInterval

\* Mutant of Check: every look at the clock puts the next flush off.
CheckPutsOff(t) ==
  IF Period(clock) # startOfPeriod
  THEN Goto(t, "roll") /\ UNCHANGED <<lastFlush, files>>
  ELSE /\ Goto(t, "unlock") /\ lastFlush' = clock
       /\ files' = IF Due THEN Flushed(files) ELSE files

\* Every CheckEveryN-th message that does not fill the file looks at the
\* clock.
Check(t) ==
  IF Period(clock) # startOfPeriod
  THEN Goto(t, "roll") /\ UNCHANGED <<lastFlush, files>>
  ELSE /\ Goto(t, "unlock")
       /\ IF Due THEN lastFlush' = clock /\ files' = Flushed(files)
          ELSE UNCHANGED <<lastFlush, files>>

\* Mutant of Full: the size is looked at as rarely as the clock.
FullAtChecks(bytes) == bytes > RollSize /\ count + 1 >= CheckEveryN

Full(bytes) == bytes > RollSize

\* All of the message counts, whatever fwrite took of it.
CountBytes(t) ==
  LET bytes == writtenBytes + msg[t].len
  IN  /\ pc[t] = "count" /\ writtenBytes' = bytes
      /\ \/ /\ Full(bytes) /\ Goto(t, "roll")
            /\ UNCHANGED <<count, lastFlush, files>>
         \/ /\ ~Full(bytes) /\ count + 1 < CheckEveryN
            /\ count' = count + 1 /\ Goto(t, "unlock")
            /\ UNCHANGED <<lastFlush, files>>
         \/ /\ ~Full(bytes) /\ count + 1 >= CheckEveryN
            /\ count' = 0 /\ Check(t)
      /\ UNCHANGED <<bounds, clock, faults, msg, sent, mutex, startOfPeriod, lastRoll>>

\* rollFile(): there is one file a second.  Closing the old one flushes it.
RollFile(t) ==
  /\ pc[t] = "roll" /\ Goto(t, "unlock")
  /\ IF clock > lastRoll
     THEN /\ lastRoll' = clock /\ lastFlush' = clock
          /\ startOfPeriod' = Period(clock)
          /\ files' = Append(Flushed(files), NewFile(clock))
          /\ writtenBytes' = 0
     ELSE UNCHANGED <<lastRoll, lastFlush, startOfPeriod, files, writtenBytes>>
  /\ UNCHANGED <<bounds, clock, faults, msg, sent, mutex, count>>

Unlock(t) ==
  /\ pc[t] = "unlock" /\ mutex' = NoThread
  /\ Goto(t, "appended") /\ sent' = [sent EXCEPT ![t] = 0]
  /\ UNCHANGED <<bounds, clock, faults, msg, counters, files>>

\* flush(): one critical section.
Flush(t) ==
  /\ pc[t] = "flush" /\ mutex = NoThread
  /\ files' = Flushed(files) /\ Goto(t, "flushed")
  /\ UNCHANGED <<bounds, clock, faults, msg, sent, mutex, counters>>

\* The destructor closes the file.
Close == /\ files' = Flushed(files)
         /\ UNCHANGED <<bounds, clock, faults, pc, msg, sent, mutex, counters>>

FileStep(t) == \/ Lock(t) \/ Write(t) \/ CountBytes(t) \/ RollFile(t)
               \/ Unlock(t) \/ Flush(t)
-----------------------------------------------------------------------------
(* What is promised of the files.                                          *)

FileTypeOK ==
  /\ clock \in StartClock..bounds.clock /\ faults \in 0..bounds.faults
  /\ pc \in [Threads -> {"ready", "append", "write", "rewrite", "count",
                         "roll", "unlock", "appended", "flush", "flushed"}]
  /\ mutex \in Threads \union {NoThread}
  /\ \A t \in Threads :
       (mutex = t) <=> pc[t] \in {"write", "rewrite", "count", "roll", "unlock"}
  /\ count \in 0..(CheckEveryN - 1)
  /\ lastRoll <= lastFlush /\ lastFlush <= clock
  /\ startOfPeriod = Period(lastRoll)
  /\ Current.made = lastRoll
  /\ \A i \in DOMAIN files : files[i].onDisk \in 0..Len(files[i].text)

\* The messages, by their first segments, in a file's text.
Firsts(text) == {i \in DOMAIN text : text[i].from = 0}

\* The messages whose append() is over and whose last bytes are missing.
Cut(text) == {i \in DOMAIN text :
                /\ text[i].to < text[i].msg.len
                /\ i = Len(text) \/ text[i + 1].from = 0
                /\ \A t \in Threads : pc[t] \in {"write", "rewrite"}
                                         => msg[t] # text[i].msg}

\* The bytes of a message are in one file, side by side and in order, each
\* once, whatever other threads append, and however often fwrite falls
\* short; and a message is cut only where fwrite fell short of it twice
\* (LogFile.cc:38 append, FileUtil.cc:33 append).
MessagesIntact ==
  /\ \A f \in DOMAIN files : LET text == files[f].text IN
       \A i \in DOMAIN text : text[i].from > 0 =>
         i > 1 /\ text[i - 1].msg = text[i].msg /\ text[i - 1].to = text[i].from
  /\ \A f, g \in DOMAIN files :
       \A i \in Firsts(files[f].text), j \in Firsts(files[g].text) :
         files[f].text[i].msg = files[g].text[j].msg => f = g /\ i = j
  /\ 2 * Cardinality(UNION {Cut(files[f].text) \X {f} : f \in DOMAIN files})
       <= faults

\* A message does not stay in stdio's buffer for ever: once it is older than
\* flushInterval_, fewer than checkEveryN_ messages follow before a flush
\* or a new file takes it to the disk, though the appends that fill the file
\* are not counted (LogFile.cc:64 append_unlocked).
BufferedIsFresh ==
  mutex = NoThread =>
    LET text == Current.text IN
    \A i \in Current.onDisk + 1..Len(text) :
      Cardinality({j \in Firsts(text) :
                     text[j].at > text[i].at + FlushInterval}) < CheckEveryN

BytesUpTo(text, i) ==
  LET sum[k \in 0..i] ==
        IF k = 0 THEN 0 ELSE sum[k - 1] + text[k].to - text[k].from
  IN  sum[i]

\* What is written beyond rollSize_ after the file's first second.
Excess(f) == {i \in DOMAIN f.text : /\ f.text[i].at > f.made
                                    /\ BytesUpTo(f.text, i) > RollSize}

\* Files are bounded although rollFile() refuses a second file in a second:
\* but for that second, only the last message of a file goes beyond
\* rollSize_, and the file is then closed; and at most checkEveryN_ messages
\* of a later period go to a file (LogFile.cc:64 append_unlocked, 93
\* rollFile).
FilesBounded ==
  \A f \in DOMAIN files : f < Len(files) \/ mutex = NoThread =>
    LET text == files[f].text
    IN  /\ \A i \in Excess(files[f]) :
             f < Len(files) /\ text[i].msg = text[Len(text)].msg
        /\ Cardinality({i \in Firsts(text) :
                          Period(text[i].at) # Period(files[f].made)})
             <= CheckEveryN
=============================================================================
