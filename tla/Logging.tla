------------------------------ MODULE Logging ------------------------------
(***************************************************************************)
(* libeva/Logger/Logging: log statements of several threads, wired to a    *)
(* LogFile as Logger/tests/logfile_test.cc does it (setOutput: append,     *)
(* setFlush: flush).  What a statement does in its own thread up to the    *)
(* end of ~Logger's finish() touches nothing of other threads, and is one  *)
(* step.                                                                   *)
(***************************************************************************)
EXTENDS LogFile, LogStream

CONSTANTS Scenarios   \* what each thread does, in order, and the bounds

\* Logger::LogLevel
TRACE == 0
DEBUG == 1
INFO == 2
WARN == 3
ERROR == 4
FATAL == 5

\* What << takes: a number of less than MaxNumericSize characters, a string,
\* a null pointer, or a quantity with its unit, any of 64 bits that is not
\* negative, as LogStream.h:194 requires, with the doubles it may become.
IsItem(item) ==
  \/ /\ item.kind = "integer" /\ item.value \in Int
     /\ Len(convert(item.value)) < MaxNumericSize
  \/ /\ item.kind = "pointer" /\ item.value \in Nat
     /\ Len(convertHex(item.value)) + 2 < MaxNumericSize
  \/ item.kind = "double" /\ item.len \in 0..(MaxNumericSize - 1)
  \/ item.kind = "string" /\ item.len \in Nat
  \/ item.kind = "null"
  \/ /\ item.kind = "SI" /\ item.len \in 0..15
     /\ item.value \in (IF item.len = 0 THEN 0 ELSE 1000)..9999
     /\ item.len = 15 => item.value <= 9223
     /\ item.double \in SIDoubles(item.value, item.len)
  \/ /\ item.kind = "IEC" /\ item.len \in 0..5
     /\ item.value \in (IF item.len = 0 THEN 0 ELSE 102400)..104857599
     /\ item.len = 0 => item.value % 100 = 0
     /\ item.len = 5 => item.value <= 819200
     /\ item.double \in IECDoubles(item.value)

IsSequence(s) == s \in Seq({s[i] : i \in DOMAIN s})
AreItems(s) == IsSequence(s) /\ \A i \in DOMAIN s : IsItem(s[i])

IsStatement(st) ==
  \/ st.kind = "setLogLevel" /\ st.level \in TRACE..FATAL
  \/ /\ st.kind = "log" /\ st.level \in TRACE..FATAL
     /\ st.func \in Nat /\ IsSequence(st.path) /\ AreItems(st.items)
     /\ IsItem(Integer(st.errno)) /\ IsItem(Integer(st.line))

ASSUME ScenarioAssumption ==
  \A s \in Scenarios :
    /\ s.bounds.clock \in Nat /\ s.bounds.faults \in Nat
    /\ \A t \in Threads :
         /\ IsSequence(s.program[t])
         /\ \A i \in DOMAIN s.program[t] : IsStatement(s.program[t][i])

VARIABLES program, next, logLevel, \* g_logLevel
          lastSecond, time,        \* t_lastSecond and t_time, of each thread
          stream,                  \* the statement's stream, until it is output
          ended                    \* "no", "exit" or "abort"

threadVars == <<program, next, logLevel, lastSecond, time, stream, ended>>
vars == <<fileVars, threadVars>>

Init ==
  /\ FileInit
  /\ \E s \in Scenarios : program = s.program /\ bounds = s.bounds
  /\ next = [t \in Threads |-> 1]
  /\ logLevel = TRACE
  /\ lastSecond = [t \in Threads |-> 0] /\ time = [t \in Threads |-> 0]
  /\ stream = [t \in Threads |-> EmptyStream]
  /\ ended = "no"

HasNext(t) == /\ ended = "no" /\ pc[t] = "ready"
              /\ next[t] <= Len(program[t])
Statement(t) == program[t][next[t]]
Advance(t) == next' = [next EXCEPT ![t] = @ + 1]

\* A statement of the program that calls setLogLevel().
SetLogLevel(t) ==
  /\ HasNext(t) /\ Statement(t).kind = "setLogLevel"
  /\ logLevel' = Statement(t).level /\ Advance(t)
  /\ UNCHANGED <<fileVars, program, lastSecond, time, stream, ended>>

\* LOG_TRACE, LOG_DEBUG and LOG_INFO look at the level, the others do not.
Enabled(st) == st.level > INFO \/ logLevel <= st.level

Skip(t) ==
  /\ HasNext(t) /\ Statement(t).kind = "log" /\ ~Enabled(Statement(t))
  /\ Advance(t)
  /\ UNCHANGED <<fileVars, program, logLevel, lastSecond, time, stream, ended>>
-----------------------------------------------------------------------------
(* The parts of a line.                                                    *)

\* SourceFile: what follows the last slash of the path.
Basename(path) ==
  LET slashes == {i \in DOMAIN path : path[i] = "/"}
      last == IF slashes = {} THEN 0 ELSE Max(slashes)
  IN  SubSeq(path, last + 1, Len(path))

\* Impl's constructor, the Logger's own constructors, and finish().
Items(st, second) ==
  <<String(second, 17), String("microseconds", 9),
    String("tid", 6), String(st.level, 6)>>
  \o (IF st.errno = 0 THEN <<>>
      ELSE <<String("strerror", 20), String(" (errno=", 8),
             Integer(st.errno), String(") ", 2)>>)
  \o (IF st.func = 0 THEN <<>>
      ELSE <<String("func", st.func), String(" ", 1)>>)
  \o st.items
  \o <<String(" - ", 3), String("file", Len(Basename(st.path))),
       String(":", 1), Integer(st.line), String("\n", 1)>>

\* Mutant of TextOf: the text is not renewed within a minute (here, 4).
TextOfMinute(t, second) ==
  IF second \div 4 # lastSecond[t] \div 4 THEN second ELSE time[t]

\* formatTime() formats a second once in a thread and keeps the text.
TextOf(t, second) == IF second # lastSecond[t] THEN second ELSE time[t]

\* The Logger is constructed, the program's items are added, and the
\* destructor hands the line to g_output.
Compose(t) ==
  LET st == Statement(t)
      text == TextOf(t, clock)
      line == PutAll(EmptyStream, Items(st, text))
  IN  /\ HasNext(t) /\ st.kind = "log" /\ Enabled(st)
      /\ time' = [time EXCEPT ![t] = text]
      /\ lastSecond' = [lastSecond EXCEPT ![t] = clock]
      /\ stream' = [stream EXCEPT ![t] = line]
      /\ msg' = [msg EXCEPT ![t] =
                   [by |-> t, no |-> next[t], second |-> clock,
                    text |-> text, len |-> line.length]]
      /\ Goto(t, "append")
      /\ UNCHANGED <<bounds, clock, faults, sent, mutex, counters, files,
                     program, next, logLevel, ended>>

\* ~Logger ends, or for FATAL flushes first.
Done(t) ==
  /\ pc[t] = "appended" /\ Statement(t).level # FATAL
  /\ Goto(t, "ready") /\ Advance(t)
  /\ msg' = [msg EXCEPT ![t] = NoMessage]
  /\ stream' = [stream EXCEPT ![t] = EmptyStream]
  /\ UNCHANGED <<bounds, clock, faults, sent, mutex, counters, files,
                 program, logLevel, lastSecond, time, ended>>

\* Mutant of FatalFlush: abort() without g_flush().
FatalNoFlush(t) ==
  /\ pc[t] = "appended" /\ Statement(t).level = FATAL
  /\ Goto(t, "flushed")
  /\ UNCHANGED <<bounds, clock, faults, msg, sent, mutex, counters, files, threadVars>>

FatalFlush(t) ==
  /\ pc[t] = "appended" /\ Statement(t).level = FATAL
  /\ Goto(t, "flush")
  /\ UNCHANGED <<bounds, clock, faults, msg, sent, mutex, counters, files, threadVars>>

\* abort() ends the process with what stdio still holds.
Abort(t) ==
  /\ pc[t] = "flushed" /\ ended' = "abort"
  /\ UNCHANGED <<fileVars, program, next, logLevel, lastSecond, time, stream>>

\* main() returns after the other threads, and g_logFile is destroyed.
Exit ==
  /\ ended = "no"
  /\ \A t \in Threads : pc[t] = "ready" /\ next[t] > Len(program[t])
  /\ Close /\ ended' = "exit"
  /\ UNCHANGED <<program, next, logLevel, lastSecond, time, stream>>

ThreadStep(t) ==
  /\ ended = "no"
  /\ \/ SetLogLevel(t) \/ Skip(t) \/ Compose(t) \/ Done(t)
     \/ FatalFlush(t) \/ Abort(t)
     \/ FileStep(t) /\ UNCHANGED threadVars

Next == \/ \E t \in Threads : ThreadStep(t)
        \/ ended = "no" /\ Tick /\ UNCHANGED threadVars
        \/ Exit

Spec == Init /\ [][Next]_vars
-----------------------------------------------------------------------------
TypeOK ==
  /\ FileTypeOK
  /\ ended \in {"no", "exit", "abort"}
  /\ \A t \in Threads : next[t] \in 1..Len(program[t]) + 1

DigitOf(c) == CHOOSE d \in 0..9 : digitsHex[d + 1] = c

\* The value a text of decimal digits stands for.
Decimal(text) ==
  LET negative == text[1] = "-"
      value[i \in 0..Len(text)] ==
        IF i = 0 THEN 0
        ELSE IF text[i] = "-" THEN 0
        ELSE 10 * value[i - 1] - DigitOf(text[i])
  IN  IF negative THEN value[Len(text)] ELSE -value[Len(text)]

\* The one quantity whose text LogStream.cc makes longer than LogStream.h:193
\* says: an integer just below 99.95P, so one decimal (LogStream.cc:134), whose
\* double prints as "100.0P".
IsTooLong(item) ==
  /\ item.kind = "SI" /\ item.len = 13
  /\ item.value = 9994 /\ item.double = 9995

Right(p) ==
  CASE p.item.kind = "integer" ->
         /\ Decimal(p.text) = p.item.value
         /\ p.text[1] = "0" => Len(p.text) = 1
    [] p.item.kind = "SI" -> p.len <= IF IsTooLong(p.item) THEN 6 ELSE 5
    [] p.item.kind = "IEC" -> p.len <= 6
    [] OTHER -> TRUE

\* A stream never touches a byte behind its end, the '\0' of a conversion
\* included; a number in it is the decimal text of the value, the smallest
\* int too; a quantity is as short as LogStream.h:192-200 promises, 5 and 6
\* characters, but for the "100.0P" of IsTooLong, which breaks the promise;
\* and the line end is missing only where no two bytes were left.
StatementRight ==
  \A t \in Threads : LET s == stream[t] IN
    /\ s.length < Size /\ s.top <= Size
    /\ \A i \in DOMAIN s.pieces : Right(s.pieces[i])
    /\ s.length > 0 =>
         s.pieces[Len(s.pieces)].text = "\n" \/ avail(s) <= 1

\* A line shows the second in which its statement began, although the text
\* is kept from statement to statement in each thread (Logging.cc:134).
TimeIsOwn ==
  \A f \in DOMAIN files : \A i \in DOMAIN files[f].text :
    files[f].text[i].msg.text = files[f].text[i].msg.second

\* Every line is what its statement meant, in its own memory, but for the
\* length of "100.0P" (StatementRight).
LinesRight == StatementRight /\ TimeIsOwn

\* The segments of messages that t had output before it aborted.
FatalSegments(t) ==
  {s \in UNION {{f} \X DOMAIN files[f].text : f \in DOMAIN files} :
     files[s[1]].text[s[2]].msg.by = t}

\* When abort() is called, the fatal line and all that was written before it
\* is on the disk, in whichever file; when the program exits, everything is
\* (Logging.cc:200 ~Logger).
EndsOnDisk ==
  /\ ended = "abort" =>
       \E t \in Threads :
         /\ pc[t] = "flushed"
         /\ \A s \in FatalSegments(t) : \A f \in 1..s[1] :
              \A i \in DOMAIN files[f].text :
                f < s[1] \/ i <= s[2] => i <= files[f].onDisk
  /\ ended = "exit" =>
       \A f \in DOMAIN files : files[f].onDisk = Len(files[f].text)
=============================================================================
