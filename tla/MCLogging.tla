----------------------------- MODULE MCLogging -----------------------------
(* Instances of Logging: one of two threads that log, change the level and *)
(* die, and one-statement programs for each kind of item and for streams   *)
(* that are nearly full.                                                   *)
EXTENDS Logging

CONSTANTS a, b

Log(level, items) ==
  [kind |-> "log", level |-> level, errno |-> 0, func |-> 0, items |-> items,
   path |-> <<"d", "/", "f">>, line |-> 7]

Logs(level, len) == Log(level, <<String("x", len)>>)

Lines(toA, toB) == [t \in Threads |-> IF t = a THEN toA ELSE toB]

\* A header takes 38 bytes, the end of a line 7; 200 are four short lines.
Concurrent == Lines(<<Logs(INFO, 1), Logs(WARN, 2)>>,
                    <<Logs(INFO, 3), Logs(FATAL, 4)>>)
Levels == Lines(<<[kind |-> "setLogLevel", level |-> ERROR], Logs(INFO, 1),
                  Logs(ERROR, 100), Logs(WARN, 30)>>, <<Logs(WARN, 4)>>)

Int32 == {-2147483647 - 1, -2147483647, -1000, -10, -9, -1,
          0, 7, 10, 909, 2147483647}

\* Around the limits of the rows, with every double of each quantity: 9994
\* and e = 13 is the "100.0P" of IsTooLong.
SIQuantities ==
  LET Digits == ({0, 999} \X {0}) \union ({1000, 9994, 9995, 9999} \X (0..14))
                  \union {<<9014, 12>>, <<9223, 15>>, <<1000, 15>>}
  IN  UNION {{Quantity("SI", q[1], d, q[2]) : d \in SIDoubles(q[1], q[2])} :
               q \in Digits}
IECQuantities ==
  LET Hundredths ==
    ({0, 102300} \X {0})
    \union ({102400, 1023400, 10234800, 104806300, 104806400} \X {0})
    \union ({102400, 102912, 1023487, 1023488, 10234879, 10234880, 104806399,
             104806400, 104857599} \X (1..4))
    \union {<<102400, 5>>, <<819200, 5>>}
  IN  UNION {{Quantity("IEC", q[1], d, q[2]) : d \in IECDoubles(q[1])} :
               q \in Hundredths}

Values ==
  {Integer(v) : v \in Int32}
    \union {Item("pointer", v, 0) : v \in {0, 171, 2147483647}}
    \union SIQuantities \union IECQuantities
    \union {Item("double", "d", 12), Item("null", "", 0)}

\* What is left for a number, for the end of the line or for nothing.
Fillings == {3918, 3929, 3930, 3931, 3954, 3955, 3957, 3959, 3960, 3961, 3962}

Single ==
  {Lines(<<[Log(ERROR, <<v>>) EXCEPT !.errno = 11, !.func = 4]>>, <<>>) :
     v \in Values}
  \union
  {Lines(<<Log(INFO, <<String("x", n), Integer(-2147483647 - 1)>>)>>, <<>>) :
     n \in Fillings}

Scenario(does, ticks, shorts) ==
  [program |-> does,
   bounds |-> [clock |-> StartClock + ticks, faults |-> shorts]]

MCScenarios ==
  {Scenario(Concurrent, 3, 0), Scenario(Concurrent, 1, 2), Scenario(Levels, 4, 0)}
    \union {Scenario(p, 0, 0) : p \in Single}
=============================================================================
