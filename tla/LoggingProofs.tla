----------------------------- MODULE LoggingProofs -----------------------------
(***************************************************************************)
(* Proofs about Logging.tla, with its LogFile.tla and LogStream.tla: for   *)
(* any threads, statements, sizes, intervals and clocks, and however often *)
(* fwrite falls short.                                                     *)
(*                                                                         *)
(* The argument.  A message goes to a file while its thread holds the      *)
(* mutex, so that what a thread has written so far ends the current file   *)
(* (Partly), and no message begins twice (Taken, Once).  A message that is *)
(* cut took two faults (Cuts).  The messages that have begun since a flush *)
(* was due, and those of a file of another period, are no more than the    *)
(* calls that have been counted (Counts): the call that would be the next  *)
(* flushes, or rolls the file.  A line is composed piece by piece in a     *)
(* stream of which every piece says whether it still fits; the digits of   *)
(* a number are found by the recursion of convert(), and read again by     *)
(* that of Decimal().  What a recursive function is, is shown through the  *)
(* least number at which it would be something else.                       *)
(***************************************************************************)
EXTENDS Logging, FiniteSetTheorems, SequenceTheorems, WellFoundedInduction, TLAPS

-----------------------------------------------------------------------------
(* The inductive invariant.                                                *)

Messages == [by : Threads, no : Nat, second : Nat, text : Nat, len : Nat]
Segments == [msg : Messages, from : Nat, to : Nat, at : Nat]
LogFiles == [made : Nat, text : Seq(Segments), onDisk : Nat]

Writing == {"write", "rewrite", "count", "roll", "unlock"}
Places == Writing \cup {"ready", "append", "appended", "flush", "flushed"}

LogTypes ==
  /\ clock \in Nat /\ clock >= StartClock /\ faults \in Nat
  /\ pc \in [Threads -> Places]
  /\ msg \in [Threads -> Messages \cup {NoMessage}]
  /\ sent \in [Threads -> Nat] /\ next \in [Threads -> Nat \ {0}]
  /\ lastSecond \in [Threads -> Nat] /\ time \in [Threads -> Nat]
  /\ mutex \in Threads \cup {NoThread}
  /\ count \in 0..(CheckEveryN - 1) /\ writtenBytes \in Nat
  /\ lastRoll \in Nat /\ lastFlush \in Nat
  /\ files \in Seq(LogFiles) /\ files # <<>>
  /\ ended \in {"no", "exit", "abort"}

\* The program is one of the scenarios'.
Programs ==
  \A t \in Threads :
    /\ IsSequence(program[t])
    /\ \A i \in DOMAIN program[t] : IsStatement(program[t][i])

Clocks ==
  /\ lastRoll <= lastFlush /\ lastFlush <= clock
  /\ startOfPeriod = Period(lastRoll) /\ Current.made = lastRoll

Locked == \A t \in Threads : mutex = t <=> pc[t] \in Writing

\* A thread that is not between two statements has a message of its own.
Numbered ==
  \A t \in Threads :
    pc[t] # "ready" => msg[t] \in Messages /\ msg[t].by = t /\ msg[t].no = next[t]

\* What fwrite has taken of a message ends with the file's last segment.
Partly ==
  \A t \in Threads :
    /\ sent[t] > 0 => pc[t] \in {"rewrite", "count", "roll", "unlock"}
    /\ pc[t] \in Writing => sent[t] <= msg[t].len
    /\ sent[t] > 0 /\ pc[t] \in {"rewrite", "count", "roll"} =>
         /\ Current.text # <<>>
         /\ Current.text[Len(Current.text)].msg = msg[t]
         /\ Current.text[Len(Current.text)].to = sent[t]

Segment(f, i) == files[f].text[i]

\* Whose message a file holds has begun to write it, or written it before.
Taken ==
  \A f \in DOMAIN files : \A i \in DOMAIN files[f].text :
    LET m == Segment(f, i).msg IN
      \/ m.no < next[m.by]
      \/ /\ m = msg[m.by] /\ m.no = next[m.by]
         /\ \/ sent[m.by] > 0
            \/ pc[m.by] \in {"appended", "flush", "flushed"}

\* A segment that continues a message follows the one it continues.
Rows ==
  \A f \in DOMAIN files : \A i \in DOMAIN files[f].text :
    Segment(f, i).from > 0 =>
      /\ i > 1 /\ Segment(f, i - 1).msg = Segment(f, i).msg
      /\ Segment(f, i - 1).to = Segment(f, i).from

\* A message begins once.
Once ==
  \A f, g \in DOMAIN files :
    \A i \in Firsts(files[f].text), j \in Firsts(files[g].text) :
      Segment(f, i).msg = Segment(g, j).msg => f = g /\ i = j

Rewriting == \E t \in Threads : pc[t] = "rewrite"

\* Two faults for each message that is cut, and one for a message that is to
\* be written on.
CutSegments == UNION {Cut(files[f].text) \X {f} : f \in DOMAIN files}
Cuts ==
  /\ IsFiniteSet(CutSegments)
  /\ 2 * Cardinality(CutSegments) + (IF Rewriting THEN 1 ELSE 0) <= faults

\* The bytes that are not on the disk are the current file's, and no older
\* than the last flush.
Buffered ==
  /\ \A f \in DOMAIN files :
       IF f = Len(files) THEN files[f].onDisk \in 0..Len(files[f].text)
                         ELSE files[f].onDisk = Len(files[f].text)
  /\ \A i \in DOMAIN Current.text :
       /\ lastRoll <= Current.text[i].at /\ Current.text[i].at <= clock
       /\ i > Current.onDisk => lastFlush <= Current.text[i].at

\* The messages that have begun since the last flush was due, and those of a
\* file that are of another period than the file is.
Late == {j \in Firsts(Current.text) : Current.text[j].at > lastFlush + FlushInterval}
Strays(f) == {i \in Firsts(files[f].text) :
                Period(files[f].text[i].at) # Period(files[f].made)}

Rolling == \E t \in Threads : pc[t] = "roll"
\* Has a message begun that is not counted yet?
Uncounted == \E t \in Threads : pc[t] \in {"rewrite", "count"} /\ sent[t] > 0
Counted == count + (IF Uncounted THEN 1 ELSE 0)

Counts ==
  /\ ~Rolling => /\ Cardinality(Late) <= Counted
                 /\ Cardinality(Strays(Len(files))) <= Counted
  /\ \A f \in DOMAIN files : Cardinality(Strays(f)) <= CheckEveryN

\* writtenBytes_ and what the thread that writes has written.
Bytes ==
  \A i \in DOMAIN Current.text :
    \/ BytesUpTo(Current.text, i) <= writtenBytes
    \/ \E t \in Threads :
         /\ pc[t] \in {"rewrite", "count"}
         /\ BytesUpTo(Current.text, i) <= writtenBytes + sent[t]

\* Only the message that is being written, or the last of its file, goes
\* beyond rollSize_.
Sizes ==
  /\ \A i \in Excess(Current) :
       \E t \in Threads : /\ pc[t] \in {"rewrite", "count", "roll"} /\ sent[t] > 0
                          /\ Current.text[i].msg = msg[t]
  /\ \A f \in DOMAIN files : f < Len(files) =>
       \A i \in Excess(files[f]) :
         files[f].text[i].msg = files[f].text[Len(files[f].text)].msg

\* All that t has output, and all that was written before it, is on the disk.
FatalOnDisk(t) ==
  \A s \in FatalSegments(t) : \A f \in 1..s[1] : \A i \in DOMAIN files[f].text :
    f < s[1] \/ i <= s[2] => i <= files[f].onDisk

Ends ==
  /\ \A t \in Threads : pc[t] = "flushed" => FatalOnDisk(t)
  /\ ended = "abort" => \E t \in Threads : pc[t] = "flushed"
  /\ ended = "exit" => \A f \in DOMAIN files : files[f].onDisk = Len(files[f].text)

Times ==
  /\ \A t \in Threads : /\ time[t] = lastSecond[t]
                        /\ pc[t] # "ready" => msg[t].text = msg[t].second
  /\ TimeIsOwn

LogInv ==
  /\ LogTypes /\ Programs /\ Clocks /\ Locked /\ Numbered /\ Partly
  /\ Taken /\ Rows /\ Once /\ Cuts /\ Buffered /\ Counts /\ Bytes /\ Sizes
  /\ Ends /\ Times

-----------------------------------------------------------------------------
(* Recursion over a sequence.                                              *)

\* A set of numbers that is not empty has a least one.
LEMMA LeastNumber ==
  ASSUME NEW S, S \subseteq Nat, S # {}
  PROVE  \E n \in S : \A m \in S : n <= m
<1> DEFINE R == OpToRel(<, Nat)
<1>1. IsWellFoundedOn(R, Nat)
  BY NatLessThanWellFounded
<1>2. PICK n \in S : \A m \in S : <<m, n>> \notin R
  BY <1>1, WFMin, Zenon
<1>3. \A m \in S : ~(m < n)
  BY <1>2 DEF OpToRel
<1> QED
  BY <1>3

\* A function on 0..N may be defined by what it is at 0 and how it goes on
\* from an earlier number.
Follows(f, N, base, prev, step) ==
  f[0] = base /\ \A k \in 1..N : f[k] = step[k][f[prev[k]]]

LEMMA RecursiveFunction ==
  ASSUME NEW N \in Nat, NEW V, NEW base \in V, NEW step \in [1..N -> [V -> V]],
         NEW prev \in [1..N -> Nat], \A k \in 1..N : prev[k] < k
  PROVE  \E f \in [0..N -> V] : Follows(f, N, base, prev, step)
<1> DEFINE Is(f, n) == /\ f \in [0..n -> V] /\ f[0] = base
                       /\ \A k \in 1..n : f[k] = step[k][f[prev[k]]]
           Bad == {n \in 0..N : ~ \E f : Is(f, n)}
<1>1. SUFFICES ASSUME Bad # {} PROVE FALSE
  BY N \notin Bad DEF Follows
<1>2. PICK n \in Bad : n \in 0..N /\ \A m \in Bad : n <= m
  <2>1. Bad \subseteq Nat /\ Bad \subseteq 0..N
    OBVIOUS
  <2> HIDE DEF Bad
  <2> QED
    BY <1>1, <2>1, LeastNumber
<1>3. n # 0
  <2>1. PICK g : g = [k \in 0..0 |-> base]
    OBVIOUS
  <2>2. g \in [0..0 -> V] /\ g[0] = base /\ \A k \in 1..0 : FALSE
    BY <2>1
  <2>3. Is(g, 0)
    BY <2>2
  <2> HIDE DEF Is
  <2> QED
    BY <1>2, <2>3
<1>4. PICK f : Is(f, n - 1)
  <2>1. PICK m \in 0..N : m = n - 1
    BY <1>2, <1>3
  <2> HIDE DEF Is
  <2>2. m \notin Bad
    <3> HIDE DEF Bad
    <3> QED
      BY <1>2, <1>3, <2>1
  <2>3. \E f : Is(f, m)
    BY <2>2
  <2> QED
    BY <2>1, <2>3
<1>5. PICK v \in V : v = step[n][f[prev[n]]]
  <2>1. n \in 1..N /\ prev[n] \in 0..(n - 1)
    BY <1>2, <1>3
  <2>2. f[prev[n]] \in V
    BY <1>4, <2>1
  <2> QED
    BY <2>1, <2>2
<1>6. PICK g : g = [k \in 0..n |-> IF k = n THEN v ELSE f[k]]
  OBVIOUS
<1>7. /\ g \in [0..n -> V] /\ g[n] = v /\ \A k \in 0..(n - 1) : g[k] = f[k]
  BY <1>2, <1>3, <1>4, <1>5, <1>6
<1>8. \A k \in 1..n : g[k] = step[k][g[prev[k]]]
  <2> SUFFICES ASSUME NEW k \in 1..n PROVE g[k] = step[k][g[prev[k]]]
    OBVIOUS
  <2>1. CASE k = n
    <3>1. prev[n] \in 0..(n - 1)
      BY <1>2, <1>3
    <3>2. g[prev[n]] = f[prev[n]]
      BY <1>7, <3>1
    <3> QED
      BY <1>5, <1>7, <2>1, <3>2
  <2>2. CASE k # n
    <3>1. k \in 1..(n - 1) /\ prev[k] \in 0..(n - 1) /\ k \in 0..(n - 1)
      BY <1>2, <2>2
    <3> QED
      BY <1>4, <1>7, <3>1
  <2> QED
    BY <2>1, <2>2
<1>9. Is(g, n)
  <2>1. g[0] = base
    BY <1>2, <1>3, <1>4, <1>7
  <2> QED
    BY <1>7, <1>8, <2>1
<1> QED
  BY <1>2, <1>9

\* The bytes of a file's segments, added one after another.
SumOf(h, text, n) ==
  /\ h[0] = 0
  /\ \A k \in 1..n : h[k] = h[k - 1] + text[k].to - text[k].from

\* There are such sums, and BytesUpTo() is the last of them.
LEMMA SumExists ==
  ASSUME NEW text \in Seq(Segments), NEW n \in 0..Len(text)
  PROVE  \E h : SumOf(h, text, n) /\ h \in [0..n -> Int] /\ h[n] = BytesUpTo(text, n)
<1> DEFINE Body(g) == [k \in 0..n |->
                         IF k = 0 THEN 0 ELSE g[k - 1] + text[k].to - text[k].from]
<1>1. /\ n \in Nat /\ Len(text) \in Nat
      /\ \A k \in 1..n : text[k].to \in Int /\ text[k].from \in Int
  <2>1. \A k \in 1..n : text[k] \in Segments
    OBVIOUS
  <2> QED
    BY <2>1 DEF Segments
<1>2. \E g : g = Body(g)
  <2>1. PICK step : step = [k \in 1..n |-> [x \in Int |-> x + text[k].to - text[k].from]]
    OBVIOUS
  <2>2. step \in [1..n -> [Int -> Int]]
    BY <1>1, <2>1
  <2>3. PICK g \in [0..n -> Int] :
          g[0] = 0 /\ \A k \in 1..n : g[k] = step[k][g[k - 1]]
    <3>1. n \in Nat
      BY <1>1
    <3>2. PICK V : V = Int
      OBVIOUS
    <3>3. 0 \in V /\ step \in [1..n -> [V -> V]]
      BY <2>2, <3>2
    <3>4. PICK prev : prev = [k \in 1..n |-> k - 1]
      OBVIOUS
    <3>5. prev \in [1..n -> Nat] /\ \A k \in 1..n : prev[k] < k /\ prev[k] = k - 1
      BY <3>1, <3>4
    <3>6. \E g \in [0..n -> V] : Follows(g, n, 0, prev, step)
      BY <3>1, <3>3, <3>4, <3>5, RecursiveFunction
    <3> QED
      BY <3>2, <3>5, <3>6 DEF Follows
  <2>4. \A k \in 1..n : g[k] = g[k - 1] + text[k].to - text[k].from
    <3> SUFFICES ASSUME NEW k \in 1..n
                 PROVE  g[k] = g[k - 1] + text[k].to - text[k].from
      OBVIOUS
    <3>1. g[k - 1] \in Int
      BY <1>1, <2>3
    <3> QED
      BY <2>1, <2>3, <3>1
  <2>5. g = Body(g)
    BY <1>1, <2>3, <2>4
  <2> QED
    BY <2>5
<1>3. PICK h : h = CHOOSE g : g = Body(g)
  OBVIOUS
<1>4. h = Body(h)
  BY <1>2, <1>3
<1>5. BytesUpTo(text, n) = h[n]
  BY <1>3 DEF BytesUpTo
<1>6. SumOf(h, text, n)
  BY <1>1, <1>4 DEF SumOf
<1>7. h \in [0..n -> Int]
  <2> DEFINE Bad == {k \in 0..n : h[k] \notin Int}
  <2>1. SUFFICES ASSUME Bad # {} PROVE FALSE
    BY <1>4
  <2>2. PICK k \in Bad : \A m \in Bad : k <= m
    <3>1. Bad \subseteq Nat
      BY <1>1
    <3> QED
      BY <2>1, <3>1, LeastNumber
  <2>3. k # 0
    BY <1>6, <2>2 DEF SumOf
  <2>4. k \in 1..n /\ k - 1 \in 0..n /\ k - 1 \notin Bad
    BY <1>1, <2>2, <2>3
  <2>5. h[k - 1] \in Int /\ h[k] = h[k - 1] + text[k].to - text[k].from
    BY <1>6, <2>4 DEF SumOf
  <2> QED
    BY <1>1, <2>2, <2>4, <2>5
<1> QED
  BY <1>5, <1>6, <1>7

\* And there is one for equal texts.
LEMMA SumUnique ==
  \A s, t, g, h : \A n \in Nat :
    (\A k \in 1..n : s[k] = t[k]) /\ SumOf(g, s, n) /\ SumOf(h, t, n)
      => \A k \in 0..n : g[k] = h[k]
<1> SUFFICES ASSUME NEW s, NEW t, NEW g, NEW h, NEW n \in Nat,
                    \A k \in 1..n : s[k] = t[k], SumOf(g, s, n), SumOf(h, t, n)
             PROVE  \A k \in 0..n : g[k] = h[k]
  OBVIOUS
<1> DEFINE Bad == {k \in 0..n : g[k] # h[k]}
<1>1. SUFFICES ASSUME Bad # {} PROVE FALSE
  OBVIOUS
<1>2. PICK k \in Bad : \A m \in Bad : k <= m
  <2>1. Bad \subseteq Nat
    OBVIOUS
  <2> QED
    BY <1>1, <2>1, LeastNumber
<1>3. k # 0
  BY <1>2 DEF SumOf
<1>4. k \in 1..n /\ k - 1 \in 0..n /\ k - 1 \notin Bad
  BY <1>2, <1>3
<1> QED
  BY <1>2, <1>4 DEF SumOf

\* BytesUpTo() is a number.
LEMMA BytesInt ==
  ASSUME NEW text \in Seq(Segments), NEW n \in 0..Len(text)
  PROVE  BytesUpTo(text, n) \in Int
  BY SumExists

\* The sums of a text that begins another are that one's.
LEMMA SumPrefix ==
  ASSUME NEW text \in Seq(Segments), NEW n \in 0..Len(text), NEW more,
         \A k \in 1..n : more[k] = text[k],
         NEW m \in Int, n <= m, NEW h, SumOf(h, more, m)
  PROVE  h[n] = BytesUpTo(text, n)
<1>1. PICK g : SumOf(g, text, n) /\ g[n] = BytesUpTo(text, n)
  BY SumExists
<1>2. n \in Nat /\ n \in 0..n
  OBVIOUS
<1>3. SumOf(h, more, n)
  BY <1>2 DEF SumOf
<1>4. \A k \in 0..n : h[k] = g[k]
  BY <1>1, <1>2, <1>3, SumUnique
<1> QED
  BY <1>1, <1>2, <1>4

\* A segment more, and what it adds.
LEMMA BytesAppended ==
  ASSUME NEW text \in Seq(Segments), NEW seg \in Segments, NEW more,
         more = Append(text, seg)
  PROVE  /\ \A n \in 0..Len(text) : BytesUpTo(more, n) = BytesUpTo(text, n)
         /\ BytesUpTo(more, Len(text) + 1) =
              BytesUpTo(text, Len(text)) + seg.to - seg.from
<1>1. /\ more \in Seq(Segments) /\ Len(more) = Len(text) + 1 /\ Len(text) \in Nat
      /\ more[Len(text) + 1] = seg
      /\ \A k \in 1..Len(text) : more[k] = text[k]
  OBVIOUS
<1>2. ASSUME NEW n \in 0..Len(text), NEW m \in n..Len(more),
             NEW h, SumOf(h, more, m)
      PROVE  h[n] = BytesUpTo(text, n)
  <2>1. \A k \in 1..n : more[k] = text[k]
    BY <1>1
  <2>2. m \in Int /\ n <= m
    BY <1>1
  <2> QED
    BY <1>2, <2>1, <2>2, SumPrefix, Zenon
<1>3. ASSUME NEW n \in 0..Len(text) PROVE BytesUpTo(more, n) = BytesUpTo(text, n)
  <2>1. n \in 0..Len(more) /\ n \in n..Len(more)
    BY <1>1
  <2>2. PICK h : SumOf(h, more, n) /\ h[n] = BytesUpTo(more, n)
    BY <1>1, <2>1, SumExists
  <2> QED
    BY <1>2, <2>1, <2>2
<1>4. BytesUpTo(more, Len(text) + 1) = BytesUpTo(text, Len(text)) + seg.to - seg.from
  <2>1. PICK n : n = Len(text) + 1
    OBVIOUS
  <2>2. n \in 0..Len(more) /\ n \in 1..n /\ n - 1 = Len(text)
        /\ n \in Len(text)..Len(more) /\ Len(text) \in 0..Len(text)
    BY <1>1, <2>1
  <2>3. PICK h : SumOf(h, more, n) /\ h[n] = BytesUpTo(more, n)
    BY <1>1, <2>2, SumExists
  <2>4. h[n - 1] = BytesUpTo(text, Len(text))
    BY <1>2, <2>2, <2>3
  <2>5. h[n] = h[n - 1] + more[n].to - more[n].from
    BY <2>2, <2>3 DEF SumOf
  <2> QED
    BY <1>1, <2>1, <2>3, <2>4, <2>5
<1> QED
  BY <1>3, <1>4

\* Times between two of the same period are of that period.
LEMMA PeriodBetween ==
  ASSUME NEW a \in Nat, NEW b \in Nat, NEW c \in Nat, a <= b, b <= c,
         Period(a) = Period(c)
  PROVE  Period(b) = Period(a)
<1>0. RollPerSeconds \in Nat \ {0}
  BY FileAssumption
<1>1. PICK x, y, z \in Int : /\ x = a \div RollPerSeconds
                             /\ y = b \div RollPerSeconds
                             /\ z = c \div RollPerSeconds
  BY <1>0
<1>2. /\ RollPerSeconds * x <= a /\ a < RollPerSeconds * (x + 1)
      /\ RollPerSeconds * y <= b /\ b < RollPerSeconds * (y + 1)
      /\ RollPerSeconds * z <= c /\ c < RollPerSeconds * (z + 1)
  BY <1>0, <1>1
<1>3. x * RollPerSeconds = z * RollPerSeconds
  BY <1>1 DEF Period
<1>4. x = z
  BY <1>0, <1>1, <1>3
<1>5. x <= y
  <2> SUFFICES ASSUME y + 1 <= x PROVE FALSE
    BY <1>1
  <2>1. RollPerSeconds * (y + 1) <= RollPerSeconds * x
    BY <1>0, <1>1
  <2>2. PICK p, q \in Int : p = RollPerSeconds * (y + 1) /\ q = RollPerSeconds * x
    BY <1>0, <1>1
  <2> QED
    BY <1>2, <2>1, <2>2
<1>6. y <= z
  <2> SUFFICES ASSUME z + 1 <= y PROVE FALSE
    BY <1>1
  <2>1. RollPerSeconds * (z + 1) <= RollPerSeconds * y
    BY <1>0, <1>1
  <2>2. PICK p, q \in Int : p = RollPerSeconds * (z + 1) /\ q = RollPerSeconds * y
    BY <1>0, <1>1
  <2> QED
    BY <1>2, <2>1, <2>2
<1>7. y = x
  BY <1>1, <1>4, <1>5, <1>6
<1> QED
  BY <1>1, <1>7 DEF Period

-----------------------------------------------------------------------------
(* Numbers and their digits.                                               *)

Numeric(radix) == {digitsHex[d + 1] : d \in 0..(radix - 1)}

\* The digits of the numbers up to N, the least significant first.
Numerals(D, N, radix) ==
  /\ D \in [0..N -> Seq(Numeric(radix))]
  /\ D[0] = <<"0">>
  /\ \A k \in 1..N :
       D[k] = <<digitsHex[(k % radix) + 1]>>
                \o (IF k \div radix # 0 THEN D[k \div radix] ELSE <<>>)

\* What a digit looks like.
LEMMA Digit ==
  ASSUME NEW radix \in {10, 16}
  PROVE  /\ \A d \in 0..(radix - 1) : digitsHex[d + 1] \in Numeric(radix)
         /\ "0" \in Numeric(radix)
<1>1. \A d \in 0..(radix - 1) : digitsHex[d + 1] \in Numeric(radix)
  BY DEF Numeric
<1>2. digitsHex[0 + 1] = "0" /\ 0 \in 0..(radix - 1)
  BY DEF digitsHex
<1> QED
  BY <1>1, <1>2

\* The numbers up to any N have digits.
LEMMA NumeralsExist ==
  ASSUME NEW N \in Nat, NEW radix \in {10, 16}
  PROVE  \E D : Numerals(D, N, radix)
<1>1. PICK step : step = [k \in 1..N |-> [x \in Seq(Numeric(radix)) |->
                            <<digitsHex[(k % radix) + 1]>>
                              \o (IF k \div radix # 0 THEN x ELSE <<>>)]]
  OBVIOUS
<1>2. step \in [1..N -> [Seq(Numeric(radix)) -> Seq(Numeric(radix))]]
  <2> SUFFICES ASSUME NEW k \in 1..N, NEW x \in Seq(Numeric(radix))
               PROVE  <<digitsHex[(k % radix) + 1]>>
                        \o (IF k \div radix # 0 THEN x ELSE <<>>) \in Seq(Numeric(radix))
    BY <1>1
  <2>1. PICK d : d = k % radix
    OBVIOUS
  <2>2. d \in 0..(radix - 1)
    BY <2>1
  <2>3. digitsHex[d + 1] \in Numeric(radix)
    BY <2>2, Digit
  <2>4. PICK c : c = digitsHex[d + 1]
    OBVIOUS
  <2>5. <<c>> \o x \in Seq(Numeric(radix)) /\ <<c>> \o <<>> \in Seq(Numeric(radix))
    BY <2>3, <2>4
  <2> QED
    BY <2>1, <2>4, <2>5
<1>3. PICK prev : prev = [k \in 1..N |-> k \div radix]
  OBVIOUS
<1>4. prev \in [1..N -> Nat] /\ \A k \in 1..N : prev[k] < k
  BY <1>3
<1>5. PICK V : V = Seq(Numeric(radix))
  OBVIOUS
<1>6. <<"0">> \in V /\ step \in [1..N -> [V -> V]]
  <2>1. PICK c : c = "0"
    OBVIOUS
  <2>2. <<c>> \in Seq(Numeric(radix))
    BY <2>1, Digit
  <2> QED
    BY <1>2, <1>5, <2>1, <2>2
<1>7. PICK D \in [0..N -> V] : Follows(D, N, <<"0">>, prev, step)
  BY <1>4, <1>6, RecursiveFunction
<1>8. ASSUME NEW k \in 1..N
      PROVE  D[k] = <<digitsHex[(k % radix) + 1]>>
                      \o (IF k \div radix # 0 THEN D[k \div radix] ELSE <<>>)
  <2>1. prev[k] = k \div radix /\ prev[k] \in 0..N
    BY <1>3, <1>4
  <2>2. D[prev[k]] \in Seq(Numeric(radix))
    BY <1>5, <1>7, <2>1
  <2>3. D[k] = step[k][D[prev[k]]]
    BY <1>7 DEF Follows
  <2> QED
    BY <1>1, <2>1, <2>2, <2>3
<1> QED
  BY <1>5, <1>7, <1>8 DEF Numerals, Follows

\* Division of a negative number mirrors that of the positive one.
LEMMA Mirrored ==
  ASSUME NEW k \in Nat
  PROVE  /\ Quotient(k, 10) = k \div 10 /\ Quotient(-k, 10) = -(k \div 10)
         /\ zero(Remainder(k, 10)) = digitsHex[(k % 10) + 1]
         /\ zero(Remainder(-k, 10)) = digitsHex[(k % 10) + 1]
<1>1. PICK q, r \in Nat : q = k \div 10 /\ r = k % 10 /\ k = 10 * q + r /\ r < 10
  OBVIOUS
<1>2. Quotient(k, 10) = q /\ Remainder(k, 10) = r
  BY <1>1 DEF Quotient, Remainder
<1>3. Quotient(-k, 10) = -q /\ Remainder(-k, 10) = -r
  BY <1>1 DEF Quotient, Remainder
<1>4. /\ digits[r + 10] = digitsHex[r + 1]
      /\ digits[(-r) + 10] = digitsHex[r + 1]
  <2>1. r \in {0, 1, 2, 3, 4, 5, 6, 7, 8, 9}
    BY <1>1
  <2> QED
    BY <2>1 DEF digits, digitsHex
<1> QED
  BY <1>1, <1>2, <1>3, <1>4 DEF zero

Grows(D, k, radix) ==
  D[k] = <<digitsHex[(k % radix) + 1]>>
           \o (IF k \div radix # 0 THEN D[k \div radix] ELSE <<>>)

\* The digits of k: its last, behind those of k \div radix.
LEMMA NumeralStep ==
  ASSUME NEW N \in Nat, NEW radix \in {10, 16}, NEW D, Numerals(D, N, radix),
         NEW k \in 0..N
  PROVE  D[k] \in Seq(Numeric(radix)) /\ k \div radix \in 0..N /\ Grows(D, k, radix)
<1>1. k \div radix \in 0..N
  OBVIOUS
<1>2. D[k] \in Seq(Numeric(radix))
  BY DEF Numerals
<1>3. CASE k = 0
  <2>1. PICK c : c = digitsHex[1]
    OBVIOUS
  <2>2. c = "0" /\ <<c>> \o <<>> = <<c>>
    BY <2>1 DEF digitsHex
  <2>3. k % radix = 0 /\ k \div radix = 0
    BY <1>3
  <2>4. D[k] = <<c>>
    BY <1>3, <2>2 DEF Numerals
  <2>5. digitsHex[(k % radix) + 1] = c
    BY <2>1, <2>3
  <2> QED
    BY <1>1, <1>2, <2>2, <2>3, <2>4, <2>5 DEF Grows
<1>4. CASE k # 0
  BY <1>1, <1>2, <1>4 DEF Numerals, Grows
<1> QED
  BY <1>3, <1>4

\* The text of an integer is its digits, the most significant first, after
\* the sign.
LEMMA ConvertDigits ==
  ASSUME NEW value \in Int, NEW N \in Nat, N = IF value < 0 THEN -value ELSE value,
         NEW D, Numerals(D, N, 10)
  PROVE  convert(value) = Reverse(D[N] \o (IF value < 0 THEN <<"-">> ELSE <<>>))
<1> DEFINE S(k) == IF value < 0 THEN -k ELSE k
           dom == IF value < 0 THEN value..0 ELSE 0..value
           Body(g) == [i \in dom |->
                         <<zero(Remainder(i, 10))>>
                           \o IF Quotient(i, 10) # 0 THEN g[Quotient(i, 10)] ELSE <<>>]
<1>1. /\ \A k \in 0..N : S(k) \in dom /\ S(S(k)) = k /\ (S(k) # 0 <=> k # 0)
      /\ \A i \in dom : S(i) \in 0..N /\ S(S(i)) = i
      /\ S(N) = value
  OBVIOUS
<1>2. ASSUME NEW k \in 0..N
      PROVE  /\ Quotient(S(k), 10) = S(k \div 10) /\ k \div 10 \in 0..N
             /\ zero(Remainder(S(k), 10)) = digitsHex[(k % 10) + 1]
  <2>1. k \in Nat /\ k \div 10 \in 0..N
    OBVIOUS
  <2> QED
    BY <2>1, Mirrored
<1>3. \A k \in 0..N :
        D[k] = <<digitsHex[(k % 10) + 1]>>
                 \o (IF k \div 10 # 0 THEN D[k \div 10] ELSE <<>>)
  <2> SUFFICES ASSUME NEW k \in 0..N
               PROVE  D[k] = <<digitsHex[(k % 10) + 1]>>
                        \o (IF k \div 10 # 0 THEN D[k \div 10] ELSE <<>>)
    OBVIOUS
  <2>1. 10 \in {10, 16}
    OBVIOUS
  <2>2. Grows(D, k, 10)
    BY <2>1, NumeralStep
  <2> QED
    BY <2>2 DEF Grows
<1> HIDE DEF S, dom
<1>4. PICK G : G = [i \in dom |-> D[S(i)]]
  OBVIOUS
<1>5. \A k \in 0..N : G[S(k)] = D[k]
  BY <1>1, <1>4
<1>6. G = Body(G)
  <2> SUFFICES ASSUME NEW i \in dom
               PROVE  G[i] = <<zero(Remainder(i, 10))>>
                        \o IF Quotient(i, 10) # 0 THEN G[Quotient(i, 10)] ELSE <<>>
    BY <1>4
  <2>1. PICK k : k \in 0..N /\ i = S(k)
    BY <1>1
  <2>2. G[i] = <<digitsHex[(k % 10) + 1]>>
                 \o (IF k \div 10 # 0 THEN D[k \div 10] ELSE <<>>)
    BY <1>3, <1>5, <2>1
  <2>3. /\ Quotient(i, 10) = S(k \div 10) /\ k \div 10 \in 0..N
        /\ zero(Remainder(i, 10)) = digitsHex[(k % 10) + 1]
    BY <1>2, <2>1
  <2>4. (Quotient(i, 10) # 0 <=> k \div 10 # 0) /\ G[Quotient(i, 10)] = D[k \div 10]
    BY <1>1, <1>5, <2>3
  <2> QED
    BY <2>2, <2>3, <2>4
<1>7. PICK h : h = CHOOSE g : g = Body(g)
  OBVIOUS
<1>8. h = Body(h)
  BY <1>6, <1>7
<1>9. \A k \in 0..N : h[S(k)] = D[k]
  <2> DEFINE Bad == {k \in 0..N : h[S(k)] # D[k]}
  <2>1. SUFFICES ASSUME Bad # {} PROVE FALSE
    OBVIOUS
  <2>2. PICK k \in Bad : \A m \in Bad : k <= m
    <3>1. Bad \subseteq Nat
      OBVIOUS
    <3> HIDE DEF Bad
    <3> QED
      BY <2>1, <3>1, LeastNumber
  <2>3. k \in 0..N /\ h[S(k)] # D[k]
    BY <2>2
  <2>4. /\ Quotient(S(k), 10) = S(k \div 10) /\ k \div 10 \in 0..N
        /\ zero(Remainder(S(k), 10)) = digitsHex[(k % 10) + 1]
    BY <1>2, <2>3
  <2>5. h[S(k)] = <<digitsHex[(k % 10) + 1]>>
                    \o (IF Quotient(S(k), 10) # 0 THEN h[Quotient(S(k), 10)] ELSE <<>>)
    <3>1. PICK i : i = S(k)
      OBVIOUS
    <3>2. i \in dom
      BY <1>1, <2>3, <3>1
    <3>3. h[i] = <<zero(Remainder(i, 10))>>
                   \o (IF Quotient(i, 10) # 0 THEN h[Quotient(i, 10)] ELSE <<>>)
      BY <1>8, <3>2
    <3> QED
      BY <2>4, <3>1, <3>3
  <2>6. CASE k \div 10 = 0
    <3>1. Quotient(S(k), 10) = 0
      BY <1>1, <2>4, <2>6
    <3> QED
      BY <1>3, <2>3, <2>5, <2>6, <3>1
  <2>7. CASE k \div 10 # 0
    <3>1. k \div 10 < k
      BY <2>3, <2>7
    <3>2. k \div 10 \notin Bad
      BY <2>2, <2>3, <2>4, <3>1
    <3>3. h[Quotient(S(k), 10)] = D[k \div 10] /\ Quotient(S(k), 10) # 0
      BY <1>1, <2>4, <2>7, <3>2
    <3> QED
      BY <1>3, <2>3, <2>5, <2>7, <3>3
  <2> QED
    BY <2>6, <2>7
<1>10. h[value] = D[N]
  BY <1>1, <1>9
<1>11. convert(value) = Reverse(h[value] \o IF value < 0 THEN <<"-">> ELSE <<>>)
  BY <1>7 DEF convert, dom
<1> QED
  BY <1>10, <1>11

\* A sequence read backwards.
LEMMA ReverseParts ==
  ASSUME NEW S, NEW s \in Seq(S), NEW r, r = Reverse(s)
  PROVE  /\ r \in Seq(S) /\ Len(r) = Len(s) /\ Len(s) \in Nat
         /\ \A i \in 1..Len(s) : r[i] = s[Len(s) - i + 1]
<1>1. PICK n \in Nat : n = Len(s)
  OBVIOUS
<1>2. r = [i \in 1..n |-> s[n - i + 1]]
  BY <1>1 DEF Reverse
<1>3. \A i \in 1..n : n - i + 1 \in 1..n
  OBVIOUS
<1>4. r \in [1..n -> S]
  BY <1>1, <1>2, <1>3
<1>5. r \in Seq(S) /\ Len(r) = n
  BY <1>4
<1> QED
  BY <1>1, <1>2, <1>5

\* Digits differ from one another and from a sign.
LEMMA DigitChars ==
  /\ \A d, e \in 0..9 : digitsHex[d + 1] = digitsHex[e + 1] => d = e
  /\ \A c \in Numeric(10) : c # "-"
<1>1. \A d \in 0..9 : d \in {0, 1, 2, 3, 4, 5, 6, 7, 8, 9}
  OBVIOUS
<1>2. ASSUME NEW d \in 0..9, NEW e \in 0..9, digitsHex[d + 1] = digitsHex[e + 1]
      PROVE  d = e
  BY <1>1, <1>2 DEF digitsHex
<1>3. \A d \in 0..9 : digitsHex[d + 1] # "-"
  BY <1>1 DEF digitsHex
<1> QED
  BY <1>2, <1>3 DEF Numeric

\* How long a numeral is, and how it begins.
LEMMA NumeralSize ==
  ASSUME NEW N \in Nat, NEW D, Numerals(D, N, 10)
  PROVE  \A k \in 0..N :
           /\ D[k] \in Seq(Numeric(10)) /\ Len(D[k]) \in Nat /\ Len(D[k]) >= 1
           /\ k < 10 => D[k] = <<digitsHex[k + 1]>> /\ Len(D[k]) = 1
           /\ k >= 10 => /\ D[k] = <<digitsHex[(k % 10) + 1]>> \o D[k \div 10]
                         /\ Len(D[k]) = 1 + Len(D[k \div 10])
<1> SUFFICES ASSUME NEW k \in 0..N
             PROVE  /\ D[k] \in Seq(Numeric(10)) /\ Len(D[k]) \in Nat /\ Len(D[k]) >= 1
                    /\ k < 10 => D[k] = <<digitsHex[k + 1]>> /\ Len(D[k]) = 1
                    /\ k >= 10 => /\ D[k] = <<digitsHex[(k % 10) + 1]>> \o D[k \div 10]
                                  /\ Len(D[k]) = 1 + Len(D[k \div 10])
  OBVIOUS
<1>1. 10 \in {10, 16}
  OBVIOUS
<1>2. PICK q, r \in Nat : q = k \div 10 /\ r = k % 10 /\ k = 10 * q + r /\ r < 10
  OBVIOUS
<1>3. D[k] \in Seq(Numeric(10)) /\ q \in 0..N /\ Grows(D, k, 10)
  BY <1>1, <1>2, NumeralStep
<1>4. D[q] \in Seq(Numeric(10))
  BY <1>1, <1>3, NumeralStep
<1>5. PICK c : c = digitsHex[r + 1]
  OBVIOUS
<1>6. D[k] = <<c>> \o (IF q # 0 THEN D[q] ELSE <<>>)
  BY <1>2, <1>3, <1>5 DEF Grows
<1>7. c \in Numeric(10)
  BY <1>1, <1>2, <1>5, Digit
<1>8. CASE k < 10
  <2>1. q = 0 /\ r = k
    BY <1>2, <1>8
  <2>2. <<c>> \o <<>> = <<c>>
    OBVIOUS
  <2> QED
    BY <1>3, <1>5, <1>6, <1>8, <2>1, <2>2
<1>9. CASE k >= 10
  <2>1. q # 0
    BY <1>2, <1>9
  <2>2. Len(<<c>> \o D[q]) = 1 + Len(D[q]) /\ Len(D[q]) \in Nat
    BY <1>4, <1>7
  <2> QED
    BY <1>2, <1>3, <1>5, <1>6, <1>9, <2>1, <2>2
<1> QED
  BY <1>8, <1>9

\* Small numbers have few digits, and only that of 0 begins with "0".
LEMMA ShortNumerals ==
  ASSUME NEW N \in Nat, NEW D, Numerals(D, N, 10), NEW k \in 0..N
  PROVE  /\ k < 10 => Len(D[k]) <= 1
         /\ k < 100 => Len(D[k]) <= 2
         /\ k < 1000 => Len(D[k]) <= 3
         /\ k < 10000 => Len(D[k]) <= 4
         /\ D[k][Len(D[k])] = "0" => k = 0
<1>1. \A n \in 0..N :
           /\ D[n] \in Seq(Numeric(10)) /\ Len(D[n]) \in Nat /\ Len(D[n]) >= 1
           /\ n < 10 => D[n] = <<digitsHex[n + 1]>> /\ Len(D[n]) = 1
           /\ n >= 10 => /\ D[n] = <<digitsHex[(n % 10) + 1]>> \o D[n \div 10]
                         /\ Len(D[n]) = 1 + Len(D[n \div 10])
  BY NumeralSize
<1>2. \A n \in 0..N : n < 10 => Len(D[n]) <= 1
  BY <1>1
<1>3. ASSUME NEW n \in 0..N
      PROVE  n < 10 \/ \E q \in 0..N : /\ q = n \div 10 /\ n >= 10
                                     /\ Len(D[n]) = 1 + Len(D[q]) /\ Len(D[q]) \in Nat
  <2>1. CASE n < 10
    BY <2>1
  <2>2. CASE n >= 10
    <3>1. PICK q : q = n \div 10
      OBVIOUS
    <3>2. q \in 0..N
      BY <2>2, <3>1
    <3>3. Len(D[n]) = 1 + Len(D[n \div 10])
      BY <1>1, <2>2
    <3>4. Len(D[n]) = 1 + Len(D[q])
      BY <3>1, <3>3
    <3>5. Len(D[q]) \in Nat
      BY <1>1, <3>2
    <3> QED
      BY <2>2, <3>1, <3>2, <3>4, <3>5
  <2> QED
    BY <2>1, <2>2
<1>4. \A n \in 0..N : n < 100 => Len(D[n]) <= 2
  <2> SUFFICES ASSUME NEW n \in 0..N, n < 100 PROVE Len(D[n]) <= 2
    OBVIOUS
  <2>1. CASE n < 10
    BY <1>2, <2>1
  <2>2. CASE n >= 10
    <3>1. PICK q \in 0..N : /\ q = n \div 10
                            /\ Len(D[n]) = 1 + Len(D[q]) /\ Len(D[q]) \in Nat
      BY <1>3, <2>2
    <3>2. q < 10
      BY <3>1
    <3> QED
      BY <1>2, <3>1, <3>2
  <2> QED
    BY <2>1, <2>2
<1>5. \A n \in 0..N : n < 1000 => Len(D[n]) <= 3
  <2> SUFFICES ASSUME NEW n \in 0..N, n < 1000 PROVE Len(D[n]) <= 3
    OBVIOUS
  <2>1. CASE n < 10
    BY <1>2, <2>1
  <2>2. CASE n >= 10
    <3>1. PICK q \in 0..N : /\ q = n \div 10
                            /\ Len(D[n]) = 1 + Len(D[q]) /\ Len(D[q]) \in Nat
      BY <1>3, <2>2
    <3>2. q < 100
      BY <3>1
    <3> QED
      BY <1>4, <3>1, <3>2
  <2> QED
    BY <2>1, <2>2
<1>6. \A n \in 0..N : n < 10000 => Len(D[n]) <= 4
  <2> SUFFICES ASSUME NEW n \in 0..N, n < 10000 PROVE Len(D[n]) <= 4
    OBVIOUS
  <2>1. CASE n < 10
    BY <1>2, <2>1
  <2>2. CASE n >= 10
    <3>1. PICK q \in 0..N : /\ q = n \div 10
                            /\ Len(D[n]) = 1 + Len(D[q]) /\ Len(D[q]) \in Nat
      BY <1>3, <2>2
    <3>2. q < 1000
      BY <3>1
    <3> QED
      BY <1>5, <3>1, <3>2
  <2> QED
    BY <2>1, <2>2
<1>7. D[k][Len(D[k])] = "0" => k = 0
  <2> DEFINE Bad == {n \in 0..N : D[n][Len(D[n])] = "0" /\ n # 0}
  <2>1. SUFFICES ASSUME Bad # {} PROVE FALSE
    OBVIOUS
  <2>2. PICK n \in Bad : \A m \in Bad : n <= m
    <3>1. Bad \subseteq Nat
      OBVIOUS
    <3> HIDE DEF Bad
    <3> QED
      BY <2>1, <3>1, LeastNumber
  <2>3. n \in 0..N /\ n # 0 /\ D[n][Len(D[n])] = "0"
    BY <2>2
  <2>4. CASE n < 10
    <3>0. PICK c : c = digitsHex[n + 1]
      OBVIOUS
    <3>3. D[n] = <<c>> /\ Len(D[n]) = 1
      BY <1>1, <2>3, <2>4, <3>0
    <3>4. D[n][1] = c
      BY <3>3
    <3>1. digitsHex[n + 1] = "0"
      BY <2>3, <3>0, <3>3, <3>4
    <3>2. digitsHex[0 + 1] = "0"
      BY DEF digitsHex
    <3> QED
      BY <2>3, <2>4, <3>1, <3>2, DigitChars
  <2>5. CASE n >= 10
    <3>1. PICK q \in 0..N : q = n \div 10 /\ q < n /\ q # 0
      BY <2>3, <2>5
    <3>2. PICK c : c = digitsHex[(n % 10) + 1]
      OBVIOUS
    <3>3. D[n] = <<c>> \o D[q] /\ Len(D[n]) = 1 + Len(D[q])
      BY <1>1, <2>3, <2>5, <3>1, <3>2
    <3>4. D[q] \in Seq(Numeric(10)) /\ Len(D[q]) >= 1 /\ Len(D[q]) \in Nat
      BY <1>1
    <3>5. (<<c>> \o D[q])[1 + Len(D[q])] = D[q][Len(D[q])]
      BY <3>4
    <3>6. q \in Bad
      BY <2>3, <3>1, <3>3, <3>5
    <3> HIDE DEF Bad
    <3> QED
      BY <2>2, <2>3, <3>1, <3>6
  <2> QED
    BY <2>3, <2>4, <2>5
<1> QED
  BY <1>2, <1>4, <1>5, <1>6, <1>7

Magnitude(value) == IF value < 0 THEN -value ELSE value
SignLength(value) == IF value < 0 THEN 1 ELSE 0

\* Behind its sign, the text of a number holds L digits, of its magnitude N,
\* the most significant first.
Shows(text, value, D, N, o, L) ==
  /\ text \in Seq(Numeric(10) \cup {"-"}) /\ Len(text) = o + L /\ L >= 1
  /\ \A i \in 1..L : text[o + i] = D[N][L + 1 - i]
  /\ value < 0 => text[1] = "-"

LEMMA ConvertText ==
  ASSUME NEW value \in Int, NEW N \in Nat, N = Magnitude(value),
         NEW D, Numerals(D, N, 10), NEW o \in Nat, o = SignLength(value),
         NEW L \in Nat, L = Len(D[N])
  PROVE  Shows(convert(value), value, D, N, o, L)
<1>0. PICK text : text = convert(value)
  OBVIOUS
<1>1. D[N] \in Seq(Numeric(10)) /\ L >= 1
  <2>1. N \in 0..N
    OBVIOUS
  <2> QED
    BY <2>1, NumeralSize
<1>2. PICK minus : minus = "-"
  OBVIOUS
<1>3. PICK S : S = Numeric(10) \cup {minus}
  OBVIOUS
<1>4. PICK s : s = D[N] \o (IF value < 0 THEN <<minus>> ELSE <<>>)
  OBVIOUS
<1>5. /\ s \in Seq(S) /\ Len(s) = o + L
      /\ \A i \in 1..L : s[i] = D[N][i]
      /\ value < 0 => s[L + 1] = minus
  <2>1. D[N] \in Seq(S) /\ <<minus>> \in Seq(S)
    BY <1>1, <1>3
  <2>2. CASE value < 0
    <3>1. s = D[N] \o <<minus>> /\ o = 1
      BY <1>4, <2>2 DEF SignLength
    <3> QED
      BY <2>1, <3>1
  <2>3. CASE ~(value < 0)
    <3>1. s = D[N] \o <<>> /\ o = 0
      BY <1>4, <2>3 DEF SignLength
    <3>2. s = D[N]
      BY <2>1, <3>1
    <3> QED
      BY <2>1, <2>3, <3>1, <3>2
  <2> QED
    BY <2>2, <2>3
<1>6. text = Reverse(s)
  <2>1. N = IF value < 0 THEN -value ELSE value
    BY DEF Magnitude
  <2> QED
    BY <1>0, <1>2, <1>4, <2>1, ConvertDigits
<1>7. /\ text \in Seq(S) /\ Len(text) = Len(s)
      /\ \A i \in 1..Len(s) : text[i] = s[Len(s) - i + 1]
  BY <1>5, <1>6, ReverseParts
<1>8. ASSUME NEW i \in 1..L PROVE text[o + i] = D[N][L + 1 - i]
  <2>1. o + i \in 1..Len(s) /\ Len(s) - (o + i) + 1 = L + 1 - i /\ L + 1 - i \in 1..L
    BY <1>5
  <2> QED
    BY <1>5, <1>7, <2>1
<1>9. ASSUME value < 0 PROVE text[1] = minus
  <2>1. o = 1
    BY <1>9 DEF SignLength
  <2>2. 1 \in 1..Len(s) /\ Len(s) - 1 + 1 = L + 1
    BY <1>5, <2>1
  <2> QED
    BY <1>5, <1>7, <1>9, <2>2
<1> QED
  BY <1>0, <1>1, <1>2, <1>3, <1>5, <1>7, <1>8, <1>9 DEF Shows

\* The value of the first i characters of a text: negative, as Decimal() has it.
Horner(h, text, n) ==
  /\ h[0] = 0
  /\ \A k \in 1..n : h[k] = IF text[k] = "-" THEN 0
                            ELSE 10 * h[k - 1] - DigitOf(text[k])

\* DigitOf() reads what convert() wrote.
LEMMA DigitValue ==
  /\ \A d \in 0..9 : DigitOf(digitsHex[d + 1]) = d /\ digitsHex[d + 1] # "-"
  /\ \A c \in Numeric(10) : DigitOf(c) \in 0..9
<1>1. ASSUME NEW d \in 0..9 PROVE DigitOf(digitsHex[d + 1]) = d
  <2>1. \E e \in 0..9 : digitsHex[e + 1] = digitsHex[d + 1]
    OBVIOUS
  <2>2. PICK e : e = DigitOf(digitsHex[d + 1])
    OBVIOUS
  <2>3. e \in 0..9 /\ digitsHex[e + 1] = digitsHex[d + 1]
    BY <2>1, <2>2, Zenon DEF DigitOf
  <2> QED
    BY <2>2, <2>3, DigitChars
<1>2. \A d \in 0..9 : digitsHex[d + 1] # "-"
  <2>1. \A d \in 0..9 : digitsHex[d + 1] \in Numeric(10)
    BY DEF Numeric
  <2> QED
    BY <2>1, DigitChars
<1>3. ASSUME NEW c \in Numeric(10) PROVE DigitOf(c) \in 0..9
  <2>1. \E e \in 0..9 : digitsHex[e + 1] = c
    BY DEF Numeric
  <2> QED
    BY <2>1 DEF DigitOf
<1> QED
  BY <1>1, <1>2, <1>3

\* Decimal() reads a text from its first digit to its last.
LEMMA HornerExists ==
  ASSUME NEW text \in Seq(Numeric(10) \cup {"-"})
  PROVE  \E h : /\ Horner(h, text, Len(text))
                /\ Decimal(text) = IF text[1] = "-" THEN h[Len(text)] ELSE -h[Len(text)]
<1>0. PICK n \in Nat : n = Len(text)
  OBVIOUS
<1> DEFINE Body(g) == [i \in 0..Len(text) |->
                         IF i = 0 THEN 0 ELSE IF text[i] = "-" THEN 0
                         ELSE 10 * g[i - 1] - DigitOf(text[i])]
<1>1. PICK V : V = Int
  OBVIOUS
<1>2. PICK step : step = [k \in 1..n |-> [x \in V |->
                     IF text[k] = "-" THEN 0 ELSE 10 * x - DigitOf(text[k])]]
  OBVIOUS
<1>3. step \in [1..n -> [V -> V]]
  <2> SUFFICES ASSUME NEW k \in 1..n, NEW x \in V
               PROVE  (IF text[k] = "-" THEN 0 ELSE 10 * x - DigitOf(text[k])) \in V
    BY <1>2
  <2>1. CASE text[k] = "-"
    BY <1>1, <2>1
  <2>2. CASE text[k] # "-"
    <3>1. text[k] \in Numeric(10)
      BY <1>0, <2>2
    <3>2. DigitOf(text[k]) \in Int
      BY <3>1, DigitValue
    <3> QED
      BY <1>1, <2>2, <3>2
  <2> QED
    BY <2>1, <2>2
<1>4. PICK prev : prev = [k \in 1..n |-> k - 1]
  OBVIOUS
<1>5. prev \in [1..n -> Nat] /\ \A k \in 1..n : prev[k] < k /\ prev[k] = k - 1
  BY <1>4
<1>6. PICK g \in [0..n -> V] : Follows(g, n, 0, prev, step)
  <2>1. 0 \in V /\ prev \in [1..n -> Nat] /\ \A k \in 1..n : prev[k] < k
    BY <1>1, <1>5
  <2> QED
    BY <1>3, <2>1, RecursiveFunction
<1>7. g[0] = 0
  BY <1>6 DEF Follows
<1>8. ASSUME NEW k \in 1..n
      PROVE  g[k] = IF text[k] = "-" THEN 0 ELSE 10 * g[k - 1] - DigitOf(text[k])
  <2>1. g[k] = step[k][g[k - 1]] /\ g[k - 1] \in V
    BY <1>5, <1>6 DEF Follows
  <2> QED
    BY <1>2, <2>1
<1>9. g = Body(g)
  BY <1>0, <1>6, <1>7, <1>8
<1>10. PICK h : h = CHOOSE f : f = Body(f)
  OBVIOUS
<1>11. h = Body(h)
  BY <1>9, <1>10
<1>12. Horner(h, text, n)
  BY <1>0, <1>11 DEF Horner
<1>13. Decimal(text) = IF text[1] = "-" THEN h[Len(text)] ELSE -h[Len(text)]
  BY <1>10 DEF Decimal
<1> QED
  BY <1>0, <1>12, <1>13

\* Does the text have the digits of k behind its first o characters?
Reads(text, o, D, k) ==
  /\ o + Len(D[k]) <= Len(text)
  /\ \A j \in 1..Len(D[k]) : text[o + j] = D[k][Len(D[k]) + 1 - j]

\* Where a text has the digits of N, Decimal() has read N.
LEMMA HornerReads ==
  ASSUME NEW text \in Seq(Numeric(10) \cup {"-"}), NEW N \in Nat,
         NEW D, Numerals(D, N, 10), NEW o \in Nat, NEW h, Horner(h, text, Len(text)),
         h[o] = 0, Reads(text, o, D, N)
  PROVE  h[o + Len(D[N])] = -N
<1> DEFINE Bad == {k \in 0..N : Reads(text, o, D, k) /\ h[o + Len(D[k])] # -k}
<1>1. SUFFICES ASSUME Bad # {} PROVE FALSE
  <2>1. N \in 0..N
    OBVIOUS
  <2> QED
    BY <2>1
<1>2. PICK k \in Bad : \A m \in Bad : k <= m
  <2>1. Bad \subseteq Nat
    OBVIOUS
  <2> HIDE DEF Bad
  <2> QED
    BY <1>1, <2>1, LeastNumber
<1>3. k \in 0..N /\ Reads(text, o, D, k) /\ h[o + Len(D[k])] # -k
  BY <1>2
<1>4. /\ D[k] \in Seq(Numeric(10)) /\ Len(D[k]) \in Nat /\ Len(D[k]) >= 1
      /\ k < 10 => D[k] = <<digitsHex[k + 1]>> /\ Len(D[k]) = 1
      /\ k >= 10 => /\ D[k] = <<digitsHex[(k % 10) + 1]>> \o D[k \div 10]
                    /\ Len(D[k]) = 1 + Len(D[k \div 10])
  BY <1>3, NumeralSize
<1>5. PICK n \in Nat : n = Len(D[k])
  BY <1>4
<1>6. o + n \in 1..Len(text) /\ o + n <= Len(text) /\ n >= 1
  BY <1>3, <1>4, <1>5 DEF Reads
<1>7. text[o + n] = D[k][1]
  <2>1. n \in 1..Len(D[k]) /\ Len(D[k]) + 1 - n = 1
    BY <1>4, <1>5
  <2> QED
    BY <1>3, <2>1 DEF Reads
<1>8. PICK d \in 0..9 : d = k % 10
  BY <1>3
<1>9. PICK c : c = digitsHex[d + 1]
  OBVIOUS
<1>10. DigitOf(c) = d /\ c # "-"
  BY <1>9, DigitValue
<1>11. text[o + n] = c => h[o + n] = 10 * h[o + n - 1] - d
  <2>1. PICK i : i = o + n
    OBVIOUS
  <2>2. h[i] = IF text[i] = "-" THEN 0 ELSE 10 * h[i - 1] - DigitOf(text[i])
    BY <1>6, <2>1 DEF Horner
  <2> QED
    BY <1>10, <2>1, <2>2
<1>12. CASE k < 10
  <2>0. d = k
    BY <1>3, <1>8, <1>12
  <2>1. D[k] = <<c>> /\ n = 1 /\ d = k
    BY <1>4, <1>5, <1>9, <1>12, <2>0
  <2>2. text[o + n] = c /\ o + n - 1 = o
    BY <1>7, <2>1
  <2>3. h[o + n] = -k
    BY <1>11, <2>1, <2>2
  <2> QED
    BY <1>3, <1>5, <2>3
<1>13. CASE k >= 10
  <2>1. PICK q \in 0..N : q = k \div 10 /\ q < k /\ k = 10 * q + d
    BY <1>3, <1>8, <1>13
  <2>2. D[k] = <<c>> \o D[q] /\ n = 1 + Len(D[q])
    BY <1>4, <1>5, <1>8, <1>9, <1>13, <2>1
  <2>3. D[q] \in Seq(Numeric(10)) /\ Len(D[q]) \in Nat
    BY <2>1, NumeralSize
  <2>4. D[k][1] = c /\ \A i \in 1..Len(D[q]) : D[k][i + 1] = D[q][i]
    <3>1. PICK S : S = Numeric(10) \cup {c}
      OBVIOUS
    <3>2. <<c>> \in Seq(S) /\ D[q] \in Seq(S)
      BY <2>3, <3>1
    <3>3. Len(<<c>>) = 1 /\ <<c>>[1] = c
      OBVIOUS
    <3>4. \A i \in 1..(1 + Len(D[q])) :
            D[k][i] = IF i <= 1 THEN <<c>>[i] ELSE D[q][i - 1]
      BY <2>2, <3>2, <3>3, ConcatProperties
    <3>5. D[k][1] = c
      BY <2>3, <3>3, <3>4
    <3>6. ASSUME NEW i \in 1..Len(D[q]) PROVE D[k][i + 1] = D[q][i]
      <4>1. i + 1 \in 1..(1 + Len(D[q])) /\ ~(i + 1 <= 1) /\ (i + 1) - 1 = i
        BY <2>3
      <4> QED
        BY <3>4, <4>1
    <3> QED
      BY <3>5, <3>6
  <2>5. Reads(text, o, D, q)
    <3>1. o + Len(D[q]) <= Len(text)
      BY <1>6, <2>2, <2>3
    <3>2. ASSUME NEW j \in 1..Len(D[q]) PROVE text[o + j] = D[q][Len(D[q]) + 1 - j]
      <4>1. j \in 1..Len(D[k]) /\ Len(D[k]) + 1 - j = (Len(D[q]) + 1 - j) + 1
            /\ Len(D[q]) + 1 - j \in 1..Len(D[q])
        BY <1>5, <2>2, <2>3
      <4>2. text[o + j] = D[k][Len(D[k]) + 1 - j]
        BY <1>3, <4>1 DEF Reads
      <4> QED
        BY <2>4, <4>1, <4>2
    <3> QED
      BY <3>1, <3>2 DEF Reads
  <2>6. h[o + Len(D[q])] = -q
    <3>1. q \notin Bad
      <4> HIDE DEF Bad
      <4> QED
        BY <1>2, <1>3, <2>1
    <3> QED
      BY <2>1, <2>5, <3>1
  <2>7. o + n - 1 = o + Len(D[q])
    BY <2>2, <2>3
  <2>8. h[o + n] = -k
    <3>1. h[o + n - 1] = -q
      BY <2>6, <2>7
    <3>2. h[o + n] = 10 * (-q) - d
      BY <1>7, <1>11, <2>4, <3>1
    <3> QED
      BY <2>1, <3>2
  <2> QED
    BY <1>3, <1>5, <2>8
<1> QED
  BY <1>3, <1>12, <1>13

\* The text of an integer is a decimal number of that value, without leading
\* zeros.
LEMMA ConvertRight ==
  ASSUME NEW value \in Int
  PROVE  /\ Len(convert(value)) \in Nat /\ Decimal(convert(value)) = value
         /\ convert(value)[1] = "0" => Len(convert(value)) = 1
<1>0. PICK text : text = convert(value)
  OBVIOUS
<1>1. PICK N \in Nat : N = Magnitude(value)
  BY DEF Magnitude
<1>2. PICK D : Numerals(D, N, 10)
  <2>1. 10 \in {10, 16}
    OBVIOUS
  <2> QED
    BY <2>1, NumeralsExist
<1>3. PICK o \in Nat : o = SignLength(value)
  BY DEF SignLength
<1>4. N \in 0..N
  OBVIOUS
<1>5. D[N] \in Seq(Numeric(10)) /\ Len(D[N]) >= 1
  BY <1>2, <1>4, NumeralSize
<1>6. PICK L \in Nat : L = Len(D[N])
  BY <1>5
<1>7. /\ text \in Seq(Numeric(10) \cup {"-"}) /\ Len(text) = o + L /\ L >= 1
      /\ \A i \in 1..L : text[o + i] = D[N][L + 1 - i]
      /\ value < 0 => text[1] = "-"
  <2>1. Shows(convert(value), value, D, N, o, L)
    BY <1>1, <1>2, <1>3, <1>6, ConvertText
  <2> QED
    BY <1>0, <2>1 DEF Shows
<1>8. Reads(text, o, D, N)
  BY <1>6, <1>7 DEF Reads
<1>9. PICK h : /\ Horner(h, text, Len(text))
               /\ Decimal(text) = IF text[1] = "-" THEN h[Len(text)] ELSE -h[Len(text)]
  BY <1>7, HornerExists
<1>10. CASE value < 0
  <2>1. o = 1 /\ N = -value
    BY <1>1, <1>3, <1>10 DEF SignLength, Magnitude
  <2>2. h[1] = 0
    <3>1. 1 \in 1..Len(text)
      BY <1>7, <2>1
    <3> QED
      BY <1>7, <1>9, <1>10, <3>1 DEF Horner
  <2>3. h[Len(text)] = -N
    <3>1. h[o] = 0
      BY <2>1, <2>2
    <3>2. h[o + Len(D[N])] = -N
      BY <1>2, <1>7, <1>8, <1>9, <3>1, HornerReads
    <3> QED
      BY <1>6, <1>7, <3>2
  <2>4. text[1] # "0"
    BY <1>7, <1>10
  <2> QED
    BY <1>0, <1>7, <1>9, <1>10, <2>1, <2>3, <2>4
<1>11. CASE value >= 0
  <2>1. o = 0 /\ N = value
    BY <1>1, <1>3, <1>11 DEF SignLength, Magnitude
  <2>2. h[o] = 0
    BY <1>9, <2>1 DEF Horner
  <2>3. h[Len(text)] = -N
    <3>2. h[o + Len(D[N])] = -N
      BY <1>2, <1>7, <1>8, <1>9, <2>2, HornerReads
    <3> QED
      BY <1>6, <1>7, <3>2
  <2>4. text[1] = D[N][Len(D[N])]
    <3>1. 1 \in 1..L /\ o + 1 = 1 /\ L + 1 - 1 = L
      BY <1>7, <2>1
    <3> QED
      BY <1>6, <1>7, <3>1
  <2>5. text[1] # "-"
    <3>1. D[N][Len(D[N])] \in Numeric(10)
      BY <1>5, <1>6
    <3> QED
      BY <2>4, <3>1, DigitChars
  <2>6. text[1] = "0" => Len(text) = 1
    <3> SUFFICES ASSUME text[1] = "0" PROVE Len(text) = 1
      OBVIOUS
    <3>0. D[N][Len(D[N])] = "0"
      BY <2>4
    <3>1. N = 0
      BY <1>2, <1>4, <3>0, ShortNumerals
    <3>2. Len(D[N]) = 1
      <4>1. N < 10
        BY <3>1
      <4> QED
        BY <1>2, <1>4, <4>1, NumeralSize
    <3> QED
      BY <1>6, <1>7, <2>1, <3>2
  <2> QED
    BY <1>0, <1>7, <1>9, <2>1, <2>3, <2>5, <2>6
<1> QED
  BY <1>10, <1>11

\* The texts of small numbers are short.
Short(value) ==
  /\ Len(convert(value)) \in Nat
  /\ value < 1000 => Len(convert(value)) <= 3
  /\ value < 10000 => Len(convert(value)) <= 4

LEMMA ConvertShort ==
  ASSUME NEW value \in Nat PROVE Short(value)
<1>1. PICK D : Numerals(D, value, 10)
  <2>1. 10 \in {10, 16}
    OBVIOUS
  <2> QED
    BY <2>1, NumeralsExist
<1>2. value = Magnitude(value) /\ 0 = SignLength(value) /\ value \in 0..value
  BY DEF Magnitude, SignLength
<1>3. PICK L \in Nat : L = Len(D[value])
  BY <1>1, <1>2, NumeralSize
<1>4. Len(convert(value)) = 0 + L
  BY <1>1, <1>2, <1>3, ConvertText DEF Shows
<1> QED
  BY <1>1, <1>2, <1>3, <1>4, ShortNumerals DEF Short

\* The text of a pointer is one of hexadecimal digits.
LEMMA ConvertHexText ==
  ASSUME NEW value \in Nat
  PROVE  convertHex(value) \in Seq(Numeric(16))
<1>0. 16 \in {10, 16} /\ value \in 0..value
  OBVIOUS
<1>1. PICK D : Numerals(D, value, 16)
  BY <1>0, NumeralsExist
<1> DEFINE Body(g) == [i \in 0..value |->
                         <<digitsHex[(i % 16) + 1]>>
                           \o IF i \div 16 # 0 THEN g[i \div 16] ELSE <<>>]
<1>2. D = Body(D)
  <2>1. D \in [0..value -> Seq(Numeric(16))]
    BY <1>1 DEF Numerals
  <2>2. \A i \in 0..value :
          D[i] = <<digitsHex[(i % 16) + 1]>>
                   \o IF i \div 16 # 0 THEN D[i \div 16] ELSE <<>>
    <3> SUFFICES ASSUME NEW i \in 0..value
                 PROVE  D[i] = <<digitsHex[(i % 16) + 1]>>
                          \o IF i \div 16 # 0 THEN D[i \div 16] ELSE <<>>
      OBVIOUS
    <3>1. Grows(D, i, 16)
      BY <1>0, <1>1, NumeralStep
    <3> QED
      BY <3>1 DEF Grows
  <2> QED
    BY <2>1, <2>2
<1>3. PICK h : h = CHOOSE g : g = Body(g)
  OBVIOUS
<1>4. h = Body(h)
  BY <1>2, <1>3
<1>5. \A k \in 0..value : h[k] \in Seq(Numeric(16))
  <2> DEFINE Bad == {k \in 0..value : h[k] \notin Seq(Numeric(16))}
  <2>1. SUFFICES ASSUME Bad # {} PROVE FALSE
    OBVIOUS
  <2>2. PICK k \in Bad : \A m \in Bad : k <= m
    <3>1. Bad \subseteq Nat
      OBVIOUS
    <3> HIDE DEF Bad
    <3> QED
      BY <2>1, <3>1, LeastNumber
  <2>3. k \in 0..value /\ h[k] \notin Seq(Numeric(16))
    BY <2>2
  <2>4. PICK c : c = digitsHex[(k % 16) + 1]
    OBVIOUS
  <2>5. c \in Numeric(16)
    <3>1. k % 16 \in 0..(16 - 1)
      BY <2>3
    <3> QED
      BY <1>0, <2>4, <3>1, Digit
  <2>6. PICK q \in 0..value : q = k \div 16 /\ (q # 0 => q < k)
    BY <2>3
  <2>7. h[k] = <<c>> \o IF q # 0 THEN h[q] ELSE <<>>
    BY <1>4, <2>3, <2>4, <2>6
  <2>8. q # 0 => h[q] \in Seq(Numeric(16))
    <3>1. q # 0 => q \notin Bad
      <4> HIDE DEF Bad
      <4> QED
        BY <2>2, <2>3, <2>6
    <3> QED
      BY <2>6, <3>1
  <2>9. PICK r : r = IF q # 0 THEN h[q] ELSE <<>>
    OBVIOUS
  <2>10. r \in Seq(Numeric(16))
    BY <2>8, <2>9
  <2>11. <<c>> \o r \in Seq(Numeric(16))
    BY <2>5, <2>10
  <2> QED
    BY <2>3, <2>7, <2>9, <2>11
<1>6. convertHex(value) = Reverse(h[value])
  BY <1>3 DEF convertHex
<1>7. h[value] \in Seq(Numeric(16))
  BY <1>0, <1>5
<1> QED
  BY <1>6, <1>7, ReverseParts

-----------------------------------------------------------------------------
(* What << adds.                                                           *)

\* How large the number of a quantity's text is, and with which decimals.
IsSI(m, d, e) == /\ m <= 9999 /\ (e = 15 => m <= 9223)
                 /\ d \in Nat /\ m - 1 <= d /\ d <= m + 1
                 /\ d = m + 1 => e > 12 \/ (e = 12 /\ m <= 9993)

SIDigits(q, m, d, e) ==
  /\ q.number \in Nat /\ q.number <= 1000
  /\ q.number = 1000 =>
       q.decimals = 0 \/ (m = 9994 /\ d = 9995 /\ e = 13)

\* formatSI() prints three digits, or 1000: "1000P", and "100.0P" for one
\* integer's double,
LEMMA SIFits ==
  ASSUME NEW m \in Nat, NEW d, NEW e \in 0..15, IsSI(m, d, e)
  PROVE  SIDigits(formatSI(m, d, e), m, d, e)
<1>0. d \in Nat /\ m - 1 <= d /\ d <= m + 1
  BY DEF IsSI
<1>1. m < 9995 => Rounded(d, 10) \in Nat /\ Rounded(d, 10) <= 1000
  BY <1>0 DEF Rounded
<1>2. m <= 9999 => Rounded(d, 100) \in Nat /\ Rounded(d, 100) <= 999
  BY <1>0 DEF Rounded
<1>3. m < 9995 /\ Rounded(d, 10) = 1000 => m = 9994 /\ d = 9995 /\ e \in {13, 14}
  <2>1. HAVE m < 9995 /\ Rounded(d, 10) = 1000
  <2>2. d >= 9995
    BY <1>0, <2>1 DEF Rounded
  <2>3. m = 9994 /\ d = 9995
    BY <1>0, <2>1, <2>2
  <2> QED
    BY <2>3 DEF IsSI
<1>4. m <= 9999 /\ (e = 15 => m <= 9223)
  BY DEF IsSI
<1>5. CASE e = 0 /\ m < 1000
  <2>1. formatSI(m, d, e) = Rendered(m, 0, 0)
    BY <1>5 DEF formatSI
  <2> QED
    BY <1>5, <2>1 DEF Rendered, SIDigits
<1>6. CASE ~(e = 0 /\ m < 1000) /\ m < 9995 /\ e < 15
  <2>1. formatSI(m, d, e) = Rendered(Rounded(d, 10), 2 - (e % 3), (e \div 3) + 1)
    BY <1>6 DEF formatSI, SIRow
  <2> QED
    BY <1>1, <1>3, <1>6, <2>1 DEF Rendered, SIDigits
<1>7. CASE ~(e = 0 /\ m < 1000) /\ m < 9995 /\ e = 15
  <2>1. formatSI(m, d, e) = Rendered(Rounded(d, 10), 2, 6)
    BY <1>7 DEF formatSI, SIRow
  <2> QED
    BY <1>1, <1>3, <1>7, <2>1 DEF Rendered, SIDigits
<1>8. CASE ~(e = 0 /\ m < 1000) /\ m >= 9995 /\ e < 14
  <2>1. formatSI(m, d, e) = Rendered(Rounded(d, 100), 2 - ((e + 1) % 3), ((e + 1) \div 3) + 1)
    BY <1>8 DEF formatSI, SIRow
  <2> QED
    BY <1>2, <1>4, <1>8, <2>1 DEF Rendered, SIDigits
<1>9. CASE ~(e = 0 /\ m < 1000) /\ m >= 9995 /\ e = 14
  <2>1. formatSI(m, d, e) = Rendered(Rounded(d, 100), 2, 6)
    BY <1>9 DEF formatSI, SIRow
  <2> QED
    BY <1>2, <1>4, <1>9, <2>1 DEF Rendered, SIDigits
<1> QED
  BY <1>4, <1>5, <1>6, <1>7, <1>8, <1>9

FourCharacters(q) == /\ q.number \in Nat /\ q.number < 10000
                     /\ q.decimals = 0 \/ q.number < 1000

IsIEC(c, d, e) == /\ c <= 104857599 /\ (e = 5 => c <= 819200)
                  /\ d \in Nat /\ d <= c

\* and formatIEC() four without a decimal point.
LEMMA IECFits ==
  ASSUME NEW c \in Nat, NEW d, NEW e \in 0..5, IsIEC(c, d, e)
  PROVE  FourCharacters(formatIEC(c, d, e))
<1>0. d \in Nat /\ d <= c
  BY SMT DEF IsIEC
<1>1. c * 10 < 1024 * 9995 => Rounded(d, 1024) \in Nat /\ Rounded(d, 1024) < 1000
  BY <1>0, SMT DEF Rounded
<1>2. c < 1024 * 9995 \/ c <= 819200 => Rounded(d, 10240) \in Nat /\ Rounded(d, 10240) < 1000
  BY <1>0, SMT DEF Rounded
<1>3. c < 1024 * 102350 => Rounded(d, 102400) \in Nat /\ Rounded(d, 102400) < 10000
  BY <1>0, SMT DEF Rounded
<1>4. c <= 104857599 => Rounded(d, 1048576) \in Nat /\ Rounded(d, 1048576) < 1000
  BY <1>0, SMT DEF Rounded
<1>5. c <= 104857599 /\ (e = 5 => c <= 819200)
  BY SMT DEF IsIEC
<1>6. CASE e = 0 /\ c < 102400
  <2>1. formatIEC(c, d, e) = Rendered(c \div 100, 0, 0)
    BY <1>6, SMT DEF formatIEC
  <2>2. c \div 100 \in Nat /\ c \div 100 < 10000
    BY <1>6, SMT
  <2> QED
    BY <2>1, <2>2, SMT DEF Rendered, FourCharacters
<1>7. CASE ~(e = 0 /\ c < 102400) /\ c * 10 < 1024 * 9995
  <2>1. formatIEC(c, d, e) = Rendered(Rounded(d, 1024), 2, e + 1)
    BY <1>7, SMT DEF formatIEC
  <2> QED
    BY <1>1, <1>7, <2>1, SMT DEF Rendered, FourCharacters
<1>8. CASE /\ ~(e = 0 /\ c < 102400) /\ ~(c * 10 < 1024 * 9995)
           /\ e = 5 \/ c < 1024 * 9995
  <2>1. formatIEC(c, d, e) = Rendered(Rounded(d, 10240), 1, e + 1)
    BY <1>8, SMT DEF formatIEC
  <2>2. Rounded(d, 10240) \in Nat /\ Rounded(d, 10240) < 1000
    BY <1>2, <1>5, <1>8, SMT
  <2> QED
    BY <2>1, <2>2, SMT DEF Rendered, FourCharacters
<1>9. CASE /\ ~(e = 0 /\ c < 102400) /\ ~(c * 10 < 1024 * 9995)
           /\ ~(e = 5 \/ c < 1024 * 9995) /\ c < 1024 * 102350
  <2>1. formatIEC(c, d, e) = Rendered(Rounded(d, 102400), 0, e + 1)
    BY <1>9, SMT DEF formatIEC
  <2> QED
    BY <1>3, <1>9, <2>1, SMT DEF Rendered, FourCharacters
<1>10. CASE /\ ~(e = 0 /\ c < 102400) /\ ~(c * 10 < 1024 * 9995)
            /\ ~(e = 5 \/ c < 1024 * 9995) /\ ~(c < 1024 * 102350)
  <2>1. formatIEC(c, d, e) = Rendered(Rounded(d, 1048576), 2, e + 2)
    BY <1>10, SMT DEF formatIEC
  <2> QED
    BY <1>4, <1>5, <2>1, SMT DEF Rendered, FourCharacters
<1> QED
  BY <1>6, <1>7, <1>8, <1>9, <1>10, SMT

\* The kinds of items, and what a statement may say of each.
LEMMA ItemKinds ==
  ASSUME NEW item, IsItem(item)
  PROVE  \/ item.kind = "integer" /\ item.value \in Int
            /\ Len(convert(item.value)) < MaxNumericSize
         \/ item.kind = "pointer" /\ item.value \in Nat
            /\ Len(convertHex(item.value)) + 2 < MaxNumericSize
         \/ item.kind = "double" /\ item.len \in Nat /\ item.len < MaxNumericSize
         \/ item.kind = "string" /\ item.len \in Nat
         \/ item.kind = "null"
         \/ /\ item.kind = "SI" /\ item.len \in 0..15 /\ item.value \in Nat
            /\ IsSI(item.value, item.double, item.len)
         \/ /\ item.kind = "IEC" /\ item.len \in 0..5 /\ item.value \in Nat
            /\ IsIEC(item.value, item.double, item.len)
<1>0. MaxNumericSize \in Nat
  BY StreamAssumption
<1>1. ASSUME item.kind = "SI", item.len \in 0..15, item.value \in Nat,
             item.value <= 9999, item.len = 15 => item.value <= 9223,
             item.double \in SIDoubles(item.value, item.len)
      PROVE  IsSI(item.value, item.double, item.len)
  <2>0. PICK m \in Nat, e \in 0..15 : m = item.value /\ e = item.len
    BY <1>1
  <2>1. PICK d : d = item.double
    OBVIOUS
  <2>2. \/ d = m
        \/ d = m - 1 /\ m % 10 = 5
        \/ d = m + 1 /\ (e > 12 \/ (e = 12 /\ m \in 9007..9993))
    BY <1>1, <2>0, <2>1, SMT DEF SIDoubles
  <2>3. IsSI(m, d, e)
    BY <1>1, <2>0, <2>1, <2>2, SMT DEF IsSI
  <2> QED
    BY <2>0, <2>1, <2>3
<1>2. ASSUME item.kind = "IEC", item.len \in 0..5, item.value \in Nat,
             item.value <= 104857599, item.len = 5 => item.value <= 819200,
             item.double \in IECDoubles(item.value)
      PROVE  IsIEC(item.value, item.double, item.len)
  <2>0. PICK c \in Nat, e \in 0..5 : c = item.value /\ e = item.len
    BY <1>2
  <2>1. PICK d : d = item.double
    OBVIOUS
  <2>2. d = c \/ (d = c - 1 /\ c > 0)
    BY <1>2, <2>0, <2>1, SMT DEF IECDoubles
  <2>3. IsIEC(c, d, e)
    BY <1>2, <2>0, <2>1, <2>2, SMT DEF IsIEC
  <2> QED
    BY <2>0, <2>1, <2>3
<1>3. CASE item.kind = "SI"
  <2>1. /\ item.len \in 0..15 /\ item.value \in Nat
        /\ item.value <= 9999 /\ (item.len = 15 => item.value <= 9223)
        /\ item.double \in SIDoubles(item.value, item.len)
    BY <1>3, SMT DEF IsItem
  <2> QED
    BY <1>1, <1>3, <2>1
<1>4. CASE item.kind = "IEC"
  <2>1. /\ item.len \in 0..5 /\ item.value \in Nat
        /\ item.value <= 104857599 /\ (item.len = 5 => item.value <= 819200)
        /\ item.double \in IECDoubles(item.value)
    BY <1>4, SMT DEF IsItem
  <2> QED
    BY <1>2, <1>4, <2>1
<1>5. CASE item.kind \notin {"SI", "IEC"}
  BY <1>0, <1>5, SMT DEF IsItem
<1> QED
  BY <1>3, <1>4, <1>5

\* The piece that << adds for an item, if it adds one.
QuantityOf(item) ==
  IF item.kind = "SI" THEN formatSI(item.value, item.double, item.len)
                      ELSE formatIEC(item.value, item.double, item.len)
UnitLength(item) == IF QuantityOf(item).unit = 0 THEN 0
                    ELSE IF item.kind = "SI" THEN 1 ELSE 2
Hexadecimal(item) == <<"0", "x">> \o convertHex(item.value)
PieceOf(item) ==
  CASE item.kind = "null" -> Piece(item, "(null)", 6)
    [] item.kind \in {"string", "double"} -> Piece(item, item.value, item.len)
    [] item.kind = "integer" -> Piece(item, convert(item.value), Len(convert(item.value)))
    [] item.kind = "pointer" -> Piece(item, Hexadecimal(item), Len(Hexadecimal(item)))
    [] item.kind \in {"SI", "IEC"} ->
         Piece(item, QuantityOf(item), Characters(QuantityOf(item)) + UnitLength(item))

\* Every item's piece is right, and a number fits where there is room for one.
LEMMA PieceRight ==
  ASSUME NEW item, IsItem(item)
  PROVE  /\ PieceOf(item).len \in Nat /\ Right(PieceOf(item))
         /\ item.kind \in {"integer", "pointer", "double"} =>
              PieceOf(item).len < MaxNumericSize
         /\ item.kind = "string" =>
              PieceOf(item).len = item.len /\ PieceOf(item).text = item.value
<1>1. CASE item.kind = "integer"
  <2>1. item.value \in Int /\ Len(convert(item.value)) < MaxNumericSize
    BY <1>1, ItemKinds
  <2>2. PICK text : text = convert(item.value)
    OBVIOUS
  <2>3. /\ Len(text) \in Nat /\ Decimal(text) = item.value
        /\ text[1] = "0" => Len(text) = 1
    BY <2>1, <2>2, ConvertRight
  <2>4. PieceOf(item) = Piece(item, text, Len(text))
    BY <1>1, <2>2 DEF PieceOf
  <2>5. PICK p : p = PieceOf(item)
    OBVIOUS
  <2>6. p.item = item /\ p.text = text /\ p.len = Len(text)
    BY <2>4, <2>5 DEF Piece
  <2>7. Right(p)
    BY <1>1, <2>3, <2>6 DEF Right
  <2> QED
    BY <1>1, <2>1, <2>2, <2>3, <2>5, <2>6, <2>7
<1>2. CASE item.kind = "pointer"
  <2>1. item.value \in Nat /\ Len(convertHex(item.value)) + 2 < MaxNumericSize
    BY <1>2, ItemKinds
  <2>2. PICK text : text = convertHex(item.value)
    OBVIOUS
  <2>3. text \in Seq(Numeric(16))
    BY <2>1, <2>2, ConvertHexText
  <2>4. PICK S : S = Numeric(16) \cup {"0", "x"}
    OBVIOUS
  <2>5. text \in Seq(S) /\ <<"0", "x">> \in Seq(S)
    BY <2>3, <2>4
  <2>6. Len(<<"0", "x">> \o text) = 2 + Len(text) /\ Len(text) \in Nat
    BY <2>5
  <2>7. PieceOf(item) = Piece(item, <<"0", "x">> \o text, Len(<<"0", "x">> \o text))
    BY <1>2, <2>2 DEF PieceOf, Hexadecimal
  <2>8. PICK p : p = PieceOf(item)
    OBVIOUS
  <2>9. p.item = item /\ p.len = 2 + Len(text)
    BY <2>6, <2>7, <2>8 DEF Piece
  <2>10. Right(p)
    BY <1>2, <2>9 DEF Right
  <2>11. MaxNumericSize \in Nat
    BY StreamAssumption
  <2> QED
    BY <1>2, <2>1, <2>2, <2>6, <2>8, <2>9, <2>10, <2>11
<1>3. CASE item.kind \in {"string", "double"}
  <2>1. item.len \in Nat /\ (item.kind = "double" => item.len < MaxNumericSize)
    BY <1>3, ItemKinds
  <2>2. PieceOf(item) = Piece(item, item.value, item.len)
    BY <1>3 DEF PieceOf
  <2>3. PICK p : p = PieceOf(item)
    OBVIOUS
  <2>4. p.item = item /\ p.text = item.value /\ p.len = item.len
    BY <2>2, <2>3 DEF Piece
  <2>5. Right(p)
    BY <1>3, <2>4 DEF Right
  <2> QED
    BY <1>3, <2>1, <2>3, <2>4, <2>5
<1>4. CASE item.kind = "null"
  <2>1. PieceOf(item) = Piece(item, "(null)", 6)
    BY <1>4 DEF PieceOf
  <2>2. PICK p : p = PieceOf(item)
    OBVIOUS
  <2>3. p.item = item /\ p.len = 6
    BY <2>1, <2>2 DEF Piece
  <2>4. Right(p)
    BY <1>4, <2>3 DEF Right
  <2> QED
    BY <1>4, <2>2, <2>3, <2>4
<1>5. ASSUME item.kind \in {"SI", "IEC"}, NEW q, q = QuantityOf(item),
             q.number \in Nat, NEW a \in Nat, a >= 3,
             Len(convert(q.number)) + (IF q.decimals > 0 THEN 1 ELSE 0) <= a,
             NEW u \in Nat, u = UnitLength(item),
             a + u <= IF item.kind = "SI" /\ ~IsTooLong(item) THEN 5 ELSE 6
      PROVE  /\ PieceOf(item).len \in Nat /\ Right(PieceOf(item))
  <2>1. PieceOf(item) = Piece(item, q, Characters(q) + u)
    BY <1>5 DEF PieceOf
  <2>2. Characters(q) \in Nat /\ Characters(q) <= a
    <3>0. PICK m \in Nat : m = q.number
      BY <1>5
    <3>1. PICK n \in Nat : n = Len(convert(q.number))
      <4>1. Short(m)
        BY <3>0, ConvertShort
      <4> QED
        BY <3>0, <4>1 DEF Short
    <3> QED
      BY <1>5, <3>1 DEF Characters
  <2>3. PICK p : p = PieceOf(item)
    OBVIOUS
  <2>4. p.item = item /\ p.len = Characters(q) + u
    BY <2>1, <2>3 DEF Piece
  <2>5. Right(p)
    BY <1>5, <2>2, <2>4 DEF Right
  <2> QED
    BY <1>5, <2>2, <2>3, <2>4, <2>5
<1>6. CASE item.kind = "SI"
  <2>1. PICK q : q = formatSI(item.value, item.double, item.len)
    OBVIOUS
  <2>2. q = QuantityOf(item)
    BY <1>6, <2>1 DEF QuantityOf
  <2>3. /\ q.number \in Nat /\ q.number <= 1000
        /\ q.number = 1000 => q.decimals = 0 \/ IsTooLong(item)
    <3>1. PICK m \in Nat, d \in Nat, e \in 0..15 :
            m = item.value /\ d = item.double /\ e = item.len /\ IsSI(m, d, e)
      <4>1. /\ item.len \in 0..15 /\ item.value \in Nat
            /\ IsSI(item.value, item.double, item.len)
        BY <1>6, ItemKinds
      <4>2. item.double \in Nat
        BY <4>1 DEF IsSI
      <4> QED
        BY <4>1, <4>2
    <3>2. SIDigits(formatSI(m, d, e), m, d, e)
      BY <3>1, SIFits
    <3> QED
      BY <1>6, <2>1, <3>1, <3>2 DEF SIDigits, IsTooLong
  <2>4. PICK n \in Nat : /\ n = Len(convert(q.number)) /\ n <= 4
                         /\ q.number < 1000 => n <= 3
    <3>1. PICK m \in Nat : m = q.number /\ m < 10000
      BY <2>3
    <3>2. Short(m)
      BY <3>1, ConvertShort
    <3> QED
      BY <3>1, <3>2 DEF Short
  <2>5. UnitLength(item) = IF q.unit = 0 THEN 0 ELSE 1
    BY <1>6, <2>2 DEF UnitLength
  <2>6. n + (IF q.decimals > 0 THEN 1 ELSE 0) <= IF IsTooLong(item) THEN 5 ELSE 4
    BY <2>3, <2>4
  <2>7. PICK u \in Nat : u = UnitLength(item) /\ u <= 1
    BY <2>5
  <2>8. PICK a \in Nat : a = IF IsTooLong(item) THEN 5 ELSE 4
    OBVIOUS
  <2>9. a >= 3 /\ a + u <= IF item.kind = "SI" /\ ~IsTooLong(item) THEN 5 ELSE 6
    BY <1>6, <2>7, <2>8
  <2> QED
    BY <1>5, <1>6, <2>2, <2>3, <2>4, <2>6, <2>7, <2>8, <2>9
<1>7. CASE item.kind = "IEC"
  <2>1. PICK q : q = formatIEC(item.value, item.double, item.len)
    OBVIOUS
  <2>2. q = QuantityOf(item)
    BY <1>7, <2>1 DEF QuantityOf
  <2>3. /\ q.number \in Nat /\ q.number < 10000
        /\ q.decimals = 0 \/ q.number < 1000
    <3>1. PICK c \in Nat, d \in Nat, e \in 0..5 :
            c = item.value /\ d = item.double /\ e = item.len /\ IsIEC(c, d, e)
      <4>1. /\ item.len \in 0..5 /\ item.value \in Nat
            /\ IsIEC(item.value, item.double, item.len)
        BY <1>7, ItemKinds
      <4>2. item.double \in Nat
        BY <4>1 DEF IsIEC
      <4> QED
        BY <4>1, <4>2
    <3>2. FourCharacters(formatIEC(c, d, e))
      BY <3>1, IECFits
    <3> QED
      BY <2>1, <3>1, <3>2 DEF FourCharacters
  <2>4. PICK n \in Nat : n = Len(convert(q.number)) /\ n <= 4 /\ (q.number < 1000 => n <= 3)
    <3>1. PICK m \in Nat : m = q.number /\ m < 10000
      BY <2>3
    <3>2. Short(m)
      BY <3>1, ConvertShort
    <3> QED
      BY <3>1, <3>2 DEF Short
  <2>5. UnitLength(item) = IF q.unit = 0 THEN 0 ELSE 2
    BY <1>7, <2>2 DEF UnitLength
  <2>6. n + (IF q.decimals > 0 THEN 1 ELSE 0) <= 4
    BY <2>3, <2>4
  <2>7. PICK u \in Nat : u = UnitLength(item) /\ u <= 2
    BY <2>5
  <2> QED
    BY <1>5, <1>7, <2>2, <2>3, <2>4, <2>6, <2>7
<1> QED
  BY <1>1, <1>2, <1>3, <1>4, <1>6, <1>7, ItemKinds

\* The greater of two numbers.
LEMMA MaxOfTwo ==
  ASSUME NEW a \in Nat, NEW b \in Nat
  PROVE  Max({a, b}) = IF a >= b THEN a ELSE b
<1>1. CASE a >= b
  <2>1. \A x \in {a, b} : a >= x
    BY <1>1
  <2>2. \A x \in {a, b} : (\A y \in {a, b} : x >= y) => x = a
    BY <1>1
  <2> QED
    BY <1>1, <2>1, <2>2 DEF Max
<1>2. CASE ~(a >= b)
  <2>1. \A x \in {a, b} : b >= x
    BY <1>2
  <2>2. \A x \in {a, b} : (\A y \in {a, b} : x >= y) => x = b
    BY <1>2
  <2> QED
    BY <1>2, <2>1, <2>2 DEF Max
<1> QED
  BY <1>1, <1>2

\* What a stream of these pieces is like at any time.
Streams(P) == {s \in [pieces : Seq(P), length : Nat, top : Nat] :
                 s.length < Size /\ s.top <= Size}

\* Where a piece fits, the stream stays within its bounds.
LEMMA WrittenRight ==
  ASSUME NEW P, NEW s \in Streams(P), NEW p \in P, p.len \in Nat,
         NEW x \in {0, 1}, s.length + p.len < Size, s.length + p.len + x <= Size
  PROVE  Written(s, p, x) \in Streams(P)
<1>1. /\ s.pieces \in Seq(P) /\ s.length \in Nat /\ s.top \in Nat
      /\ s.length < Size /\ s.top <= Size
  BY DEF Streams
<1>2. PICK n \in Nat : n = s.length + p.len
  BY <1>1
<1>3. PICK k \in Nat : k = n + x
  BY <1>2
<1>4. PICK m \in Nat : m = Max({s.top, k}) /\ m <= Size
  <2>1. Max({s.top, k}) = IF s.top >= k THEN s.top ELSE k
    BY <1>1, MaxOfTwo
  <2> QED
    BY <1>1, <1>2, <1>3, <2>1
<1>5. Written(s, p, x) = [pieces |-> Append(s.pieces, p), length |-> n, top |-> m]
  BY <1>2, <1>3, <1>4 DEF Written
<1>6. Append(s.pieces, p) \in Seq(P)
  BY <1>1
<1>7. n < Size
  BY <1>2
<1>8. PICK r : r = Written(s, p, x)
  OBVIOUS
<1>9. r \in [pieces : Seq(P), length : Nat, top : Nat] /\ r.length = n /\ r.top = m
  BY <1>5, <1>6, <1>8
<1> QED
  BY <1>4, <1>7, <1>8, <1>9 DEF Streams

\* << adds the item's piece or nothing; a string of n bytes is added where
\* more than n are left.
LEMMA PutRight ==
  ASSUME NEW P, NEW s \in Streams(P), NEW item, IsItem(item), PieceOf(item) \in P
  PROVE  /\ Put(s, item) \in Streams(P)
         /\ item.kind = "string" =>
              Put(s, item) = IF avail(s) > item.len THEN Written(s, PieceOf(item), 0) ELSE s
<1>0. PICK p : p = PieceOf(item)
  OBVIOUS
<1>1. /\ p \in P /\ p.len \in Nat
      /\ item.kind \in {"integer", "pointer", "double"} => p.len < MaxNumericSize
      /\ item.kind = "string" => p.len = item.len
  BY <1>0, PieceRight
<1>2. s.length \in Nat /\ s.length < Size /\ Size \in Nat /\ MaxNumericSize \in Nat
  BY StreamAssumption DEF Streams
<1>3. append(s, p) \in Streams(P)
  <2>1. CASE avail(s) > p.len
    <3>1. s.length + p.len < Size /\ s.length + p.len + 0 <= Size
      BY <1>1, <1>2, <2>1 DEF avail
    <3>2. Written(s, p, 0) \in Streams(P)
      BY <1>1, <3>1, WrittenRight
    <3> QED
      BY <2>1, <3>2 DEF append
  <2>2. CASE ~(avail(s) > p.len)
    BY <2>2 DEF append
  <2> QED
    BY <2>1, <2>2
<1>4. ASSUME p.len < MaxNumericSize PROVE InPlace(s, p) \in Streams(P)
  <2>1. CASE avail(s) >= MaxNumericSize
    <3>1. s.length + p.len < Size /\ s.length + p.len + 1 <= Size
      BY <1>1, <1>2, <1>4, <2>1 DEF avail
    <3>2. Written(s, p, 1) \in Streams(P)
      BY <1>1, <3>1, WrittenRight
    <3> QED
      BY <2>1, <3>2 DEF InPlace
  <2>2. CASE ~(avail(s) >= MaxNumericSize)
    BY <2>2 DEF InPlace
  <2> QED
    BY <2>1, <2>2
<1>5. CASE item.kind = "string"
  <2>1. p = Piece(item, item.value, item.len)
    BY <1>0, <1>5 DEF PieceOf
  <2>2. Put(s, item) = append(s, p)
    BY <1>5, <2>1 DEF Put, PutString
  <2> QED
    BY <1>0, <1>1, <1>3, <1>5, <2>2 DEF append
<1>6. CASE item.kind = "null"
  <2>1. p = Piece(item, "(null)", 6)
    BY <1>0, <1>6 DEF PieceOf
  <2>2. Put(s, item) = append(s, p)
    BY <1>6, <2>1 DEF Put, PutString
  <2> QED
    BY <1>3, <1>6, <2>2
<1>7. CASE item.kind = "integer"
  <2>1. p = Piece(item, convert(item.value), Len(convert(item.value)))
    BY <1>0, <1>7 DEF PieceOf
  <2>2. Put(s, item) = InPlace(s, p)
    BY <1>7, <2>1 DEF Put, PutNumber
  <2> QED
    BY <1>1, <1>4, <1>7, <2>2
<1>8. CASE item.kind = "pointer"
  <2>1. p = Piece(item, Hexadecimal(item), Len(Hexadecimal(item)))
    BY <1>0, <1>8 DEF PieceOf
  <2>2. Put(s, item) = InPlace(s, p)
    BY <1>8, <2>1 DEF Put, PutNumber, Hexadecimal
  <2> QED
    BY <1>1, <1>4, <1>8, <2>2
<1>9. CASE item.kind = "double"
  <2>1. p = Piece(item, item.value, item.len)
    BY <1>0, <1>9 DEF PieceOf
  <2>2. Put(s, item) = InPlace(s, p)
    BY <1>9, <2>1 DEF Put, PutNumber
  <2> QED
    BY <1>1, <1>4, <1>9, <2>2
<1>10. CASE item.kind \in {"SI", "IEC"}
  <2>1. p = Piece(item, QuantityOf(item), Characters(QuantityOf(item)) + UnitLength(item))
    BY <1>0, <1>10 DEF PieceOf
  <2>2. Put(s, item) = append(s, p)
    <3>1. Put(s, item) = PutQuantity(s, item)
      BY <1>10 DEF Put
    <3> QED
      BY <2>1, <3>1 DEF PutQuantity, QuantityOf, UnitLength
  <2> QED
    BY <1>3, <1>10, <2>2
<1> QED
  BY <1>5, <1>6, <1>7, <1>8, <1>9, <1>10, ItemKinds

\* A number that is in a set is below all others, or another is above it.
LEMMA LargestNumber ==
  ASSUME NEW n \in Nat, NEW S, S \subseteq 1..n, S # {}
  PROVE  Max(S) \in S
<1> DEFINE T == {n - i : i \in S}
<1>1. PICK k \in T : \A m \in T : k <= m
  <2>1. T \subseteq Nat /\ T # {}
    <3>1. \A i \in S : i \in 1..n
      OBVIOUS
    <3>2. \A i \in S : n - i \in Nat
      BY <3>1
    <3> QED
      BY <3>2
  <2> HIDE DEF T
  <2> QED
    BY <2>1, LeastNumber
<1>2. PICK i \in S : k = n - i
  BY <1>1
<1>3. \A j \in S : i >= j
  <2> SUFFICES ASSUME NEW j \in S PROVE i >= j
    OBVIOUS
  <2>0. i \in 1..n /\ j \in 1..n
    OBVIOUS
  <2>1. n - j \in T
    OBVIOUS
  <2>2. n - i <= n - j
    BY <1>1, <1>2, <2>1
  <2> QED
    BY <2>0, <2>2
<1>4. \E x \in S : \A y \in S : x >= y
  BY <1>2, <1>3
<1> QED
  BY <1>4 DEF Max

\* A path's last part has a length.
LEMMA BasenameLength ==
  ASSUME NEW path, IsSequence(path)
  PROVE  Len(Basename(path)) \in Nat
<1>1. PICK S : path \in Seq(S)
  BY DEF IsSequence
<1>2. PICK n \in Nat : n = Len(path) /\ DOMAIN path = 1..n
  BY <1>1
<1> DEFINE slashes == {i \in DOMAIN path : path[i] = "/"}
<1>3. PICK last \in 0..n : last = IF slashes = {} THEN 0 ELSE Max(slashes)
  <2>1. slashes \subseteq 1..n
    BY <1>2
  <2> HIDE DEF slashes
  <2>2. slashes # {} => Max(slashes) \in slashes
    BY <2>1, LargestNumber
  <2>3. PICK m : m = Max(slashes)
    OBVIOUS
  <2>4. slashes # {} => m \in 1..n
    BY <2>1, <2>2, <2>3
  <2>5. (IF slashes = {} THEN 0 ELSE m) \in 0..n
    BY <2>4
  <2> QED
    BY <2>3, <2>5
<1>4. Basename(path) = SubSeq(path, last + 1, n)
  BY <1>2, <1>3 DEF Basename
<1>5. SubSeq(path, last + 1, n) \in Seq(S)
  <2>1. \A i \in (last + 1)..n : path[i] \in S
    BY <1>1, <1>2
  <2> QED
    BY <1>1, <1>2, <2>1
<1> QED
  BY <1>4, <1>5

\* A statement's line ends with the line end, and has items before it.
LineEnd == String("\n", 1)

\* A line consists of items, the last of which is the line end.
LEMMA LineItems ==
  ASSUME NEW st, IsStatement(st), st.kind = "log", NEW second
  PROVE  \E X : /\ \A x \in X : IsItem(x)
                /\ Items(st, second) \in Seq(X) /\ Len(Items(st, second)) >= 1
                /\ Items(st, second)[Len(Items(st, second))] = LineEnd
<1>1. /\ st.level \in TRACE..FATAL /\ st.func \in Nat
      /\ IsSequence(st.path) /\ AreItems(st.items)
      /\ IsItem(Integer(st.errno)) /\ IsItem(Integer(st.line))
  BY DEF IsStatement
<1>2. ASSUME NEW v, NEW n \in Nat PROVE IsItem(String(v, n))
  <2>1. PICK item : item = String(v, n)
    OBVIOUS
  <2>2. item.kind = "string" /\ item.len = n
    BY <2>1 DEF String, Item
  <2>3. IsItem(item)
    BY <2>2, SMT DEF IsItem
  <2> QED
    BY <2>1, <2>3
<1>3. PICK b1, b2, b3, b4 : /\ b1 = String(second, 17) /\ b2 = String("microseconds", 9)
                            /\ b3 = String("tid", 6) /\ b4 = String(st.level, 6)
  OBVIOUS
<1>4. PICK e1, e2, e3, e4 : /\ e1 = String("strerror", 20) /\ e2 = String(" (errno=", 8)
                            /\ e3 = Integer(st.errno) /\ e4 = String(") ", 2)
  OBVIOUS
<1>5. PICK f1, f2 : f1 = String("func", st.func) /\ f2 = String(" ", 1)
  OBVIOUS
<1>6. PICK l1, l2, l3, l4, l5 :
        /\ l1 = String(" - ", 3) /\ l2 = String("file", Len(Basename(st.path)))
        /\ l3 = String(":", 1) /\ l4 = Integer(st.line) /\ l5 = String("\n", 1)
  OBVIOUS
<1>7. IsItem(b1) /\ IsItem(b2) /\ IsItem(b3) /\ IsItem(b4)
  BY <1>2, <1>3
<1>8. IsItem(e1) /\ IsItem(e2) /\ IsItem(e3) /\ IsItem(e4)
  BY <1>1, <1>2, <1>4
<1>9. IsItem(f1) /\ IsItem(f2)
  BY <1>1, <1>2, <1>5
<1>10. IsItem(l1) /\ IsItem(l2) /\ IsItem(l3) /\ IsItem(l4) /\ IsItem(l5)
  <2>1. Len(Basename(st.path)) \in Nat
    BY <1>1, BasenameLength
  <2> QED
    BY <1>1, <1>2, <1>6, <2>1
<1>11. PICK Y : Y = {st.items[i] : i \in DOMAIN st.items}
  OBVIOUS
<1>12. st.items \in Seq(Y) /\ \A y \in Y : IsItem(y)
  BY <1>1, <1>11 DEF AreItems, IsSequence
<1>13. PICK X : X = Y \cup {b1, b2, b3, b4, e1, e2, e3, e4, f1, f2, l1, l2, l3, l4, l5}
  OBVIOUS
<1>14. \A x \in X : IsItem(x)
  BY <1>7, <1>8, <1>9, <1>10, <1>12, <1>13
<1>15. PICK a : a = IF st.errno = 0 THEN <<>> ELSE <<e1, e2, e3, e4>>
  OBVIOUS
<1>16. PICK c : c = IF st.func = 0 THEN <<>> ELSE <<f1, f2>>
  OBVIOUS
<1>17. PICK d : d = <<b1, b2, b3, b4>>
  OBVIOUS
<1>18. PICK z : z = <<l1, l2, l3, l4, l5>>
  OBVIOUS
<1>19. a \in Seq(X) /\ c \in Seq(X) /\ d \in Seq(X) /\ z \in Seq(X) /\ st.items \in Seq(X)
  <2>1. <<e1, e2, e3, e4>> \in Seq(X) /\ <<f1, f2>> \in Seq(X)
    BY <1>13
  <2>2. a \in Seq(X) /\ c \in Seq(X)
    BY <1>15, <1>16, <2>1
  <2>3. d \in Seq(X) /\ z \in Seq(X)
    BY <1>13, <1>17, <1>18
  <2>4. st.items \in Seq(X)
    BY <1>12, <1>13
  <2> QED
    BY <2>2, <2>3, <2>4
<1>20. Items(st, second) = d \o a \o c \o st.items \o z
  BY <1>3, <1>4, <1>5, <1>6, <1>15, <1>16, <1>17, <1>18, Zenon DEF Items
<1>21. PICK w : w = d \o a \o c \o st.items
  OBVIOUS
<1>22. w \in Seq(X) /\ Items(st, second) = w \o z
  BY <1>19, <1>20, <1>21
<1>23. Len(z) = 5 /\ z[5] = LineEnd
  BY <1>6, <1>18 DEF LineEnd
<1>24. w \o z \in Seq(X) /\ Len(w \o z) = Len(w) + 5 /\ Len(w) \in Nat
       /\ (w \o z)[Len(w) + 5] = z[5]
  <2>0. w \in Seq(X) /\ z \in Seq(X) /\ Len(z) = 5
    BY <1>19, <1>22, <1>23
  <2>1. PICK k \in Nat : k = Len(w)
    BY <2>0
  <2>5. w \o z \in Seq(X)
    BY <2>0
  <2>6. Len(w \o z) = Len(w) + Len(z)
    BY <2>0, ConcatProperties
  <2>2. w \o z \in Seq(X) /\ Len(w \o z) = k + 5
    BY <2>0, <2>1, <2>5, <2>6
  <2>3. k + 5 \in 1..(Len(w) + Len(z)) /\ k + 5 > Len(w) /\ (k + 5) - Len(w) = 5
    BY <1>23, <2>1
  <2>4. (w \o z)[k + 5] = z[5]
    BY <1>19, <1>22, <2>3
  <2> QED
    BY <2>1, <2>2, <2>4
<1>25. Len(w \o z) >= 1 /\ (w \o z)[Len(w \o z)] = LineEnd
  BY <1>23, <1>24
<1> QED
  BY <1>14, <1>22, <1>24, <1>25

\* What the stream of a statement is like, when all its items are added.
StreamRight(s) ==
  /\ s.length \in Nat /\ s.length < Size /\ s.top <= Size
  /\ \A i \in DOMAIN s.pieces : Right(s.pieces[i])
  /\ s.length > 0 => s.pieces[Len(s.pieces)].text = "\n" \/ avail(s) <= 1

\* A stream that is empty is right.
LEMMA EmptyRight == StreamRight(EmptyStream) /\ \A P : EmptyStream \in Streams(P)
<1>1. PICK s : s = EmptyStream
  OBVIOUS
<1>2. s.pieces = <<>> /\ s.length = 0 /\ s.top = 0
  BY <1>1 DEF EmptyStream
<1>3. 0 < Size /\ 0 <= Size
  BY StreamAssumption
<1>4. StreamRight(s)
  BY <1>2, <1>3 DEF StreamRight
<1>5. ASSUME NEW P PROVE s \in Streams(P)
  <2>1. <<>> \in Seq(P)
    OBVIOUS
  <2>2. s \in [pieces : Seq(P), length : Nat, top : Nat]
    BY <1>1, <2>1 DEF EmptyStream
  <2> QED
    BY <1>2, <1>3, <2>2 DEF Streams
<1> QED
  BY <1>1, <1>4, <1>5

\* PutAll() adds one item after another.
Adds(h, items, N, P) ==
  /\ h \in [0..N -> Streams(P)]
  /\ \A i \in 1..N : h[i] = Put(h[i - 1], items[i])
  /\ PutAll(EmptyStream, items) = h[N]

LEMMA PutAllExists ==
  ASSUME NEW P, NEW items, NEW N \in Nat, N = Len(items),
         \A i \in 1..N : IsItem(items[i]) /\ PieceOf(items[i]) \in P
  PROVE  \E h : Adds(h, items, N, P)
<1> DEFINE Body(g) == [i \in 0..Len(items) |->
                         IF i = 0 THEN EmptyStream ELSE Put(g[i - 1], items[i])]
<1>1. PICK V : V = Streams(P)
  OBVIOUS
<1>2. EmptyStream \in V
  BY <1>1, EmptyRight
<1>3. PICK step : step = [k \in 1..N |-> [x \in V |-> Put(x, items[k])]]
  OBVIOUS
<1>4. step \in [1..N -> [V -> V]]
  <2>1. \A k \in 1..N, x \in V : Put(x, items[k]) \in V
    BY <1>1, PutRight
  <2> QED
    BY <1>3, <2>1
<1>5. PICK prev : prev = [k \in 1..N |-> k - 1]
  OBVIOUS
<1>6. prev \in [1..N -> Nat] /\ \A k \in 1..N : prev[k] < k /\ prev[k] = k - 1
  BY <1>5
<1>7. PICK base : base = EmptyStream
  OBVIOUS
<1>8. PICK g \in [0..N -> V] : Follows(g, N, base, prev, step)
  <2>1. base \in V /\ \A k \in 1..N : prev[k] < k
    BY <1>2, <1>6, <1>7
  <2> QED
    BY <1>4, <1>6, <2>1, RecursiveFunction
<1>9. g[0] = EmptyStream
  BY <1>7, <1>8 DEF Follows
<1>10. ASSUME NEW k \in 1..N PROVE g[k] = Put(g[k - 1], items[k])
  <2>1. g[k] = step[k][g[k - 1]] /\ g[k - 1] \in V
    BY <1>6, <1>8 DEF Follows
  <2> QED
    BY <1>3, <2>1
<1>11. g = Body(g)
  <2>1. \A i \in 0..N : g[i] = IF i = 0 THEN EmptyStream ELSE Put(g[i - 1], items[i])
    BY <1>9, <1>10
  <2> QED
    BY <1>8, <2>1
<1>12. PICK h : h = CHOOSE f : f = Body(f)
  OBVIOUS
<1>13. h = Body(h)
  BY <1>11, <1>12
<1>14. h[0] = EmptyStream /\ \A k \in 1..N : h[k] = Put(h[k - 1], items[k])
  BY <1>13
<1>15. \A k \in 0..N : h[k] = g[k]
  <2> DEFINE Bad == {k \in 0..N : h[k] # g[k]}
  <2>1. SUFFICES ASSUME Bad # {} PROVE FALSE
    OBVIOUS
  <2>2. PICK k \in Bad : \A m \in Bad : k <= m
    <3>1. Bad \subseteq Nat
      OBVIOUS
    <3> HIDE DEF Bad
    <3> QED
      BY <2>1, <3>1, LeastNumber
  <2>3. k \in 0..N /\ h[k] # g[k]
    BY <2>2
  <2>4. k # 0
    BY <1>9, <1>14, <2>3
  <2>5. k \in 1..N /\ k - 1 \in 0..N /\ k - 1 < k
    BY <2>3, <2>4
  <2>6. k - 1 \notin Bad
    <3> HIDE DEF Bad
    <3> QED
      BY <2>2, <2>3, <2>5
  <2>7. h[k - 1] = g[k - 1]
    BY <2>5, <2>6
  <2> QED
    BY <1>10, <1>14, <2>3, <2>5, <2>7
<1>16. h \in [0..N -> Streams(P)]
  <2>1. DOMAIN h = 0..N /\ h = [k \in DOMAIN h |-> h[k]]
    BY <1>13
  <2>2. \A k \in 0..N : h[k] \in Streams(P)
    BY <1>1, <1>8, <1>15
  <2> QED
    BY <2>1, <2>2
<1>17. PutAll(EmptyStream, items) = h[N]
  BY <1>12 DEF PutAll
<1> QED
  BY <1>14, <1>16, <1>17 DEF Adds

\* The stream of every statement is right.
LEMMA LineRight ==
  ASSUME NEW st, IsStatement(st), st.kind = "log", NEW second
  PROVE  StreamRight(PutAll(EmptyStream, Items(st, second)))
<1>1. PICK items : items = Items(st, second)
  OBVIOUS
<1>2. PICK X : /\ \A x \in X : IsItem(x)
               /\ items \in Seq(X) /\ Len(items) >= 1
               /\ items[Len(items)] = LineEnd
  BY <1>1, LineItems
<1>3. PICK N \in Nat : N = Len(items) /\ N >= 1
  BY <1>2
<1>4. \A i \in 1..N : items[i] \in X
  BY <1>2, <1>3
<1>5. PICK P : P = {PieceOf(x) : x \in X}
  OBVIOUS
<1>6. \A i \in 1..N : IsItem(items[i]) /\ PieceOf(items[i]) \in P
  BY <1>2, <1>4, <1>5
<1>7. PICK h \in [0..N -> Streams(P)] :
        /\ \A i \in 1..N : h[i] = Put(h[i - 1], items[i])
        /\ PutAll(EmptyStream, items) = h[N]
  <2>1. PICK h : Adds(h, items, N, P)
    BY <1>3, <1>6, PutAllExists
  <2> QED
    BY <2>1 DEF Adds
<1>8. PICK s : s = h[N]
  OBVIOUS
<1>9. s \in Streams(P)
  BY <1>3, <1>7, <1>8
<1>10. /\ s.pieces \in Seq(P) /\ s.length \in Nat
       /\ s.length < Size /\ s.top <= Size
  BY <1>9 DEF Streams
<1>11. \A p \in P : Right(p)
  BY <1>2, <1>5, PieceRight
<1>12. \A i \in DOMAIN s.pieces : Right(s.pieces[i])
  BY <1>10, <1>11
<1>13. s.pieces[Len(s.pieces)].text = "\n" \/ avail(s) <= 1
  <2>1. PICK r \in Streams(P) : r = h[N - 1]
    <3>1. N - 1 \in 0..N
      BY <1>3
    <3> QED
      BY <1>7, <3>1
  <2>2. s = Put(r, LineEnd)
    BY <1>1, <1>2, <1>3, <1>7, <1>8, <2>1
  <2>3. LineEnd.kind = "string" /\ LineEnd.len = 1 /\ LineEnd.value = "\n"
    BY DEF LineEnd, String, Item
  <2>4. IsItem(LineEnd) /\ PieceOf(LineEnd) \in P
    BY <1>2, <1>3, <1>6
  <2>5. s = IF avail(r) > LineEnd.len THEN Written(r, PieceOf(LineEnd), 0) ELSE r
    BY <2>2, <2>3, <2>4, PutRight
  <2>6. PICK p : p = PieceOf(LineEnd)
    OBVIOUS
  <2>7. p.text = "\n"
    BY <2>3, <2>4, <2>6, PieceRight
  <2>8. CASE avail(r) > 1
    <3>1. s.pieces = Append(r.pieces, p)
      BY <2>3, <2>5, <2>6, <2>8 DEF Written
    <3>2. r.pieces \in Seq(P) /\ p \in P
      BY <2>1, <2>4, <2>6 DEF Streams
    <3>3. s.pieces[Len(s.pieces)] = p
      BY <3>1, <3>2
    <3> QED
      BY <2>7, <3>3
  <2>9. CASE ~(avail(r) > 1)
    <3>1. s = r /\ avail(r) \in Int
      BY <1>10, <2>3, <2>5, <2>9, StreamAssumption DEF avail
    <3> QED
      BY <2>9, <3>1
  <2> QED
    BY <2>8, <2>9
<1>14. StreamRight(s)
  BY <1>10, <1>12, <1>13 DEF StreamRight
<1> QED
  BY <1>1, <1>7, <1>8, <1>14

\* A line has a length.
LEMMA LineLength ==
  ASSUME NEW st, IsStatement(st), st.kind = "log", NEW second
  PROVE  PutAll(EmptyStream, Items(st, second)).length \in Nat
  BY LineRight DEF StreamRight

-----------------------------------------------------------------------------
(* The files, whatever happens to them.                                    *)

\* One file becomes another.
LEMMA FileChanged ==
  ASSUME NEW fs \in Seq(LogFiles), fs # <<>>, NEW n \in DOMAIN fs,
         NEW F \in LogFiles, NEW gs, gs = [fs EXCEPT ![n] = F]
  PROVE  /\ gs \in Seq(LogFiles) /\ gs # <<>> /\ Len(gs) = Len(fs)
         /\ DOMAIN gs = DOMAIN fs /\ gs[n] = F
         /\ \A f \in DOMAIN fs : f # n => gs[f] = fs[f]
<1>1. /\ n \in 1..Len(fs) /\ Len(fs) \in Nat \ {0} /\ DOMAIN fs = 1..Len(fs)
  OBVIOUS
<1>2. gs \in Seq(LogFiles) /\ Len(gs) = Len(fs)
  BY <1>1, ExceptSeq
<1>3. DOMAIN gs = DOMAIN fs /\ gs[n] = F /\ \A f \in DOMAIN fs : f # n => gs[f] = fs[f]
  OBVIOUS
<1> QED
  BY <1>1, <1>2, <1>3

\* A segment at the end of the last file.
WithSegment(fs, seg) == [fs EXCEPT ![Len(fs)].text = Append(@, seg)]

\* What appending a segment changes.
LEMMA SegmentAppended ==
  ASSUME NEW fs \in Seq(LogFiles), fs # <<>>, NEW seg \in Segments, NEW gs,
         gs = WithSegment(fs, seg)
  PROVE  /\ gs \in Seq(LogFiles) /\ gs # <<>> /\ Len(gs) = Len(fs)
         /\ Len(fs) \in DOMAIN fs /\ DOMAIN gs = DOMAIN fs
         /\ DOMAIN fs = 1..Len(fs)
         /\ \A f \in DOMAIN fs : /\ gs[f].made = fs[f].made
                                 /\ gs[f].onDisk = fs[f].onDisk
                                 /\ f # Len(fs) => gs[f] = fs[f]
         /\ gs[Len(fs)].text = Append(fs[Len(fs)].text, seg)
<1>1. /\ Len(fs) \in Nat \ {0} /\ DOMAIN fs = 1..Len(fs) /\ Len(fs) \in DOMAIN fs
      /\ \A f \in DOMAIN fs : fs[f] \in LogFiles
  OBVIOUS
<1>2. PICK n : n = Len(fs)
  OBVIOUS
<1>3. PICK T : T = Append(fs[n].text, seg)
  OBVIOUS
<1>4. T \in Seq(Segments)
  BY <1>1, <1>2, <1>3 DEF LogFiles
<1>5. PICK F : F = [fs[n] EXCEPT !.text = T]
  OBVIOUS
<1>6. gs = [fs EXCEPT ![n] = F]
  BY <1>2, <1>3, <1>5, Zenon DEF WithSegment
<1>7. F \in LogFiles /\ F.made = fs[n].made /\ F.onDisk = fs[n].onDisk /\ F.text = T
  BY <1>1, <1>2, <1>4, <1>5 DEF LogFiles
<1>8. /\ gs \in Seq(LogFiles) /\ gs # <<>> /\ Len(gs) = n /\ DOMAIN gs = DOMAIN fs
      /\ gs[n] = F /\ \A f \in DOMAIN fs : f # n => gs[f] = fs[f]
  BY <1>1, <1>2, <1>6, <1>7, FileChanged
<1> QED
  BY <1>1, <1>2, <1>3, <1>7, <1>8

\* The files after a flush.
LEMMA FilesFlushed ==
  ASSUME NEW fs \in Seq(LogFiles), fs # <<>>, NEW gs, gs = Flushed(fs)
  PROVE  /\ gs \in Seq(LogFiles) /\ gs # <<>> /\ Len(gs) = Len(fs)
         /\ Len(fs) \in DOMAIN fs /\ DOMAIN gs = DOMAIN fs
         /\ DOMAIN fs = 1..Len(fs)
         /\ \A f \in DOMAIN fs :
              /\ gs[f].made = fs[f].made /\ gs[f].text = fs[f].text
              /\ gs[f].onDisk = IF f = Len(fs) THEN Len(fs[f].text) ELSE fs[f].onDisk
<1>1. /\ Len(fs) \in Nat \ {0} /\ DOMAIN fs = 1..Len(fs) /\ Len(fs) \in DOMAIN fs
      /\ \A f \in DOMAIN fs : fs[f] \in LogFiles
  OBVIOUS
<1>2. PICK n : n = Len(fs)
  OBVIOUS
<1>3. PICK L : L = Len(fs[n].text)
  OBVIOUS
<1>4. L \in Nat
  BY <1>1, <1>2, <1>3 DEF LogFiles
<1>5. PICK F : F = [fs[n] EXCEPT !.onDisk = L]
  OBVIOUS
<1>6. gs = [fs EXCEPT ![n] = F]
  BY <1>2, <1>3, <1>5, Zenon DEF Flushed
<1>7. F \in LogFiles /\ F.made = fs[n].made /\ F.onDisk = L /\ F.text = fs[n].text
  BY <1>1, <1>2, <1>4, <1>5 DEF LogFiles
<1>8. /\ gs \in Seq(LogFiles) /\ gs # <<>> /\ Len(gs) = n /\ DOMAIN gs = DOMAIN fs
      /\ gs[n] = F /\ \A f \in DOMAIN fs : f # n => gs[f] = fs[f]
  BY <1>1, <1>2, <1>6, <1>7, FileChanged
<1> QED
  BY <1>1, <1>2, <1>3, <1>7, <1>8

\* A set of at most one element more.
LEMMA OneMore ==
  ASSUME NEW S, IsFiniteSet(S), NEW x, NEW T, T \subseteq S \cup {x}
  PROVE  /\ IsFiniteSet(T) /\ Cardinality(S) \in Nat /\ Cardinality(T) \in Nat
         /\ Cardinality(T) <= Cardinality(S) + 1
<1>1. /\ IsFiniteSet(S \cup {x}) /\ Cardinality(S) \in Nat
      /\ Cardinality(S \cup {x}) \in Nat
      /\ Cardinality(S \cup {x}) <= Cardinality(S) + 1
  BY FS_AddElement, FS_CardinalityType
<1>2. /\ IsFiniteSet(T) /\ Cardinality(T) <= Cardinality(S \cup {x})
      /\ Cardinality(T) \in Nat
  BY <1>1, FS_Subset, FS_CardinalityType
<1> QED
  BY <1>1, <1>2

\* A part of a finite set has no more elements.
LEMMA NoMore ==
  ASSUME NEW S, IsFiniteSet(S), NEW T, T \subseteq S
  PROVE  /\ IsFiniteSet(T) /\ Cardinality(S) \in Nat /\ Cardinality(T) \in Nat
         /\ Cardinality(T) <= Cardinality(S)
  BY FS_Subset, FS_CardinalityType

\* A text has finitely many first segments.
LEMMA FirstsFinite ==
  ASSUME NEW text \in Seq(Segments), NEW S, S \subseteq Firsts(text)
  PROVE  IsFiniteSet(S) /\ Cardinality(S) \in Nat
<1>1. IsFiniteSet(1..Len(text)) /\ Len(text) \in Nat
  BY FS_Interval
<1>2. S \subseteq 1..Len(text)
  BY DEF Firsts
<1> QED
  BY <1>1, <1>2, FS_Subset, FS_CardinalityType

\* What the invariant says of single variables and constants.
LEMMA LogTyped ==
  ASSUME LogInv
  PROVE  /\ NoThread \notin Threads /\ RollSize \in Nat /\ FlushInterval \in Nat
         /\ CheckEveryN \in Nat \ {0} /\ RollPerSeconds \in Nat \ {0}
         /\ StartClock \in Nat \ {0}
         /\ clock \in Nat \ {0} /\ faults \in Nat
         /\ pc \in [Threads -> Places]
         /\ msg \in [Threads -> Messages \cup {NoMessage}]
         /\ sent \in [Threads -> Nat] /\ next \in [Threads -> Nat \ {0}]
         /\ lastSecond \in [Threads -> Nat] /\ time \in [Threads -> Nat]
         /\ mutex \in Threads \cup {NoThread}
         /\ count \in 0..(CheckEveryN - 1) /\ count \in Nat /\ writtenBytes \in Nat
         /\ lastRoll \in Nat /\ lastFlush \in Nat
         /\ files \in Seq(LogFiles) /\ files # <<>>
         /\ ended \in {"no", "exit", "abort"}
  BY FileAssumption DEF LogInv, LogTypes

\* The current file.
LEMMA CurrentFile ==
  ASSUME LogInv
  PROVE  /\ Len(files) \in DOMAIN files /\ DOMAIN files = 1..Len(files)
         /\ Current = files[Len(files)] /\ Current \in LogFiles
         /\ Current.text \in Seq(Segments) /\ Len(Current.text) \in Nat
         /\ DOMAIN Current.text = 1..Len(Current.text)
         /\ \A i \in DOMAIN Current.text : Current.text[i] \in Segments
         /\ \A f \in DOMAIN files :
              /\ files[f] \in LogFiles /\ files[f].text \in Seq(Segments)
              /\ DOMAIN files[f].text = 1..Len(files[f].text)
              /\ Len(files[f].text) \in Nat
              /\ \A i \in DOMAIN files[f].text : files[f].text[i] \in Segments
<1>1. /\ Len(files) \in DOMAIN files /\ DOMAIN files = 1..Len(files)
      /\ \A f \in DOMAIN files : files[f] \in LogFiles
  BY LogTyped
<1>2. \A f \in DOMAIN files :
         /\ files[f].text \in Seq(Segments)
         /\ DOMAIN files[f].text = 1..Len(files[f].text)
         /\ Len(files[f].text) \in Nat
         /\ \A i \in DOMAIN files[f].text : files[f].text[i] \in Segments
  BY <1>1 DEF LogFiles
<1> QED
  BY <1>1, <1>2 DEF Current

\* The segments that are cut.
IsCut(f, i) ==
  /\ Segment(f, i).to < Segment(f, i).msg.len
  /\ i = Len(files[f].text) \/ Segment(f, i + 1).from = 0
  /\ \A t \in Threads : pc[t] \in {"write", "rewrite"} => msg[t] # Segment(f, i).msg

\* CutSegments, segment by segment.
LEMMA CutMember ==
  /\ \A x \in CutSegments : \E f \in DOMAIN files : \E i \in DOMAIN files[f].text :
       x = <<i, f>> /\ IsCut(f, i)
  /\ \A f \in DOMAIN files : \A i \in DOMAIN files[f].text :
       IsCut(f, i) => <<i, f>> \in CutSegments
<1>1. \A f \in DOMAIN files : \A i \in DOMAIN files[f].text :
        i \in Cut(files[f].text) <=> IsCut(f, i)
  BY DEF Cut, IsCut, Segment
<1>2. \A f \in DOMAIN files : Cut(files[f].text) \subseteq DOMAIN files[f].text
  BY DEF Cut
<1>3. ASSUME NEW x \in CutSegments
      PROVE  \E f \in DOMAIN files : \E i \in DOMAIN files[f].text :
               x = <<i, f>> /\ IsCut(f, i)
  <2>1. PICK f \in DOMAIN files : x \in Cut(files[f].text) \X {f}
    BY <1>3 DEF CutSegments
  <2>2. PICK i \in Cut(files[f].text) : x = <<i, f>>
    BY <2>1
  <2> QED
    BY <1>1, <1>2, <2>2
<1>4. ASSUME NEW f \in DOMAIN files, NEW i \in DOMAIN files[f].text, IsCut(f, i)
      PROVE  <<i, f>> \in CutSegments
  <2>1. i \in Cut(files[f].text)
    BY <1>1, <1>4
  <2>2. <<i, f>> \in Cut(files[f].text) \X {f}
    BY <2>1
  <2> QED
    BY <2>2 DEF CutSegments
<1> QED
  BY <1>3, <1>4

\* No segment is cut anew where a thread that writes goes on writing.
LEMMA CutsKept ==
  ASSUME LogInv, faults' = faults, Rewriting' => Rewriting,
         \A t \in Threads : pc[t] \in {"write", "rewrite"} =>
           pc'[t] \in {"write", "rewrite"} /\ msg'[t] = msg[t],
         \A f \in DOMAIN files' :
           \/ files'[f].text = <<>>
           \/ f \in DOMAIN files /\ files'[f].text = files[f].text
  PROVE  Cuts'
<1>0. IsFiniteSet(CutSegments) /\ faults \in Nat
  BY LogTyped DEF LogInv, Cuts
<1>1. CutSegments' \subseteq CutSegments
  <2> SUFFICES ASSUME NEW x, x \in CutSegments' PROVE x \in CutSegments
    OBVIOUS
  <2>1. PICK f \in DOMAIN files' : \E i \in DOMAIN files'[f].text :
          x = <<i, f>> /\ IsCut(f, i)'
    <3>1. CutMember'
      BY CutMember, PTL
    <3> QED
      BY <3>1
  <2>2. PICK i \in DOMAIN files'[f].text : x = <<i, f>> /\ IsCut(f, i)'
    BY <2>1
  <2>3. f \in DOMAIN files /\ files'[f].text = files[f].text
    BY <2>2
  <2>4. IsCut(f, i)
    BY <2>2, <2>3 DEF IsCut, Segment
  <2> QED
    BY <2>2, <2>3, <2>4, CutMember
<1>2. /\ IsFiniteSet(CutSegments') /\ Cardinality(CutSegments') \in Nat
      /\ Cardinality(CutSegments) \in Nat
      /\ Cardinality(CutSegments') <= Cardinality(CutSegments)
  BY <1>0, <1>1, NoMore
<1> QED
  BY <1>0, <1>2 DEF LogInv, Cuts

\* The counts, where no thread begins or ends to write and nothing is flushed.
LEMMA CountsKept ==
  ASSUME LogInv, UNCHANGED <<files, lastFlush, count>>,
         Rolling' <=> Rolling, Uncounted' <=> Uncounted
  PROVE  Counts'
<1>1. Late' = Late
  BY DEF Late, Firsts, Current
<1>2. \A f : Strays(f)' = Strays(f)
  BY DEF Strays, Firsts
<1>3. Counted' = Counted
  BY DEF Counted
<1> QED
  BY <1>1, <1>2, <1>3 DEF LogInv, Counts

\* A step outside of the LogFile.
LEMMA QuietStep ==
  ASSUME LogInv,
         UNCHANGED <<files, faults, count, startOfPeriod, lastRoll, lastFlush,
                     writtenBytes, mutex, program, sent>>,
         clock' \in {clock, clock + 1},
         \A t \in Threads : pc[t] \in Writing => pc'[t] = pc[t] /\ msg'[t] = msg[t],
         \A t \in Threads : pc[t] \notin Writing => pc'[t] \notin Writing,
         LogTypes', Numbered', Taken', Ends', Times'
  PROVE  LogInv'
<1>0. clock \in Nat /\ clock' >= clock /\ lastFlush \in Nat
  BY LogTyped
<1>1. Programs' /\ Clocks' /\ Locked'
  BY <1>0 DEF LogInv, Programs, Clocks, Current, Locked
<1>2. Partly'
  BY DEF LogInv, Partly, Current, Writing
<1>3. Rows' /\ Once'
  BY DEF LogInv, Rows, Once, Segment
<1>4. Cuts'
  <2>1. Rewriting' => Rewriting
    BY DEF Rewriting, Writing
  <2> QED
    BY <2>1, CutsKept DEF Writing
<1>5. Buffered'
  <2>1. \A i \in DOMAIN Current.text : Current.text[i].at \in Int
    BY CurrentFile DEF Segments
  <2> QED
    BY <1>0, <2>1 DEF LogInv, Buffered, Current
<1>6. Counts'
  <2>1. (Rolling' <=> Rolling) /\ (Uncounted' <=> Uncounted)
    BY DEF Rolling, Uncounted, Writing
  <2> QED
    BY <2>1, CountsKept
<1>7. Bytes'
  BY DEF LogInv, Bytes, Current, Writing
<1>8. Sizes'
  BY DEF LogInv, Sizes, Current, Writing
<1> QED
  BY <1>1, <1>2, <1>3, <1>4, <1>5, <1>6, <1>7, <1>8 DEF LogInv

\* A thread that is between two statements, or about to append, has no segment
\* of the message that comes next.
LEMMA NotYetTaken ==
  ASSUME LogInv, NEW t \in Threads, pc[t] \in {"ready", "append", "write"}
  PROVE  \A f \in DOMAIN files : \A i \in DOMAIN files[f].text :
           Segment(f, i).msg.by = t => Segment(f, i).msg.no < next[t]
  BY DEF LogInv, Taken, Partly

\* A statement that outputs nothing.
LEMMA PassRight ==
  ASSUME LogInv, NEW t \in Threads, SetLogLevel(t) \/ Skip(t)
  PROVE  LogInv'
<1>1. /\ pc[t] = "ready" /\ next' = [next EXCEPT ![t] = @ + 1]
      /\ UNCHANGED <<bounds, clock, faults, pc, msg, sent, mutex, count, startOfPeriod,
                     lastRoll, lastFlush, writtenBytes, files, program,
                     lastSecond, time, ended>>
  BY DEF SetLogLevel, Skip, HasNext, Advance, fileVars
<1>2. next \in [Threads -> Nat \ {0}]
  BY LogTyped
<1>3. next'[t] = next[t] + 1 /\ \A u \in Threads \ {t} : next'[u] = next[u]
  BY <1>1, <1>2
<1>4. LogTypes'
  BY <1>1, <1>2 DEF LogInv, LogTypes
<1>5. Numbered' /\ Times'
  BY <1>1, <1>3 DEF LogInv, Numbered, Times, TimeIsOwn
<1>6. Taken'
  <2> SUFFICES ASSUME NEW f \in DOMAIN files, NEW i \in DOMAIN files[f].text,
                      NEW m, m = Segment(f, i).msg
               PROVE  \/ m.no < next'[m.by]
                      \/ /\ m = msg[m.by] /\ m.no = next'[m.by]
                         /\ \/ sent[m.by] > 0
                            \/ pc[m.by] \in {"appended", "flush", "flushed"}
    BY <1>1 DEF Taken, Segment
  <2>1. m.by \in Threads /\ m.no \in Nat
    BY CurrentFile DEF Segments, Messages, Segment
  <2>2. CASE m.by = t
    BY <1>1, <1>2, <1>3, <2>1, <2>2, NotYetTaken
  <2>3. CASE m.by # t
    BY <1>3, <2>1, <2>3 DEF LogInv, Taken
  <2> QED
    BY <2>2, <2>3
<1>7. Ends'
  BY <1>1 DEF LogInv, Ends, FatalOnDisk, FatalSegments
<1> QED
  BY <1>1, <1>4, <1>5, <1>6, <1>7, QuietStep

\* ~Logger ends.
LEMMA DoneRight ==
  ASSUME LogInv, NEW t \in Threads, Done(t)
  PROVE  LogInv'
<1>1. /\ pc[t] = "appended" /\ pc' = [pc EXCEPT ![t] = "ready"]
      /\ next' = [next EXCEPT ![t] = @ + 1]
      /\ msg' = [msg EXCEPT ![t] = NoMessage]
      /\ UNCHANGED <<bounds, clock, faults, sent, mutex, count, startOfPeriod,
                     lastRoll, lastFlush, writtenBytes, files, program,
                     lastSecond, time, ended>>
  BY DEF Done, Goto, Advance, counters
<1>2. /\ next \in [Threads -> Nat \ {0}] /\ pc \in [Threads -> Places]
      /\ msg \in [Threads -> Messages \cup {NoMessage}]
  BY LogTyped
<1>3. /\ next'[t] = next[t] + 1 /\ pc'[t] = "ready"
      /\ \A u \in Threads \ {t} :
           next'[u] = next[u] /\ pc'[u] = pc[u] /\ msg'[u] = msg[u]
  BY <1>1, <1>2
<1>4. LogTypes'
  <2>1. /\ pc' \in [Threads -> Places] /\ next' \in [Threads -> Nat \ {0}]
        /\ msg' \in [Threads -> Messages \cup {NoMessage}]
    BY <1>1, <1>2 DEF Places
  <2> QED
    BY <1>1, <2>1 DEF LogInv, LogTypes
<1>5. Numbered' /\ Times'
  BY <1>1, <1>3 DEF LogInv, Numbered, Times, TimeIsOwn
<1>6. Taken'
  <2> SUFFICES ASSUME NEW f \in DOMAIN files, NEW i \in DOMAIN files[f].text,
                      NEW m, m = Segment(f, i).msg
               PROVE  \/ m.no < next'[m.by]
                      \/ /\ m = msg'[m.by] /\ m.no = next'[m.by]
                         /\ \/ sent[m.by] > 0
                            \/ pc'[m.by] \in {"appended", "flush", "flushed"}
    BY <1>1 DEF Taken, Segment
  <2>1. m.by \in Threads /\ m.no \in Nat
    BY CurrentFile DEF Segments, Messages, Segment
  <2>2. m.no < next[m.by] \/ m.no = next[m.by]
    BY DEF LogInv, Taken
  <2>3. CASE m.by = t
    BY <1>2, <1>3, <2>1, <2>2, <2>3
  <2>4. CASE m.by # t
    BY <1>3, <2>1, <2>4 DEF LogInv, Taken
  <2> QED
    BY <2>3, <2>4
<1>7. Ends'
  BY <1>1, <1>3 DEF LogInv, Ends, FatalOnDisk, FatalSegments
<1>8. /\ \A u \in Threads : pc[u] \in Writing => pc'[u] = pc[u] /\ msg'[u] = msg[u]
      /\ \A u \in Threads : pc[u] \notin Writing => pc'[u] \notin Writing
  BY <1>1, <1>3 DEF Writing
<1> QED
  BY <1>1, <1>4, <1>5, <1>6, <1>7, <1>8, QuietStep

\* ~Logger of a fatal statement goes on to flush.
LEMMA FatalFlushRight ==
  ASSUME LogInv, NEW t \in Threads, FatalFlush(t)
  PROVE  LogInv'
<1>1. /\ pc[t] = "appended" /\ pc' = [pc EXCEPT ![t] = "flush"]
      /\ UNCHANGED <<bounds, clock, faults, msg, sent, mutex, count, startOfPeriod,
                     lastRoll, lastFlush, writtenBytes, files, program, next,
                     lastSecond, time, ended>>
  BY DEF FatalFlush, Goto, counters, threadVars
<1>2. pc \in [Threads -> Places]
  BY LogTyped
<1>3. pc'[t] = "flush" /\ \A u \in Threads \ {t} : pc'[u] = pc[u]
  BY <1>1, <1>2
<1>4. LogTypes'
  BY <1>1, <1>2 DEF LogInv, LogTypes, Places
<1>5. Numbered' /\ Times'
  BY <1>1, <1>3 DEF LogInv, Numbered, Times, TimeIsOwn
<1>6. Taken'
  <2> SUFFICES ASSUME NEW f \in DOMAIN files, NEW i \in DOMAIN files[f].text,
                      NEW m, m = Segment(f, i).msg
               PROVE  \/ m.no < next[m.by]
                      \/ /\ m = msg[m.by] /\ m.no = next[m.by]
                         /\ \/ sent[m.by] > 0
                            \/ pc'[m.by] \in {"appended", "flush", "flushed"}
    BY <1>1 DEF Taken, Segment
  <2>1. m.by \in Threads
    BY CurrentFile DEF Segments, Messages, Segment
  <2> QED
    BY <1>3, <2>1 DEF LogInv, Taken
<1>7. Ends'
  BY <1>1, <1>3 DEF LogInv, Ends, FatalOnDisk, FatalSegments
<1>8. /\ \A u \in Threads : pc[u] \in Writing => pc'[u] = pc[u] /\ msg'[u] = msg[u]
      /\ \A u \in Threads : pc[u] \notin Writing => pc'[u] \notin Writing
  BY <1>1, <1>3 DEF Writing
<1> QED
  BY <1>1, <1>4, <1>5, <1>6, <1>7, <1>8, QuietStep

\* abort().
LEMMA AbortRight ==
  ASSUME LogInv, NEW t \in Threads, Abort(t)
  PROVE  LogInv'
<1>1. /\ pc[t] = "flushed" /\ ended' = "abort"
      /\ UNCHANGED <<bounds, clock, faults, pc, msg, sent, mutex, count, startOfPeriod,
                     lastRoll, lastFlush, writtenBytes, files, program, next,
                     lastSecond, time>>
  BY DEF Abort, fileVars
<1>2. LogTypes'
  BY <1>1 DEF LogInv, LogTypes
<1>3. Numbered' /\ Times' /\ Taken'
  BY <1>1 DEF LogInv, Numbered, Times, TimeIsOwn, Taken, Segment
<1>4. Ends'
  BY <1>1 DEF LogInv, Ends, FatalOnDisk, FatalSegments
<1> QED
  BY <1>1, <1>2, <1>3, <1>4, QuietStep

\* Time passes.
LEMMA TickRight ==
  ASSUME LogInv, Tick, UNCHANGED threadVars
  PROVE  LogInv'
<1>1. /\ clock' = clock + 1
      /\ UNCHANGED <<bounds, faults, pc, msg, sent, mutex, count, startOfPeriod,
                     lastRoll, lastFlush, writtenBytes, files, program, next,
                     lastSecond, time, ended>>
  BY DEF Tick, counters, threadVars
<1>2. LogTypes'
  BY <1>1, FileAssumption DEF LogInv, LogTypes
<1>3. Numbered' /\ Times' /\ Taken'
  BY <1>1 DEF LogInv, Numbered, Times, TimeIsOwn, Taken, Segment
<1>4. Ends'
  BY <1>1 DEF LogInv, Ends, FatalOnDisk, FatalSegments
<1> QED
  BY <1>1, <1>2, <1>3, <1>4, QuietStep

\* What a thread composes is one of its program's statements.
LEMMA ComposedStatement ==
  ASSUME LogInv, NEW t \in Threads, Compose(t)
  PROVE  IsStatement(Statement(t)) /\ Statement(t).kind = "log"
<1>1. next[t] <= Len(program[t]) /\ Statement(t).kind = "log"
  BY DEF Compose, HasNext
<1>2. next[t] \in Nat \ {0}
  BY LogTyped
<1>3. PICK S : program[t] \in Seq(S)
  BY DEF LogInv, Programs, IsSequence
<1>4. next[t] \in DOMAIN program[t]
  BY <1>1, <1>2, <1>3
<1> QED
  BY <1>1, <1>4 DEF LogInv, Programs, Statement

\* A statement's line is composed: no file knows of it yet.
LEMMA ComposeRight ==
  ASSUME LogInv, NEW t \in Threads, Compose(t)
  PROVE  LogInv'
<1>1. PICK st, text, n :
        /\ st = Statement(t) /\ text = TextOf(t, clock)
        /\ n = PutAll(EmptyStream, Items(st, text)).length
  OBVIOUS
<1>2. PICK m : m = [by |-> t, no |-> next[t], second |-> clock, text |-> text, len |-> n]
  OBVIOUS
<1>3. /\ pc[t] = "ready" /\ next[t] <= Len(program[t]) /\ st.kind = "log"
      /\ pc' = [pc EXCEPT ![t] = "append"]
      /\ msg' = [msg EXCEPT ![t] = m]
      /\ time' = [time EXCEPT ![t] = text]
      /\ lastSecond' = [lastSecond EXCEPT ![t] = clock]
      /\ UNCHANGED <<bounds, clock, faults, sent, mutex, count, startOfPeriod,
                     lastRoll, lastFlush, writtenBytes, files, program, next, ended>>
  BY <1>1, <1>2 DEF Compose, HasNext, Goto, counters
<1>4. /\ next \in [Threads -> Nat \ {0}] /\ pc \in [Threads -> Places]
      /\ msg \in [Threads -> Messages \cup {NoMessage}] /\ clock \in Nat
  BY LogTyped
<1>5. text = clock
  BY <1>1 DEF TextOf, LogInv, Times
<1>6. IsStatement(st)
  BY <1>1, ComposedStatement
<1>7. n \in Nat
  BY <1>1, <1>3, <1>6, LineLength
<1>8. m \in Messages /\ m.by = t /\ m.no = next[t] /\ m.text = m.second
  BY <1>2, <1>4, <1>5, <1>7 DEF Messages
<1>9. /\ pc'[t] = "append" /\ msg'[t] = m
      /\ \A u \in Threads \ {t} : pc'[u] = pc[u] /\ msg'[u] = msg[u]
  BY <1>3, <1>4
<1>10. LogTypes'
  <2>1. lastSecond \in [Threads -> Nat] /\ time \in [Threads -> Nat] /\ text \in Nat
    BY <1>4, <1>5, LogTyped
  <2> QED
    BY <1>3, <1>4, <1>8, <2>1 DEF LogInv, LogTypes, Places
<1>11. Numbered'
  BY <1>3, <1>8, <1>9 DEF LogInv, Numbered
<1>12. Times'
  <2>1. lastSecond \in [Threads -> Nat] /\ time \in [Threads -> Nat]
    BY LogTyped
  <2>2. \A u \in Threads : time'[u] = lastSecond'[u]
    BY <1>3, <1>5, <2>1 DEF LogInv, Times
  <2> QED
    BY <1>3, <1>8, <1>9, <2>2 DEF LogInv, Times, TimeIsOwn
<1>13. Taken'
  <2> SUFFICES ASSUME NEW f \in DOMAIN files, NEW i \in DOMAIN files[f].text,
                      NEW s, s = Segment(f, i).msg
               PROVE  \/ s.no < next[s.by]
                      \/ /\ s = msg'[s.by] /\ s.no = next[s.by]
                         /\ \/ sent[s.by] > 0
                            \/ pc'[s.by] \in {"appended", "flush", "flushed"}
    BY <1>3 DEF Taken, Segment
  <2>1. s.by \in Threads
    BY CurrentFile DEF Segments, Messages, Segment
  <2>2. CASE s.by = t
    BY <1>3, <2>2, NotYetTaken
  <2>3. CASE s.by # t
    BY <1>9, <2>1, <2>3 DEF LogInv, Taken
  <2> QED
    BY <2>2, <2>3
<1>14. Ends'
  BY <1>3, <1>9 DEF LogInv, Ends, FatalOnDisk, FatalSegments
<1>15. /\ \A u \in Threads : pc[u] \in Writing => pc'[u] = pc[u] /\ msg'[u] = msg[u]
       /\ \A u \in Threads : pc[u] \notin Writing => pc'[u] \notin Writing
  BY <1>3, <1>9 DEF Writing
<1> QED
  BY <1>3, <1>10, <1>11, <1>12, <1>13, <1>14, <1>15, QuietStep

\* The thread that holds the mutex is the only one that writes.
LEMMA OneWrites ==
  ASSUME LogInv, NEW t \in Threads, pc[t] \in Writing
  PROVE  mutex = t /\ \A u \in Threads : pc[u] \in Writing => u = t
  BY DEF LogInv, Locked

\* The mutex is taken,
LEMMA LockRight ==
  ASSUME LogInv, NEW t \in Threads, Lock(t), UNCHANGED threadVars
  PROVE  LogInv'
<1>1. /\ pc[t] = "append" /\ mutex = NoThread /\ mutex' = t
      /\ pc' = [pc EXCEPT ![t] = "write"]
      /\ UNCHANGED <<bounds, clock, faults, msg, sent, count, startOfPeriod,
                     lastRoll, lastFlush, writtenBytes, files, program, next,
                     lastSecond, time, ended>>
  BY DEF Lock, Goto, counters, threadVars
<1>2. pc \in [Threads -> Places] /\ NoThread \notin Threads /\ sent \in [Threads -> Nat]
  BY LogTyped
<1>3. pc'[t] = "write" /\ \A u \in Threads \ {t} : pc'[u] = pc[u]
  BY <1>1, <1>2
<1>4. \A u \in Threads : pc[u] \notin Writing
  BY <1>1, <1>2 DEF LogInv, Locked
<1>5. LogTypes'
  BY <1>1, <1>2 DEF LogInv, LogTypes, Places, Writing
<1>6. Programs' /\ Clocks' /\ Locked' /\ Numbered' /\ Times'
  BY <1>1, <1>3, <1>4
     DEF LogInv, Programs, Clocks, Current, Locked, Numbered, Times, TimeIsOwn, Writing
<1>7. Partly'
  <2>1. sent[t] = 0 /\ msg[t] \in Messages
    BY <1>1, <1>2 DEF LogInv, Partly, Numbered
  <2>2. msg[t].len \in Nat
    BY <2>1 DEF Messages
  <2> QED
    BY <1>1, <1>3, <2>1, <2>2 DEF LogInv, Partly, Current, Writing
<1>8. Taken'
  <2> SUFFICES ASSUME NEW f \in DOMAIN files, NEW i \in DOMAIN files[f].text,
                      NEW s, s = Segment(f, i).msg
               PROVE  \/ s.no < next[s.by]
                      \/ /\ s = msg[s.by] /\ s.no = next[s.by]
                         /\ \/ sent[s.by] > 0
                            \/ pc'[s.by] \in {"appended", "flush", "flushed"}
    BY <1>1 DEF Taken, Segment
  <2>1. s.by \in Threads
    BY CurrentFile DEF Segments, Messages, Segment
  <2> QED
    BY <1>1, <1>3, <2>1 DEF LogInv, Taken
<1>9. Rows' /\ Once'
  BY <1>1 DEF LogInv, Rows, Once, Segment
<1>10. Cuts'
  <2>1. Rewriting' => Rewriting
    BY <1>3 DEF Rewriting
  <2> QED
    BY <1>1, <1>4, <2>1, CutsKept DEF Writing
<1>11. Buffered'
  BY <1>1 DEF LogInv, Buffered, Current
<1>12. Counts'
  <2>1. (Rolling' <=> Rolling) /\ (Uncounted' <=> Uncounted)
    BY <1>1, <1>3 DEF Rolling, Uncounted
  <2> QED
    BY <1>1, <2>1, CountsKept
<1>13. Bytes' /\ Sizes'
  BY <1>1, <1>4 DEF LogInv, Bytes, Sizes, Current, Writing
<1>14. Ends'
  BY <1>1, <1>3 DEF LogInv, Ends, FatalOnDisk, FatalSegments
<1> QED
  BY <1>5, <1>6, <1>7, <1>8, <1>9, <1>10, <1>11, <1>12, <1>13, <1>14 DEF LogInv

\* and released.
LEMMA UnlockRight ==
  ASSUME LogInv, NEW t \in Threads, Unlock(t), UNCHANGED threadVars
  PROVE  LogInv'
<1>1. /\ pc[t] = "unlock" /\ mutex' = NoThread
      /\ pc' = [pc EXCEPT ![t] = "appended"] /\ sent' = [sent EXCEPT ![t] = 0]
      /\ UNCHANGED <<bounds, clock, faults, msg, count, startOfPeriod,
                     lastRoll, lastFlush, writtenBytes, files, program, next,
                     lastSecond, time, ended>>
  BY DEF Unlock, Goto, counters, threadVars
<1>2. pc \in [Threads -> Places] /\ NoThread \notin Threads /\ sent \in [Threads -> Nat]
  BY LogTyped
<1>3. /\ pc'[t] = "appended" /\ sent'[t] = 0
      /\ \A u \in Threads \ {t} : pc'[u] = pc[u] /\ sent'[u] = sent[u]
  BY <1>1, <1>2
<1>4. \A u \in Threads \ {t} : pc[u] \notin Writing
  BY <1>1, OneWrites DEF Writing
<1>5. LogTypes'
  BY <1>1, <1>2 DEF LogInv, LogTypes, Places, Writing
<1>6. Programs' /\ Clocks' /\ Locked' /\ Numbered' /\ Times'
  BY <1>1, <1>2, <1>3, <1>4
     DEF LogInv, Programs, Clocks, Current, Locked, Numbered, Times, TimeIsOwn, Writing
<1>7. Partly'
  BY <1>1, <1>3 DEF LogInv, Partly, Current, Writing
<1>8. Taken'
  <2> SUFFICES ASSUME NEW f \in DOMAIN files, NEW i \in DOMAIN files[f].text,
                      NEW s, s = Segment(f, i).msg
               PROVE  \/ s.no < next[s.by]
                      \/ /\ s = msg[s.by] /\ s.no = next[s.by]
                         /\ \/ sent'[s.by] > 0
                            \/ pc'[s.by] \in {"appended", "flush", "flushed"}
    BY <1>1 DEF Taken, Segment
  <2>1. s.by \in Threads
    BY CurrentFile DEF Segments, Messages, Segment
  <2> QED
    BY <1>1, <1>3, <2>1 DEF LogInv, Taken
<1>9. Rows' /\ Once'
  BY <1>1 DEF LogInv, Rows, Once, Segment
<1>10. Cuts'
  <2>1. Rewriting' => Rewriting
    BY <1>3 DEF Rewriting
  <2> QED
    BY <1>1, <1>3, <2>1, CutsKept DEF Writing
<1>11. Buffered'
  BY <1>1 DEF LogInv, Buffered, Current
<1>12. Counts'
  <2>1. (Rolling' <=> Rolling) /\ (Uncounted' <=> Uncounted)
    BY <1>1, <1>3 DEF Rolling, Uncounted
  <2> QED
    BY <1>1, <2>1, CountsKept
<1>13. Bytes' /\ Sizes'
  BY <1>1, <1>3, <1>4 DEF LogInv, Bytes, Sizes, Current, Writing
<1>14. Ends'
  BY <1>1, <1>3 DEF LogInv, Ends, FatalOnDisk, FatalSegments
<1> QED
  BY <1>5, <1>6, <1>7, <1>8, <1>9, <1>10, <1>11, <1>12, <1>13, <1>14 DEF LogInv

\* A flush changes no text.
LEMMA SameTexts ==
  ASSUME LogInv, files' \in {files, Flushed(files)}
  PROVE  /\ files' \in Seq(LogFiles) /\ files' # <<>>
         /\ Len(files') = Len(files) /\ DOMAIN files' = DOMAIN files
         /\ \A f \in DOMAIN files :
              /\ files'[f].made = files[f].made /\ files'[f].text = files[f].text
              /\ files'[f].onDisk \in {files[f].onDisk, Len(files[f].text)}
         /\ files' = Flushed(files) =>
              \A f \in DOMAIN files : files'[f].onDisk = Len(files[f].text)
         /\ Current'.made = Current.made /\ Current'.text = Current.text
         /\ Rows' /\ Once' /\ (TimeIsOwn' <=> TimeIsOwn)
         /\ \A t : FatalSegments(t)' = FatalSegments(t)
         /\ Excess(Current)' = Excess(Current)
         /\ \A f \in DOMAIN files : /\ Excess(files[f])' = Excess(files[f])
                                    /\ Strays(f)' = Strays(f)
<1>0. PICK hs : hs = Flushed(files)
  OBVIOUS
<1>1. /\ files' \in Seq(LogFiles) /\ files' # <<>>
      /\ Len(files') = Len(files) /\ DOMAIN files' = DOMAIN files
      /\ \A f \in DOMAIN files :
              /\ files'[f].made = files[f].made /\ files'[f].text = files[f].text
              /\ files'[f].onDisk \in {files[f].onDisk, Len(files[f].text)}
      /\ files' = Flushed(files) =>
           \A f \in DOMAIN files : files'[f].onDisk = Len(files[f].text)
  <2>1. files \in Seq(LogFiles) /\ files # <<>>
    BY LogTyped
  <2>2. /\ hs \in Seq(LogFiles) /\ hs # <<>> /\ Len(hs) = Len(files)
        /\ DOMAIN hs = DOMAIN files /\ DOMAIN files = 1..Len(files)
        /\ \A f \in DOMAIN files :
             /\ hs[f].made = files[f].made /\ hs[f].text = files[f].text
             /\ hs[f].onDisk = IF f = Len(files) THEN Len(files[f].text)
                                                 ELSE files[f].onDisk
    BY <1>0, <2>1, FilesFlushed
  <2>3. \A f \in DOMAIN files : hs[f].onDisk = Len(files[f].text)
    BY <2>2 DEF LogInv, Buffered
  <2>4. files' = files \/ files' = hs
    BY <1>0
  <2>5. CASE files' = hs
    BY <1>0, <2>2, <2>3, <2>5
  <2>6. CASE files' = files
    <3>1. files' = Flushed(files) =>
            \A f \in DOMAIN files : files'[f].onDisk = Len(files[f].text)
      BY <1>0, <2>3
    <3> QED
      BY <2>1, <2>6, <3>1
  <2> QED
    BY <2>4, <2>5, <2>6
<1>2. Len(files) \in DOMAIN files
  BY CurrentFile
<1>3. Current'.made = Current.made /\ Current'.text = Current.text
  BY <1>1, <1>2 DEF Current
<1>4. Rows' /\ Once' /\ (TimeIsOwn' <=> TimeIsOwn)
  <2>1. Rows'
    <3>1. ASSUME NEW f \in DOMAIN files, NEW T, T = files[f].text, NEW i \in DOMAIN T
          PROVE  T[i].from > 0 =>
                   i > 1 /\ T[i - 1].msg = T[i].msg /\ T[i - 1].to = T[i].from
      BY <3>1 DEF LogInv, Rows, Segment
    <3>2. ASSUME NEW f \in DOMAIN files', NEW T, T = files'[f].text, NEW i \in DOMAIN T
          PROVE  T[i].from > 0 =>
                   i > 1 /\ T[i - 1].msg = T[i].msg /\ T[i - 1].to = T[i].from
      <4>1. f \in DOMAIN files /\ T = files[f].text
        BY <1>1, <3>2
      <4> QED
        BY <3>1, <4>1
    <3> QED
      BY <3>2 DEF Rows, Segment
  <2>2. Once'
    <3>1. \A f \in DOMAIN files' :
            f \in DOMAIN files /\ files'[f].text = files[f].text
      BY <1>1
    <3>2. ASSUME NEW f \in DOMAIN files', NEW g \in DOMAIN files',
                 NEW i \in Firsts(files'[f].text), NEW j \in Firsts(files'[g].text),
                 files'[f].text[i].msg = files'[g].text[j].msg
          PROVE  f = g /\ i = j
      <4>1. /\ f \in DOMAIN files /\ files'[f].text = files[f].text
            /\ g \in DOMAIN files /\ files'[g].text = files[g].text
        BY <3>1
      <4>2. /\ i \in Firsts(files[f].text) /\ j \in Firsts(files[g].text)
            /\ files[f].text[i].msg = files[g].text[j].msg
        BY <3>2, <4>1
      <4> QED
        BY <4>1, <4>2 DEF LogInv, Once, Segment
    <3> QED
      BY <3>2 DEF Once, Segment, Firsts
  <2>3. TimeIsOwn' <=> TimeIsOwn
    BY <1>1 DEF TimeIsOwn
  <2> QED
    BY <2>1, <2>2, <2>3
<1>5. ASSUME NEW t PROVE FatalSegments(t)' = FatalSegments(t)
  <2>1. UNION {{f} \X DOMAIN files'[f].text : f \in DOMAIN files'}
          = UNION {{f} \X DOMAIN files[f].text : f \in DOMAIN files}
    BY <1>1
  <2>2. \A s \in UNION {{f} \X DOMAIN files[f].text : f \in DOMAIN files} :
          files'[s[1]].text = files[s[1]].text
    BY <1>1
  <2> QED
    BY <2>1, <2>2 DEF FatalSegments
<1>6. Excess(Current)' = Excess(Current)
  BY <1>3 DEF Excess
<1>7. \A f \in DOMAIN files : Excess(files[f])' = Excess(files[f])
  BY <1>1 DEF Excess
<1>8. \A f \in DOMAIN files : Strays(f)' = Strays(f)
  BY <1>1 DEF Strays
<1> QED
  BY <1>1, <1>3, <1>4, <1>5, <1>6, <1>7, <1>8

\* Whose messages are in the files: no thread begins or ends one.
LEMMA TakenKept ==
  ASSUME LogInv, files' \in {files, Flushed(files)}, UNCHANGED <<msg, next, sent>>,
         \A t \in Threads : pc[t] \in {"appended", "flush", "flushed"} =>
                              pc'[t] \in {"appended", "flush", "flushed"}
  PROVE  Taken'
<1> SUFFICES ASSUME NEW f \in DOMAIN files', NEW i \in DOMAIN files'[f].text,
                    NEW s, s = files'[f].text[i].msg
             PROVE  \/ s.no < next[s.by]
                    \/ /\ s = msg[s.by] /\ s.no = next[s.by]
                       /\ \/ sent[s.by] > 0
                          \/ pc'[s.by] \in {"appended", "flush", "flushed"}
  BY DEF Taken, Segment
<1>1. f \in DOMAIN files /\ i \in DOMAIN files[f].text /\ s = Segment(f, i).msg
  BY SameTexts DEF Segment
<1>2. s.by \in Threads
  BY <1>1, CurrentFile DEF Segments, Messages, Segment
<1> QED
  BY <1>1, <1>2 DEF LogInv, Taken

\* What is on the disk stays there.
LEMMA EndsKept ==
  ASSUME LogInv, files' \in {files, Flushed(files)}, ended' \in {ended, "exit"},
         ended' = "exit" => files' = Flushed(files),
         ended = "no",
         \A t \in Threads : pc'[t] = "flushed" =>
           pc[t] = "flushed" \/ files' = Flushed(files)
  PROVE  Ends'
<1>1. /\ Len(files') = Len(files) /\ DOMAIN files' = DOMAIN files
      /\ \A f \in DOMAIN files :
              /\ files'[f].text = files[f].text
              /\ files'[f].onDisk \in {files[f].onDisk, Len(files[f].text)}
      /\ files' = Flushed(files) =>
           \A f \in DOMAIN files : files'[f].onDisk = Len(files[f].text)
  BY SameTexts
<1>2. \A t : FatalSegments(t)' = FatalSegments(t)
  BY SameTexts
<1>3. \A f \in DOMAIN files : /\ DOMAIN files[f].text = 1..Len(files[f].text)
                              /\ Len(files[f].text) \in Nat
  BY CurrentFile
<1>4. ASSUME NEW t \in Threads, pc'[t] = "flushed" PROVE FatalOnDisk(t)'
  <2> SUFFICES ASSUME NEW s \in FatalSegments(t), NEW f \in 1..s[1],
                      NEW i \in DOMAIN files[f].text, f < s[1] \/ i <= s[2]
               PROVE  i <= files'[f].onDisk
    <3>1. \A s \in FatalSegments(t) : \A f \in 1..s[1] : f \in DOMAIN files
      <4> SUFFICES ASSUME NEW s \in FatalSegments(t), NEW f \in 1..s[1]
                   PROVE  f \in DOMAIN files
        OBVIOUS
      <4>1. s[1] \in DOMAIN files
        BY DEF FatalSegments
      <4> QED
        BY <4>1, CurrentFile
    <3> QED
      BY <1>1, <1>2, <3>1 DEF FatalOnDisk
  <2>1. f \in DOMAIN files
    <3>1. s[1] \in DOMAIN files
      BY DEF FatalSegments
    <3> QED
      BY <3>1, CurrentFile
  <2>2. i <= Len(files[f].text)
    BY <1>3, <2>1
  <2>3. CASE files' = Flushed(files)
    BY <1>1, <2>1, <2>2, <2>3
  <2>4. CASE pc[t] = "flushed"
    <3>1. i <= files[f].onDisk
      BY <2>4 DEF LogInv, Ends, FatalOnDisk
    <3> QED
      BY <1>1, <2>1, <2>2, <3>1
  <2> QED
    BY <1>4, <2>3, <2>4
<1>5. ended' = "exit" => \A f \in DOMAIN files' : files'[f].onDisk = Len(files'[f].text)
  BY <1>1
<1>6. ended' # "abort"
  OBVIOUS
<1> QED
  BY <1>4, <1>5, <1>6 DEF Ends

\* What is not on the disk is no older than the last flush.
LEMMA BufferedKept ==
  ASSUME LogInv, UNCHANGED <<clock, lastRoll>>,
         UNCHANGED <<files, lastFlush>> \/ files' = Flushed(files)
  PROVE  Buffered'
<1>1. CASE UNCHANGED <<files, lastFlush>>
  BY <1>1 DEF LogInv, Buffered, Current
<1>2. CASE files' = Flushed(files)
  <2>1. /\ files' \in Seq(LogFiles) /\ files' # <<>>
        /\ Len(files') = Len(files) /\ DOMAIN files' = DOMAIN files
        /\ \A f \in DOMAIN files :
             /\ files'[f].text = files[f].text
             /\ files'[f].onDisk = Len(files[f].text)
        /\ Current'.text = Current.text
    BY <1>2, SameTexts
  <2>2. \A f \in DOMAIN files :
          IF f = Len(files) THEN files'[f].onDisk \in 0..Len(files'[f].text)
                            ELSE files'[f].onDisk = Len(files'[f].text)
    <3>1. \A f \in DOMAIN files : Len(files[f].text) \in Nat
      BY CurrentFile
    <3> QED
      BY <2>1, <3>1
  <2>3. Len(files) \in DOMAIN files /\ Len(Current.text) \in Nat
        /\ DOMAIN Current.text = 1..Len(Current.text)
    BY CurrentFile
  <2>4. Current'.onDisk = Len(Current.text)
    BY <2>1, <2>3 DEF Current
  <2>5. \A i \in DOMAIN Current.text :
          /\ lastRoll <= Current'.text[i].at /\ Current'.text[i].at <= clock
          /\ ~(i > Current'.onDisk)
    BY <2>1, <2>3, <2>4 DEF LogInv, Buffered
  <2> QED
    BY <2>1, <2>2, <2>5 DEF Buffered
<1> QED
  BY <1>1, <1>2

\* flush() of a fatal statement.
LEMMA FlushRight ==
  ASSUME LogInv, NEW t \in Threads, Flush(t), UNCHANGED threadVars, ended = "no"
  PROVE  LogInv'
<1>1. /\ pc[t] = "flush" /\ mutex = NoThread /\ files' = Flushed(files)
      /\ pc' = [pc EXCEPT ![t] = "flushed"]
      /\ UNCHANGED <<bounds, clock, faults, msg, sent, mutex, count, startOfPeriod,
                     lastRoll, lastFlush, writtenBytes, program, next,
                     lastSecond, time, ended>>
  BY DEF Flush, Goto, counters, threadVars
<1>2. pc \in [Threads -> Places] /\ NoThread \notin Threads
  BY LogTyped
<1>3. pc'[t] = "flushed" /\ \A u \in Threads \ {t} : pc'[u] = pc[u]
  BY <1>1, <1>2
<1>4. \A u \in Threads : pc[u] \notin Writing /\ pc'[u] \notin Writing
  BY <1>1, <1>2, <1>3 DEF LogInv, Locked, Writing
<1>5. /\ files' \in Seq(LogFiles) /\ files' # <<>>
      /\ Len(files') = Len(files) /\ DOMAIN files' = DOMAIN files
      /\ \A f \in DOMAIN files :
           /\ files'[f].made = files[f].made /\ files'[f].text = files[f].text
           /\ files'[f].onDisk = Len(files[f].text)
      /\ Current'.made = Current.made /\ Current'.text = Current.text
      /\ Rows' /\ Once' /\ (TimeIsOwn' <=> TimeIsOwn)
      /\ Excess(Current)' = Excess(Current)
      /\ \A f \in DOMAIN files : /\ Excess(files[f])' = Excess(files[f])
                                 /\ Strays(f)' = Strays(f)
  BY <1>1, SameTexts
<1>6. LogTypes'
  BY <1>1, <1>2, <1>5 DEF LogInv, LogTypes, Places, Writing
<1>7. Programs' /\ Clocks' /\ Locked' /\ Numbered' /\ Times'
  BY <1>1, <1>3, <1>4, <1>5
     DEF LogInv, Programs, Clocks, Locked, Numbered, Times, Writing
<1>8. Partly'
  BY <1>1, <1>3, <1>4 DEF LogInv, Partly, Writing
<1>9. Taken'
  BY <1>1, <1>3, TakenKept
<1>10. Cuts'
  <2>1. Rewriting' => Rewriting
    BY <1>4 DEF Rewriting, Writing
  <2> QED
    BY <1>1, <1>4, <1>5, <2>1, CutsKept DEF Writing
<1>11. Buffered'
  BY <1>1, BufferedKept
<1>12. Counts'
  <2>1. ~Rolling /\ ~Rolling' /\ Counted' = Counted
    BY <1>1, <1>4 DEF Rolling, Uncounted, Counted, Writing
  <2>2. Late' = Late
    BY <1>1, <1>5 DEF Late, Firsts
  <2>3. Len(files) \in DOMAIN files
    BY CurrentFile
  <2> QED
    BY <1>5, <2>1, <2>2, <2>3 DEF LogInv, Counts
<1>13. Bytes'
  BY <1>1, <1>4, <1>5 DEF LogInv, Bytes, Writing
<1>14. Sizes'
  BY <1>1, <1>4, <1>5 DEF LogInv, Sizes, Writing
<1>15. Ends'
  BY <1>1, <1>3, EndsKept
<1> QED
  BY <1>5, <1>6, <1>7, <1>8, <1>9, <1>10, <1>11, <1>12, <1>13, <1>14, <1>15 DEF LogInv

\* The file is closed.
LEMMA ExitRight ==
  ASSUME LogInv, Exit
  PROVE  LogInv'
<1>1. /\ \A t \in Threads : pc[t] = "ready"
      /\ ended = "no" /\ ended' = "exit" /\ files' = Flushed(files)
      /\ UNCHANGED <<bounds, clock, faults, pc, msg, sent, mutex, count, startOfPeriod,
                     lastRoll, lastFlush, writtenBytes, program, next,
                     lastSecond, time>>
  BY DEF Exit, Close, counters
<1>2. \A u \in Threads : pc[u] \notin Writing /\ pc'[u] \notin Writing
  BY <1>1 DEF Writing
<1>3. /\ files' \in Seq(LogFiles) /\ files' # <<>>
      /\ Len(files') = Len(files) /\ DOMAIN files' = DOMAIN files
      /\ \A f \in DOMAIN files :
           /\ files'[f].made = files[f].made /\ files'[f].text = files[f].text
           /\ files'[f].onDisk = Len(files[f].text)
      /\ Current'.made = Current.made /\ Current'.text = Current.text
      /\ Rows' /\ Once' /\ (TimeIsOwn' <=> TimeIsOwn)
      /\ Excess(Current)' = Excess(Current)
      /\ \A f \in DOMAIN files : /\ Excess(files[f])' = Excess(files[f])
                                 /\ Strays(f)' = Strays(f)
  BY <1>1, SameTexts
<1>4. LogTypes'
  BY <1>1, <1>3 DEF LogInv, LogTypes
<1>5. Programs' /\ Clocks' /\ Locked' /\ Numbered' /\ Times'
  BY <1>1, <1>2, <1>3 DEF LogInv, Programs, Clocks, Locked, Numbered, Times, Writing
<1>6. Partly'
  BY <1>1, <1>2 DEF LogInv, Partly, Writing
<1>7. Taken'
  BY <1>1, TakenKept
<1>8. Cuts'
  BY <1>1, <1>3, CutsKept DEF Rewriting
<1>9. Buffered'
  BY <1>1, BufferedKept
<1>10. Counts'
  <2>1. ~Rolling /\ ~Rolling' /\ Counted' = Counted
    BY <1>1, <1>2 DEF Rolling, Uncounted, Counted, Writing
  <2>2. Late' = Late
    BY <1>1, <1>3 DEF Late, Firsts
  <2>3. Len(files) \in DOMAIN files
    BY CurrentFile
  <2> QED
    BY <1>3, <2>1, <2>2, <2>3 DEF LogInv, Counts
<1>11. Bytes'
  BY <1>1, <1>2, <1>3 DEF LogInv, Bytes, Writing
<1>12. Sizes'
  BY <1>1, <1>2, <1>3 DEF LogInv, Sizes, Writing
<1>13. Ends'
  BY <1>1, EndsKept
<1> QED
  BY <1>3, <1>4, <1>5, <1>6, <1>7, <1>8, <1>9, <1>10, <1>11, <1>12, <1>13 DEF LogInv

\* The text of a message is counted as a whole, with what it belongs to.
LEMMA CountBytesRight ==
  ASSUME LogInv, NEW t \in Threads, CountBytes(t), UNCHANGED threadVars, ended = "no"
  PROVE  LogInv'
<1>1. PICK bytes : bytes = writtenBytes + msg[t].len
  OBVIOUS
<1>2. /\ pc[t] = "count" /\ writtenBytes' = bytes
      /\ UNCHANGED <<bounds, clock, faults, msg, sent, mutex, startOfPeriod, lastRoll,
                     program, next, lastSecond, time, ended>>
  BY <1>1 DEF CountBytes, threadVars
<1>3. \/ /\ bytes > RollSize /\ pc' = [pc EXCEPT ![t] = "roll"]
         /\ UNCHANGED <<count, lastFlush, files>>
      \/ /\ ~(bytes > RollSize) /\ count + 1 < CheckEveryN
         /\ count' = count + 1 /\ pc' = [pc EXCEPT ![t] = "unlock"]
         /\ UNCHANGED <<lastFlush, files>>
      \/ /\ ~(bytes > RollSize) /\ count + 1 >= CheckEveryN /\ count' = 0
         /\ Period(clock) # startOfPeriod /\ pc' = [pc EXCEPT ![t] = "roll"]
         /\ UNCHANGED <<lastFlush, files>>
      \/ /\ ~(bytes > RollSize) /\ count + 1 >= CheckEveryN /\ count' = 0
         /\ Period(clock) = startOfPeriod /\ pc' = [pc EXCEPT ![t] = "unlock"]
         /\ Due /\ lastFlush' = clock /\ files' = Flushed(files)
      \/ /\ ~(bytes > RollSize) /\ count + 1 >= CheckEveryN /\ count' = 0
         /\ Period(clock) = startOfPeriod /\ pc' = [pc EXCEPT ![t] = "unlock"]
         /\ ~Due /\ UNCHANGED <<lastFlush, files>>
  BY <1>1, Zenon DEF CountBytes, Full, Check, Goto
<1>4. /\ files' \in {files, Flushed(files)}
      /\ UNCHANGED <<files, lastFlush>> \/ files' = Flushed(files)
      /\ lastFlush' \in {lastFlush, clock}
      /\ pc' \in {[pc EXCEPT ![t] = "roll"], [pc EXCEPT ![t] = "unlock"]}
  BY <1>3
<1>5. /\ pc \in [Threads -> Places] /\ count \in 0..(CheckEveryN - 1)
      /\ CheckEveryN \in Nat \ {0} /\ RollSize \in Nat /\ writtenBytes \in Nat
      /\ clock \in Nat /\ lastFlush \in Nat /\ lastRoll \in Nat
      /\ FlushInterval \in Nat /\ sent[t] \in Nat
  BY LogTyped
<1>6. /\ pc'[t] \in {"roll", "unlock"}
      /\ \A u \in Threads \ {t} : pc'[u] = pc[u]
  BY <1>4, <1>5
<1>7. /\ mutex = t
      /\ \A u \in Threads \ {t} : pc[u] \notin Writing /\ pc'[u] \notin Writing
  BY <1>2, <1>6, OneWrites DEF Writing
<1>8. msg[t].len \in Nat /\ bytes \in Nat /\ sent[t] <= msg[t].len
  <2>1. msg[t] \in Messages
    BY <1>2 DEF LogInv, Numbered
  <2> QED
    BY <1>1, <1>2, <1>5, <2>1 DEF Messages, LogInv, Partly, Writing
<1>9. /\ files' \in Seq(LogFiles) /\ files' # <<>>
      /\ Len(files') = Len(files) /\ DOMAIN files' = DOMAIN files
      /\ \A f \in DOMAIN files :
           /\ files'[f].made = files[f].made /\ files'[f].text = files[f].text
      /\ Current'.made = Current.made /\ Current'.text = Current.text
      /\ Rows' /\ Once' /\ (TimeIsOwn' <=> TimeIsOwn)
      /\ Excess(Current)' = Excess(Current)
      /\ \A f \in DOMAIN files : /\ Excess(files[f])' = Excess(files[f])
                                 /\ Strays(f)' = Strays(f)
  BY <1>4, SameTexts
<1>10. LogTypes'
  <2>1. count' \in 0..(CheckEveryN - 1)
    BY <1>3, <1>5
  <2>2. pc' \in [Threads -> Places]
    BY <1>4, <1>5 DEF Places, Writing
  <2> QED
    BY <1>2, <1>4, <1>5, <1>8, <1>9, <2>1, <2>2 DEF LogInv, LogTypes
<1>11. Programs' /\ Clocks' /\ Locked' /\ Numbered' /\ Times'
  <2>1. Programs' /\ Times'
    BY <1>2, <1>6, <1>9 DEF LogInv, Programs, Times
  <2>2. Clocks'
    BY <1>2, <1>4, <1>5, <1>9 DEF LogInv, Clocks
  <2>3. Locked'
    BY <1>2, <1>6, <1>7 DEF LogInv, Locked, Writing
  <2>4. Numbered'
    BY <1>2, <1>6 DEF LogInv, Numbered
  <2> QED
    BY <2>1, <2>2, <2>3, <2>4
<1>12. Partly'
  BY <1>2, <1>6, <1>7, <1>9 DEF LogInv, Partly, Writing
<1>13. Taken'
  BY <1>2, <1>4, <1>6, TakenKept
<1>14. Cuts'
  <2>1. Rewriting' => Rewriting
    BY <1>6, <1>7 DEF Rewriting, Writing
  <2> QED
    BY <1>2, <1>7, <1>9, <2>1, CutsKept DEF Writing
<1>15. Buffered'
  BY <1>2, <1>4, BufferedKept
<1>16. \A i \in DOMAIN Current.text : BytesUpTo(Current.text, i) <= bytes
  <2> SUFFICES ASSUME NEW i \in DOMAIN Current.text
               PROVE  BytesUpTo(Current.text, i) <= bytes
    OBVIOUS
  <2>1. PICK b : b = BytesUpTo(Current.text, i)
    OBVIOUS
  <2>2. b \in Int
    <3>1. Current.text \in Seq(Segments) /\ i \in 0..Len(Current.text)
      BY CurrentFile
    <3> QED
      BY <2>1, <3>1, BytesInt
  <2>3. b <= writtenBytes \/ b <= writtenBytes + sent[t]
    BY <1>7, <2>1 DEF LogInv, Bytes, Writing
  <2> QED
    BY <1>1, <1>5, <1>8, <2>1, <2>2, <2>3
<1>17. Bytes'
  BY <1>2, <1>9, <1>16 DEF Bytes
<1>18. Sizes'
  <2>1. \A f \in DOMAIN files' : f < Len(files') =>
          \A i \in Excess(files'[f]) :
            files'[f].text[i].msg = files'[f].text[Len(files'[f].text)].msg
    BY <1>9 DEF LogInv, Sizes
  <2>2. CASE bytes > RollSize
    <3>1. pc'[t] = "roll"
      BY <1>3, <1>5, <2>2
    <3>2. \A i \in Excess(Current) : sent[t] > 0 /\ Current.text[i].msg = msg[t]
      BY <1>7 DEF LogInv, Sizes, Writing
    <3> QED
      BY <1>2, <1>9, <2>1, <3>1, <3>2 DEF Sizes
  <2>3. CASE ~(bytes > RollSize)
    <3>1. Excess(Current) = {}
      <4> SUFFICES ASSUME NEW i \in DOMAIN Current.text
                   PROVE  ~(BytesUpTo(Current.text, i) > RollSize)
        BY DEF Excess
      <4>1. PICK b : b = BytesUpTo(Current.text, i)
        OBVIOUS
      <4>2. b \in Int
        <5>1. Current.text \in Seq(Segments) /\ i \in 0..Len(Current.text)
          BY CurrentFile
        <5> QED
          BY <4>1, <5>1, BytesInt
      <4>3. b <= bytes
        BY <1>16, <4>1
      <4> QED
        BY <1>5, <1>8, <2>3, <4>1, <4>2, <4>3
    <3> QED
      BY <1>9, <2>1, <3>1 DEF Sizes
  <2> QED
    BY <2>2, <2>3
<1>19. Counts'
  <2>1. \A f \in DOMAIN files' : Cardinality(Strays(f)') <= CheckEveryN
    BY <1>9 DEF LogInv, Counts
  <2>2. CASE pc'[t] = "roll"
    BY <2>1, <2>2 DEF Counts, Rolling
  <2>3. CASE pc'[t] = "unlock" /\ count' = count + 1 /\ UNCHANGED <<lastFlush, files>>
    <3>1. Late' = Late
      BY <2>3 DEF Late, Firsts, Current
    <3>2. ~Rolling /\ ~Uncounted'
      BY <1>2, <1>6, <1>7, <2>3 DEF Rolling, Uncounted, Writing
    <3>3. Counted <= count' /\ Counted' = count' /\ Counted \in Int /\ count' \in Int
      BY <1>5, <2>3, <3>2 DEF Counted
    <3>4. Len(files) \in DOMAIN files
      BY CurrentFile
    <3>5. Cardinality(Late) \in Nat /\ Cardinality(Strays(Len(files))) \in Nat
      BY <3>4, CurrentFile, FirstsFinite DEF Late, Strays
    <3>6. Cardinality(Late) <= Counted /\ Cardinality(Strays(Len(files))) <= Counted
      BY <3>2 DEF LogInv, Counts
    <3>7. Cardinality(Late') <= Counted' /\ Cardinality(Strays(Len(files))) <= Counted'
      BY <3>1, <3>3, <3>5, <3>6
    <3> QED
      BY <1>9, <2>1, <3>4, <3>7 DEF Counts
  <2>4. CASE /\ pc'[t] = "unlock" /\ count' = 0 /\ Period(clock) = startOfPeriod
             /\ \/ lastFlush' = clock
                \/ lastFlush' = lastFlush /\ ~Due
    <3>1. \A i \in DOMAIN Current.text :
            /\ Current.text[i].at \in Nat /\ lastRoll <= Current.text[i].at
            /\ Current.text[i].at <= clock
      BY CurrentFile DEF LogInv, Buffered, Segments
    <3>2. lastFlush' \in Nat /\ clock <= lastFlush' + FlushInterval
      BY <1>5, <2>4 DEF Due
    <3>3. Late' = {}
      <4>1. \A i \in DOMAIN Current.text : ~(Current.text[i].at > lastFlush' + FlushInterval)
        BY <1>5, <3>1, <3>2
      <4> QED
        BY <1>9, <4>1 DEF Late, Firsts
    <3>4. Strays(Len(files)) = {}
      <4>1. Period(lastRoll) = Period(clock) /\ Current.made = lastRoll
        BY <2>4 DEF LogInv, Clocks
      <4>2. \A i \in DOMAIN Current.text : Period(Current.text[i].at) = Period(lastRoll)
        BY <1>5, <3>1, <4>1, PeriodBetween
      <4> QED
        BY <4>1, <4>2 DEF Strays, Firsts, Current
    <3>5. Len(files) \in DOMAIN files
      BY CurrentFile
    <3>6. Strays(Len(files))' = {} /\ Counted' \in {0, 1}
      <4> QED
        BY <1>9, <2>4, <3>4, <3>5 DEF Counted
    <3>7. Cardinality({}) = 0
      BY FS_EmptySet
    <3> QED
      BY <2>1, <3>3, <3>6, <3>7 DEF Counts
  <2> QED
    BY <1>3, <1>5, <1>6, <2>2, <2>3, <2>4
<1>20. Ends'
  BY <1>2, <1>4, <1>6, EndsKept
<1> QED
  BY <1>9, <1>10, <1>11, <1>12, <1>13, <1>14, <1>15, <1>17, <1>18, <1>19, <1>20 DEF LogInv

\* rollFile() in the second of the file: nothing in it is late or goes too far.
LEMMA RollRefusedRight ==
  ASSUME LogInv, NEW t \in Threads, RollFile(t), ~(clock > lastRoll),
         UNCHANGED threadVars
  PROVE  LogInv'
<1>1. /\ pc[t] = "roll" /\ pc' = [pc EXCEPT ![t] = "unlock"]
      /\ UNCHANGED <<bounds, clock, faults, msg, sent, mutex, count, startOfPeriod,
                     lastRoll, lastFlush, writtenBytes, files, program, next,
                     lastSecond, time, ended>>
  BY DEF RollFile, Goto, threadVars
<1>2. /\ pc \in [Threads -> Places] /\ clock \in Nat /\ lastRoll \in Nat
      /\ lastFlush \in Nat /\ FlushInterval \in Nat /\ count \in Nat
      /\ CheckEveryN \in Nat \ {0}
  BY LogTyped
<1>3. pc'[t] = "unlock" /\ \A u \in Threads \ {t} : pc'[u] = pc[u]
  BY <1>1, <1>2
<1>4. mutex = t /\ \A u \in Threads \ {t} : pc[u] \notin Writing
  BY <1>1, OneWrites DEF Writing
<1>5. clock = lastRoll /\ clock = lastFlush
  BY <1>2 DEF LogInv, Clocks
<1>6. \A i \in DOMAIN Current.text : Current.text[i].at = lastRoll
  <2>1. \A i \in DOMAIN Current.text : Current.text[i].at \in Nat
    BY CurrentFile DEF Segments
  <2> QED
    BY <1>2, <1>5, <2>1 DEF LogInv, Buffered
<1>7. Current.made = lastRoll
  BY DEF LogInv, Clocks
<1>8. Late = {} /\ Strays(Len(files)) = {} /\ Excess(Current) = {}
  <2>1. Late = {}
    BY <1>2, <1>5, <1>6 DEF Late, Firsts
  <2>2. Strays(Len(files)) = {}
    BY <1>6, <1>7 DEF Strays, Firsts, Current
  <2>3. Excess(Current) = {}
    BY <1>2, <1>6, <1>7 DEF Excess
  <2> QED
    BY <2>1, <2>2, <2>3
<1>9. LogTypes'
  <2>1. pc' \in [Threads -> Places]
    BY <1>1, <1>2 DEF Places, Writing
  <2> QED
    BY <1>1, <2>1 DEF LogInv, LogTypes
<1>10. Programs' /\ Clocks' /\ Locked' /\ Numbered' /\ Times'
  BY <1>1, <1>3, <1>4
     DEF LogInv, Programs, Clocks, Current, Locked, Numbered, Times, TimeIsOwn, Writing
<1>11. Partly'
  BY <1>1, <1>3 DEF LogInv, Partly, Current, Writing
<1>12. Taken'
  BY <1>1, <1>3, TakenKept
<1>13. Rows' /\ Once'
  BY <1>1 DEF LogInv, Rows, Once, Segment
<1>14. Cuts'
  <2>1. Rewriting' => Rewriting
    BY <1>3 DEF Rewriting
  <2> QED
    BY <1>1, <1>3, <2>1, CutsKept
<1>15. Buffered'
  BY <1>1 DEF LogInv, Buffered, Current
<1>16. Counts'
  <2>1. Late' = {} /\ Strays(Len(files))' = {}
    BY <1>1, <1>8 DEF Late, Strays, Firsts, Current
  <2>2. Counted' \in Nat
    BY <1>1, <1>2 DEF Counted
  <2>3. \A f \in DOMAIN files' : Cardinality(Strays(f)') <= CheckEveryN
    BY <1>1 DEF LogInv, Counts, Strays, Firsts
  <2>4. Cardinality({}) = 0
    BY FS_EmptySet
  <2> QED
    BY <2>1, <2>2, <2>3, <2>4 DEF Counts
<1>17. Bytes'
  BY <1>1, <1>3, <1>4 DEF LogInv, Bytes, Current, Writing
<1>18. Sizes'
  BY <1>1, <1>8 DEF LogInv, Sizes, Current, Excess
<1>19. Ends'
  BY <1>1, <1>3 DEF LogInv, Ends, FatalOnDisk, FatalSegments
<1> QED
  BY <1>9, <1>10, <1>11, <1>12, <1>13, <1>14, <1>15, <1>16, <1>17, <1>18, <1>19 DEF LogInv

\* A new file takes the place of the current one, which is on the disk then.
LEMMA RollNewRight ==
  ASSUME LogInv, NEW t \in Threads, RollFile(t), clock > lastRoll,
         UNCHANGED threadVars, ended = "no"
  PROVE  LogInv'
<1>1. /\ pc[t] = "roll" /\ pc' = [pc EXCEPT ![t] = "unlock"]
      /\ lastRoll' = clock /\ lastFlush' = clock /\ startOfPeriod' = Period(clock)
      /\ files' = Append(Flushed(files), NewFile(clock)) /\ writtenBytes' = 0
      /\ UNCHANGED <<bounds, clock, faults, msg, sent, mutex, count, program, next,
                     lastSecond, time, ended>>
  BY DEF RollFile, Goto, threadVars
<1>2. /\ pc \in [Threads -> Places] /\ clock \in Nat /\ count \in Nat
      /\ CheckEveryN \in Nat \ {0} /\ files \in Seq(LogFiles) /\ files # <<>>
      /\ StartClock \in Nat
  BY LogTyped
<1>3. pc'[t] = "unlock" /\ \A u \in Threads \ {t} : pc'[u] = pc[u]
  BY <1>1, <1>2
<1>4. /\ mutex = t
      /\ \A u \in Threads \ {t} : pc[u] \notin Writing /\ pc'[u] \notin Writing
  BY <1>1, <1>3, OneWrites DEF Writing
<1>5. /\ files' \in Seq(LogFiles) /\ files' # <<>> /\ Len(files') = Len(files) + 1
      /\ DOMAIN files = 1..Len(files) /\ Len(files) \in DOMAIN files
      /\ DOMAIN files' = 1..(Len(files) + 1) /\ Len(files') \in DOMAIN files'
      /\ files'[Len(files')] = NewFile(clock)
      /\ \A f \in DOMAIN files :
           /\ f # Len(files')
           /\ files'[f].made = files[f].made /\ files'[f].text = files[f].text
           /\ files'[f].onDisk = IF f = Len(files) THEN Len(files[f].text)
                                                   ELSE files[f].onDisk
  <2>1. PICK hs : hs = Flushed(files)
    OBVIOUS
  <2>2. /\ hs \in Seq(LogFiles) /\ Len(hs) = Len(files) /\ DOMAIN hs = DOMAIN files
        /\ DOMAIN files = 1..Len(files) /\ Len(files) \in DOMAIN files
        /\ \A f \in DOMAIN files :
             /\ hs[f].made = files[f].made /\ hs[f].text = files[f].text
             /\ hs[f].onDisk = IF f = Len(files) THEN Len(files[f].text)
                                                 ELSE files[f].onDisk
    BY <1>2, <2>1, FilesFlushed
  <2>3. PICK F : F = NewFile(clock)
    OBVIOUS
  <2>4. F \in LogFiles
    BY <1>2, <2>3 DEF NewFile, LogFiles
  <2>5. PICK gs : gs = Append(hs, F)
    OBVIOUS
  <2>6. /\ gs \in Seq(LogFiles) /\ Len(gs) = Len(hs) + 1 /\ DOMAIN gs = 1..(Len(hs) + 1)
        /\ gs[Len(gs)] = F /\ \A f \in 1..Len(hs) : gs[f] = hs[f] /\ f # Len(gs)
        /\ gs # <<>> /\ Len(hs) \in Nat
    BY <2>2, <2>4, <2>5
  <2>7. files' = gs
    BY <1>1, <2>1, <2>3, <2>5
  <2>8. Len(gs) \in DOMAIN gs
    BY <2>6
  <2>9. \A f \in DOMAIN files : gs[f] = hs[f] /\ f # Len(gs)
    BY <2>2, <2>6
  <2> QED
    BY <2>2, <2>3, <2>6, <2>7, <2>8, <2>9
<1>6. /\ Current'.made = clock /\ Current'.text = <<>> /\ Current'.onDisk = 0
      /\ files'[Len(files')].text = <<>>
  BY <1>5 DEF Current, NewFile
<1>7. \A f \in DOMAIN files' :
        \/ f = Len(files') /\ files'[f].text = <<>>
        \/ f \in DOMAIN files /\ f # Len(files') /\ files'[f].text = files[f].text
  BY <1>2, <1>5, <1>6
<1>8. \A f \in DOMAIN files' : \A i \in DOMAIN files'[f].text :
        f \in DOMAIN files /\ files'[f].text = files[f].text
  BY <1>7
<1>9. \A f \in DOMAIN files : files'[f].onDisk = Len(files[f].text)
  BY <1>5 DEF LogInv, Buffered
<1>10. LogTypes'
  <2>1. pc' \in [Threads -> Places]
    BY <1>1, <1>2 DEF Places, Writing
  <2> QED
    BY <1>1, <1>2, <1>5, <2>1 DEF LogInv, LogTypes
<1>11. Programs' /\ Clocks' /\ Locked' /\ Numbered'
  BY <1>1, <1>2, <1>3, <1>4, <1>6
     DEF LogInv, Programs, Clocks, Locked, Numbered, Writing
<1>12. Times'
  <2>1. TimeIsOwn'
    BY <1>8 DEF LogInv, Times, TimeIsOwn
  <2> QED
    BY <1>1, <1>3, <2>1 DEF LogInv, Times
<1>13. Partly'
  BY <1>1, <1>3, <1>4 DEF LogInv, Partly, Writing
<1>14. Taken'
  <2> SUFFICES ASSUME NEW f \in DOMAIN files', NEW i \in DOMAIN files'[f].text,
                      NEW s, s = files'[f].text[i].msg
               PROVE  \/ s.no < next[s.by]
                      \/ /\ s = msg[s.by] /\ s.no = next[s.by]
                         /\ \/ sent[s.by] > 0
                            \/ pc'[s.by] \in {"appended", "flush", "flushed"}
    BY <1>1 DEF Taken, Segment
  <2>1. f \in DOMAIN files /\ i \in DOMAIN files[f].text /\ s = Segment(f, i).msg
    BY <1>8 DEF Segment
  <2>2. s.by \in Threads
    BY <2>1, CurrentFile DEF Segments, Messages, Segment
  <2> QED
    BY <1>1, <1>3, <2>1, <2>2 DEF LogInv, Taken
<1>15. Rows'
  <2>1. ASSUME NEW f \in DOMAIN files', NEW T, T = files'[f].text, NEW i \in DOMAIN T
        PROVE  T[i].from > 0 =>
                 i > 1 /\ T[i - 1].msg = T[i].msg /\ T[i - 1].to = T[i].from
    <3>1. f \in DOMAIN files /\ T = files[f].text
      BY <1>8, <2>1
    <3> QED
      BY <3>1 DEF LogInv, Rows, Segment
  <2> QED
    BY <2>1 DEF Rows, Segment
<1>16. Once'
  <2>1. ASSUME NEW f \in DOMAIN files', NEW g \in DOMAIN files',
               NEW i \in Firsts(files'[f].text), NEW j \in Firsts(files'[g].text),
               files'[f].text[i].msg = files'[g].text[j].msg
        PROVE  f = g /\ i = j
    <3>1. i \in DOMAIN files'[f].text /\ j \in DOMAIN files'[g].text
      BY DEF Firsts
    <3>2. /\ f \in DOMAIN files /\ files'[f].text = files[f].text
          /\ g \in DOMAIN files /\ files'[g].text = files[g].text
      BY <1>8, <3>1
    <3>3. /\ i \in Firsts(files[f].text) /\ j \in Firsts(files[g].text)
          /\ files[f].text[i].msg = files[g].text[j].msg
      BY <2>1, <3>2
    <3> QED
      BY <3>2, <3>3 DEF LogInv, Once, Segment
  <2> QED
    BY <2>1 DEF Once, Segment, Firsts
<1>17. Cuts'
  <2>1. Rewriting' => Rewriting
    BY <1>4, <1>3 DEF Rewriting, Writing
  <2>2. \A f \in DOMAIN files' :
          \/ files'[f].text = <<>>
          \/ f \in DOMAIN files /\ files'[f].text = files[f].text
    BY <1>7
  <2> QED
    BY <1>1, <1>3, <2>1, <2>2, CutsKept
<1>18. Buffered'
  <2>1. \A f \in DOMAIN files' :
          IF f = Len(files') THEN files'[f].onDisk \in 0..Len(files'[f].text)
                             ELSE files'[f].onDisk = Len(files'[f].text)
    <3>1. files'[Len(files')].onDisk = 0 /\ files'[Len(files')].text = <<>>
      BY <1>6 DEF Current
    <3> QED
      BY <1>7, <1>9, <3>1
  <2> QED
    BY <1>6, <2>1 DEF Buffered
<1>19. Counts'
  <2>1. Late' = {} /\ Strays(Len(files))' = {}
    BY <1>6 DEF Late, Strays, Firsts
  <2>2. Counted' \in Nat
    BY <1>1, <1>2 DEF Counted
  <2>3. Cardinality({}) = 0
    BY FS_EmptySet
  <2>4. \A f \in DOMAIN files' : Cardinality(Strays(f)') <= CheckEveryN
    <3> SUFFICES ASSUME NEW f \in DOMAIN files'
                 PROVE  Cardinality(Strays(f)') <= CheckEveryN
      OBVIOUS
    <3>1. CASE files'[f].text = <<>>
      <4>1. Strays(f)' = {}
        BY <3>1 DEF Strays, Firsts
      <4> QED
        BY <1>2, <2>3, <4>1
    <3>2. CASE f \in DOMAIN files /\ files'[f].text = files[f].text
      <4>1. files'[f].made = files[f].made
        BY <1>5, <3>2
      <4>2. Strays(f)' = Strays(f)
        BY <3>2, <4>1 DEF Strays, Firsts
      <4> QED
        BY <3>2, <4>2 DEF LogInv, Counts
    <3> QED
      BY <1>7, <3>1, <3>2
  <2> QED
    BY <2>1, <2>2, <2>3, <2>4 DEF Counts
<1>20. Bytes'
  BY <1>6 DEF Bytes
<1>21. Sizes'
  <2>1. Excess(Current)' = {}
    BY <1>6 DEF Excess
  <2>2. ASSUME NEW f \in DOMAIN files', f < Len(files'), NEW i \in Excess(files'[f])
        PROVE  files'[f].text[i].msg = files'[f].text[Len(files'[f].text)].msg
    <3>1. /\ f \in DOMAIN files /\ files'[f].text = files[f].text
          /\ files'[f].made = files[f].made
      BY <1>5, <1>7, <2>2
    <3>2. i \in Excess(files[f])
      BY <3>1 DEF Excess
    <3>3. CASE f < Len(files)
      BY <3>1, <3>2, <3>3 DEF LogInv, Sizes
    <3>4. CASE f = Len(files)
      <4>1. i \in Excess(Current) /\ files[f] = Current
        BY <3>2, <3>4 DEF Current
      <4>2. sent[t] > 0 /\ Current.text[i].msg = msg[t]
        BY <1>4, <4>1 DEF LogInv, Sizes, Writing
      <4>3. Current.text[Len(Current.text)].msg = msg[t]
        BY <1>1, <4>2 DEF LogInv, Partly
      <4> QED
        BY <3>1, <4>1, <4>2, <4>3
    <3> QED
      BY <1>5, <3>1, <3>3, <3>4
  <2> QED
    BY <2>1, <2>2 DEF Sizes, Excess
<1>22. Ends'
  <2>1. ASSUME NEW u \in Threads, pc'[u] = "flushed" PROVE FatalOnDisk(u)'
    <3> SUFFICES ASSUME NEW s \in FatalSegments(u)', NEW f \in 1..s[1],
                        NEW i \in DOMAIN files'[f].text
                 PROVE  i <= files'[f].onDisk
      BY DEF FatalOnDisk
    <3>1. s[1] \in DOMAIN files'
      BY DEF FatalSegments
    <3>2. f \in DOMAIN files'
      BY <1>5, <3>1
    <3>3. f \in DOMAIN files /\ files'[f].text = files[f].text
      BY <1>8, <3>2
    <3> QED
      BY <1>9, <3>3, CurrentFile
  <2> QED
    BY <1>1, <2>1 DEF Ends
<1> QED
  BY <1>10, <1>11, <1>12, <1>13, <1>14, <1>15, <1>16, <1>17, <1>18, <1>19, <1>20,
     <1>21, <1>22 DEF LogInv

\* What a write does, when fwrite takes k bytes.
Wrote(t, k) ==
  /\ pc[t] \in {"write", "rewrite"}
  /\ sent[t] + k <= msg[t].len
  /\ files' = IF k = 0 THEN files
              ELSE [files EXCEPT ![Len(files)].text =
                      Append(@, [msg |-> msg[t], from |-> sent[t],
                                 to |-> sent[t] + k, at |-> clock])]
  /\ sent' = [sent EXCEPT ![t] = sent[t] + k]
  /\ \/ /\ sent[t] + k = msg[t].len /\ faults' = faults
        /\ pc' = [pc EXCEPT ![t] = "count"]
     \/ /\ k = 0 /\ pc[t] = "rewrite" /\ faults' = faults + 1
        /\ pc' = [pc EXCEPT ![t] = "count"]
     \/ /\ (k # 0 \/ pc[t] = "write") /\ faults' = faults + 1
        /\ pc' = [pc EXCEPT ![t] = "rewrite"]
  /\ UNCHANGED <<bounds, clock, msg, mutex, count, startOfPeriod, lastRoll, lastFlush,
                 writtenBytes, program, next, lastSecond, time, ended>>

\* A write takes some number of bytes.
LEMMA WriteTakes ==
  ASSUME LogInv, NEW t \in Threads, Write(t), UNCHANGED threadVars
  PROVE  \E k \in Nat : Wrote(t, k)
<1>1. PICK left : left = msg[t].len - sent[t]
  OBVIOUS
<1>2. /\ pc[t] \in {"write", "rewrite"}
      /\ UNCHANGED <<bounds, clock, msg, mutex, count, startOfPeriod, lastRoll, lastFlush,
                     writtenBytes, program, next, lastSecond, time, ended>>
  BY DEF Write, counters, threadVars
<1>3. PICK k \in Takes(left) :
        /\ Fwrite(t, k)
        /\ faults' = IF k = left THEN faults ELSE faults + 1
        /\ Goto(t, IF k = left \/ (k = 0 /\ pc[t] = "rewrite") THEN "count" ELSE "rewrite")
  BY <1>1, Zenon DEF Write
<1>4. msg[t].len \in Nat /\ sent[t] \in Nat /\ sent[t] <= msg[t].len
  <2>1. msg[t] \in Messages /\ sent[t] <= msg[t].len
    BY <1>2 DEF LogInv, Numbered, Partly, Writing
  <2> QED
    BY <2>1, LogTyped DEF Messages
<1>5. left \in Nat
  BY <1>1, <1>4
<1>6. k \in Nat /\ k <= left
  <2>1. k = left \/ k = 0 \/ k = left \div 2
    BY <1>3 DEF Takes
  <2> QED
    BY <1>5, <2>1
<1>7. sent[t] + k <= msg[t].len /\ (k = left <=> sent[t] + k = msg[t].len)
  BY <1>1, <1>4, <1>6
<1>8. /\ files' = IF k = 0 THEN files
                  ELSE [files EXCEPT ![Len(files)].text =
                          Append(@, [msg |-> msg[t], from |-> sent[t],
                                     to |-> sent[t] + k, at |-> clock])]
      /\ sent' = [sent EXCEPT ![t] = sent[t] + k]
  BY <1>3, Zenon DEF Fwrite, From
<1>9. \/ /\ k = left /\ faults' = faults /\ pc' = [pc EXCEPT ![t] = "count"]
      \/ /\ k = 0 /\ pc[t] = "rewrite" /\ faults' = faults + 1
         /\ pc' = [pc EXCEPT ![t] = "count"]
      \/ /\ (k # 0 \/ pc[t] = "write") /\ faults' = faults + 1
         /\ pc' = [pc EXCEPT ![t] = "rewrite"]
  BY <1>2, <1>3 DEF Goto
<1>10. \/ /\ sent[t] + k = msg[t].len /\ faults' = faults
          /\ pc' = [pc EXCEPT ![t] = "count"]
       \/ /\ k = 0 /\ pc[t] = "rewrite" /\ faults' = faults + 1
          /\ pc' = [pc EXCEPT ![t] = "count"]
       \/ /\ (k # 0 \/ pc[t] = "write") /\ faults' = faults + 1
          /\ pc' = [pc EXCEPT ![t] = "rewrite"]
  BY <1>7, <1>9
<1> QED
  BY <1>2, <1>6, <1>7, <1>8, <1>10, Zenon DEF Wrote

\* Each segment goes back, without a gap, to the first one of its message.
Begins(f, b, i) ==
  /\ b <= i /\ b \in Firsts(files[f].text)
  /\ Segment(f, b).msg = Segment(f, i).msg
  /\ \A k \in (b + 1)..i : Segment(f, k).from > 0

LEMMA Beginning ==
  ASSUME LogInv, NEW f \in DOMAIN files, NEW i \in DOMAIN files[f].text
  PROVE  \E b \in 1..i : Begins(f, b, i)
<1> DEFINE Bad == {n \in DOMAIN files[f].text : ~ \E b \in 1..n : Begins(f, b, n)}
<1>1. SUFFICES ASSUME Bad # {} PROVE FALSE
  OBVIOUS
<1>2. /\ DOMAIN files[f].text = 1..Len(files[f].text) /\ Len(files[f].text) \in Nat
      /\ \A n \in DOMAIN files[f].text : Segment(f, n).from \in Nat
  BY CurrentFile DEF Segments, Segment
<1>3. PICK n \in Bad : \A m \in Bad : n <= m
  <2>1. Bad \subseteq Nat
    BY <1>2
  <2> HIDE DEF Bad
  <2> QED
    BY <1>1, <2>1, LeastNumber
<1>4. n \in 1..Len(files[f].text) /\ n \in Nat /\ Segment(f, n).from \in Nat
  BY <1>2, <1>3
<1>5. CASE Segment(f, n).from = 0
  <2>1. n \in 1..n /\ Begins(f, n, n)
    BY <1>2, <1>4, <1>5 DEF Begins, Firsts, Segment
  <2> QED
    BY <1>3, <2>1
<1>6. CASE Segment(f, n).from > 0
  <2>1. n > 1 /\ Segment(f, n - 1).msg = Segment(f, n).msg
    BY <1>2, <1>4, <1>6 DEF LogInv, Rows
  <2>2. PICK m \in Nat : m = n - 1
    BY <1>4, <2>1
  <2>3. m \in DOMAIN files[f].text /\ m \notin Bad
    <3>1. m \in DOMAIN files[f].text /\ ~(n <= m)
      BY <1>2, <1>4, <2>1, <2>2
    <3> HIDE DEF Bad
    <3> QED
      BY <1>3, <3>1
  <2>4. PICK b \in 1..m : Begins(f, b, m)
    BY <2>3
  <2>5. \A k \in (b + 1)..n : k \in (b + 1)..m \/ k = n
    BY <1>4, <2>2
  <2>6. Segment(f, m).msg = Segment(f, n).msg /\ b \in 1..n /\ b <= n
    BY <1>4, <2>1, <2>2
  <2>7. Begins(f, b, n)
    BY <1>6, <2>4, <2>5, <2>6 DEF Begins
  <2> QED
    BY <1>3, <2>6, <2>7
<1> QED
  BY <1>4, <1>5, <1>6

\* What fwrite has taken of a message has no gap up to the end of the file.
LEMMA Continued ==
  ASSUME LogInv, NEW t \in Threads, pc[t] \in {"write", "rewrite"},
         NEW f \in DOMAIN files, NEW i \in DOMAIN files[f].text,
         Segment(f, i).msg = msg[t]
  PROVE  /\ f = Len(files) /\ sent[t] > 0
         /\ i = Len(files[f].text) \/ Segment(f, i + 1).from > 0
<1>1. msg[t] \in Messages /\ msg[t].by = t /\ msg[t].no = next[t] /\ next[t] \in Nat
  BY LogTyped DEF LogInv, Numbered
<1>2. sent[t] > 0 /\ pc[t] = "rewrite"
  BY <1>1 DEF LogInv, Taken, Partly
<1>3. PICK c, n : c = Len(files) /\ n = Len(files[c].text)
  OBVIOUS
<1>4. /\ c \in DOMAIN files /\ n \in DOMAIN files[c].text /\ n \in Nat
      /\ Segment(c, n).msg = msg[t]
  BY <1>2, <1>3, CurrentFile DEF LogInv, Partly, Segment
<1>5. PICK b \in 1..i : Begins(f, b, i)
  BY Beginning
<1>6. PICK a \in 1..n : Begins(c, a, n)
  BY <1>4, Beginning
<1>7. f = c /\ b = a
  BY <1>4, <1>5, <1>6 DEF Begins, LogInv, Once
<1>8. CASE i < n
  <2>1. i + 1 \in (a + 1)..n
    BY <1>4, <1>5, <1>6, <1>7, <1>8, CurrentFile
  <2>2. Segment(c, i + 1).from > 0
    BY <1>6, <2>1 DEF Begins
  <2> QED
    BY <1>2, <1>3, <1>7, <2>2
<1> QED
  BY <1>2, <1>3, <1>4, <1>7, <1>8, CurrentFile

\* A write that takes nothing.
LEMMA WroteNothingRight ==
  ASSUME LogInv, NEW t \in Threads, Wrote(t, 0)
  PROVE  LogInv'
<1>1. /\ pc[t] \in {"write", "rewrite"} /\ files' = files
      /\ sent' = [sent EXCEPT ![t] = sent[t] + 0]
      /\ UNCHANGED <<bounds, clock, msg, mutex, count, startOfPeriod, lastRoll, lastFlush,
                     writtenBytes, program, next, lastSecond, time, ended>>
  BY DEF Wrote
<1>2. /\ pc \in [Threads -> Places] /\ sent \in [Threads -> Nat] /\ faults \in Nat
  BY LogTyped
<1>3. sent' = sent
  BY <1>1, <1>2
<1>4. \/ /\ sent[t] = msg[t].len /\ faults' = faults
         /\ pc' = [pc EXCEPT ![t] = "count"]
      \/ /\ pc[t] = "rewrite" /\ faults' = faults + 1
         /\ pc' = [pc EXCEPT ![t] = "count"]
      \/ /\ pc[t] = "write" /\ faults' = faults + 1
         /\ pc' = [pc EXCEPT ![t] = "rewrite"]
  BY <1>2 DEF Wrote
<1>5. pc'[t] \in {"count", "rewrite"} /\ \A u \in Threads \ {t} : pc'[u] = pc[u]
  BY <1>2, <1>4
<1>6. /\ mutex = t
      /\ \A u \in Threads \ {t} : pc[u] \notin Writing /\ pc'[u] \notin Writing
  BY <1>1, <1>5, OneWrites DEF Writing
<1>7. LogTypes'
  <2>1. pc' \in [Threads -> Places] /\ faults' \in Nat
    BY <1>2, <1>4 DEF Places, Writing
  <2> QED
    BY <1>1, <1>3, <2>1 DEF LogInv, LogTypes
<1>8. Programs' /\ Clocks' /\ Locked' /\ Numbered' /\ Times'
  BY <1>1, <1>5, <1>6
     DEF LogInv, Programs, Clocks, Current, Locked, Numbered, Times, TimeIsOwn, Writing
<1>9. Partly'
  BY <1>1, <1>3, <1>5, <1>6 DEF LogInv, Partly, Current, Writing
<1>10. Taken'
  BY <1>1, <1>3, <1>5, TakenKept
<1>11. Rows' /\ Once'
  BY <1>1 DEF LogInv, Rows, Once, Segment
<1>12. Cuts'
  <2>1. /\ IsFiniteSet(CutSegments) /\ Cardinality(CutSegments) \in Nat
        /\ 2 * Cardinality(CutSegments) + (IF Rewriting THEN 1 ELSE 0) <= faults
    BY FS_CardinalityType DEF LogInv, Cuts
  <2>2. PICK last : last = <<Len(files[Len(files)].text), Len(files)>>
    OBVIOUS
  <2>3. ASSUME NEW x \in CutSegments', x \notin CutSegments
        PROVE  /\ x = last /\ pc[t] = "rewrite" /\ faults' = faults + 1
               /\ pc'[t] = "count"
    <3>1. PICK f \in DOMAIN files : \E i \in DOMAIN files[f].text :
            x = <<i, f>> /\ IsCut(f, i)'
      <4>1. CutMember'
        BY CutMember, PTL
      <4> QED
        BY <1>1, <4>1
    <3>2. PICK i \in DOMAIN files[f].text : x = <<i, f>> /\ IsCut(f, i)'
      BY <3>1
    <3>3. /\ Segment(f, i).to < Segment(f, i).msg.len
          /\ i = Len(files[f].text) \/ Segment(f, i + 1).from = 0
      BY <1>1, <3>2 DEF IsCut, Segment
    <3>4. ~ IsCut(f, i)
      BY <2>3, <3>2, CutMember
    <3>5. Segment(f, i).msg = msg[t]
      BY <1>1, <1>6, <3>3, <3>4 DEF IsCut, Writing
    <3>6. /\ f = Len(files) /\ sent[t] > 0
          /\ i = Len(files[f].text) \/ Segment(f, i + 1).from > 0
      BY <1>1, <3>5, Continued
    <3>7. i = Len(files[f].text)
      BY <3>3, <3>6
    <3>8. pc[t] = "rewrite"
      BY <1>1, <3>6 DEF LogInv, Partly
    <3>9. pc'[t] = "count"
      BY <1>1, <1>5, <3>2, <3>5 DEF IsCut, Segment
    <3>10. Segment(f, i).to = sent[t]
      BY <3>6, <3>7, <3>8 DEF LogInv, Partly, Current, Segment
    <3>11. sent[t] # msg[t].len
      <4>1. msg[t].len \in Nat
        BY <1>1 DEF LogInv, Numbered, Messages
      <4> QED
        BY <1>2, <3>3, <3>5, <3>10, <4>1
    <3> QED
      BY <1>4, <2>2, <3>2, <3>6, <3>7, <3>8, <3>9, <3>11
  <2>4. Rewriting <=> pc[t] = "rewrite"
    BY <1>6 DEF Rewriting, Writing
  <2>5. Rewriting' <=> pc'[t] = "rewrite"
    BY <1>6 DEF Rewriting, Writing
  <2>6. CASE CutSegments' \subseteq CutSegments
    <3>1. /\ IsFiniteSet(CutSegments') /\ Cardinality(CutSegments') \in Nat
          /\ Cardinality(CutSegments') <= Cardinality(CutSegments)
      BY <2>1, <2>6, NoMore
    <3>2. \/ ~Rewriting' /\ faults <= faults'
          \/ Rewriting' /\ ~Rewriting /\ faults' = faults + 1
      BY <1>2, <1>4, <2>4, <2>5
    <3>3. PICK a, b \in Nat : a = Cardinality(CutSegments') /\ b = Cardinality(CutSegments)
      BY <2>1, <3>1
    <3>4. a <= b /\ faults' \in Nat /\ 2 * b + (IF Rewriting THEN 1 ELSE 0) <= faults
      BY <1>2, <1>4, <2>1, <3>1, <3>3
    <3>5. 2 * a + (IF Rewriting' THEN 1 ELSE 0) <= faults'
      BY <1>2, <3>2, <3>3, <3>4
    <3> QED
      BY <3>1, <3>3, <3>5 DEF Cuts
  <2>7. CASE ~(CutSegments' \subseteq CutSegments)
    <3>1. PICK y \in CutSegments' : y \notin CutSegments
      BY <2>7
    <3>2. pc[t] = "rewrite" /\ faults' = faults + 1 /\ pc'[t] = "count"
      BY <2>3, <3>1
    <3>3. CutSegments' \subseteq CutSegments \cup {last}
      BY <2>3
    <3>4. /\ IsFiniteSet(CutSegments') /\ Cardinality(CutSegments') \in Nat
          /\ Cardinality(CutSegments') <= Cardinality(CutSegments) + 1
      BY <2>1, <3>3, OneMore
    <3> QED
      BY <1>2, <2>1, <2>4, <2>5, <3>2, <3>4 DEF Cuts
  <2> QED
    BY <2>6, <2>7
<1>13. Buffered'
  BY <1>1, BufferedKept
<1>14. Counts'
  <2>1. Rolling' <=> Rolling
    BY <1>1, <1>5 DEF Rolling
  <2>2. Uncounted' <=> Uncounted
    <3>1. pc[t] = "write" => ~(sent[t] > 0)
      BY DEF LogInv, Partly
    <3> QED
      BY <1>1, <1>3, <1>5, <3>1 DEF Uncounted
  <2> QED
    BY <1>1, <2>1, <2>2, CountsKept
<1>15. Bytes'
  <2> SUFFICES ASSUME NEW i \in DOMAIN Current.text
               PROVE  \/ BytesUpTo(Current.text, i) <= writtenBytes
                      \/ \E u \in Threads :
                           /\ pc'[u] \in {"rewrite", "count"}
                           /\ BytesUpTo(Current.text, i) <= writtenBytes + sent[u]
    BY <1>1, <1>3 DEF Bytes, Current
  <2>1. CASE \E u \in Threads :
               /\ pc[u] \in {"rewrite", "count"}
               /\ BytesUpTo(Current.text, i) <= writtenBytes + sent[u]
    <3>1. BytesUpTo(Current.text, i) <= writtenBytes + sent[t]
      BY <1>6, <2>1 DEF Writing
    <3> QED
      BY <1>5, <3>1
  <2> QED
    BY <2>1 DEF LogInv, Bytes
<1>16. Sizes'
  <2>1. \A i \in Excess(Current) : sent[t] > 0 /\ Current.text[i].msg = msg[t]
    BY <1>6 DEF LogInv, Sizes, Writing
  <2>2. Excess(Current)' = Excess(Current) /\ Current' = Current
    BY <1>1 DEF Excess, Current
  <2>3. \A f : Excess(files[f])' = Excess(files[f])
    BY <1>1 DEF Excess
  <2> QED
    BY <1>1, <1>3, <1>5, <2>1, <2>2, <2>3 DEF LogInv, Sizes
<1>17. Ends'
  BY <1>1, <1>5 DEF LogInv, Ends, FatalOnDisk, FatalSegments
<1> QED
  BY <1>7, <1>8, <1>9, <1>10, <1>11, <1>12, <1>13, <1>14, <1>15, <1>16, <1>17 DEF LogInv

\* No segments have no bytes.
LEMMA NoBytes ==
  ASSUME NEW text \in Seq(Segments)
  PROVE  BytesUpTo(text, 0) = 0
<1>1. 0 \in 0..Len(text)
  OBVIOUS
<1>2. PICK h : SumOf(h, text, 0) /\ h[0] = BytesUpTo(text, 0)
  BY <1>1, SumExists
<1> QED
  BY <1>2 DEF SumOf

\* A write of some bytes: a segment more in the current file.
LEMMA WroteSomeRight ==
  ASSUME LogInv, NEW t \in Threads, NEW k \in Nat, k # 0, Wrote(t, k), ended = "no"
  PROVE  LogInv'
<1>1. PICK seg : seg = [msg |-> msg[t], from |-> sent[t], to |-> sent[t] + k,
                        at |-> clock]
  OBVIOUS
<1>0. files' = WithSegment(files, seg)
  BY <1>1 DEF Wrote, WithSegment
<1>2. /\ pc[t] \in {"write", "rewrite"} /\ sent[t] + k <= msg[t].len
      /\ sent' = [sent EXCEPT ![t] = sent[t] + k]
      /\ UNCHANGED <<bounds, clock, msg, mutex, count, startOfPeriod, lastRoll, lastFlush,
                     writtenBytes, program, next, lastSecond, time, ended>>
  BY <1>1 DEF Wrote
<1>3. /\ pc \in [Threads -> Places] /\ sent \in [Threads -> Nat] /\ faults \in Nat
      /\ clock \in Nat /\ lastFlush \in Nat /\ lastRoll \in Nat
      /\ writtenBytes \in Nat /\ count \in 0..(CheckEveryN - 1)
      /\ CheckEveryN \in Nat \ {0} /\ next[t] \in Nat
      /\ files \in Seq(LogFiles) /\ files # <<>>
  BY LogTyped
<1>4. \/ /\ sent[t] + k = msg[t].len /\ faults' = faults
         /\ pc' = [pc EXCEPT ![t] = "count"]
      \/ /\ faults' = faults + 1
         /\ pc' = [pc EXCEPT ![t] = "rewrite"]
  BY DEF Wrote
<1>5. /\ pc'[t] \in {"count", "rewrite"} /\ sent'[t] = sent[t] + k /\ sent[t] \in Nat
      /\ \A u \in Threads \ {t} : pc'[u] = pc[u] /\ sent'[u] = sent[u]
  BY <1>2, <1>3, <1>4
<1>6. /\ mutex = t
      /\ \A u \in Threads \ {t} : pc[u] \notin Writing /\ pc'[u] \notin Writing
  BY <1>2, <1>5, OneWrites DEF Writing
<1>7. /\ msg[t] \in Messages /\ msg[t].by = t /\ msg[t].no = next[t]
      /\ msg[t].len \in Nat /\ msg[t].text = msg[t].second
  BY <1>2 DEF LogInv, Numbered, Times, Messages
<1>8. /\ seg \in Segments /\ seg.msg = msg[t] /\ seg.from = sent[t]
      /\ seg.to = sent[t] + k /\ seg.at = clock
  BY <1>1, <1>3, <1>5, <1>7 DEF Segments
<1>9. PICK c, text, n : c = Len(files) /\ text = files[c].text /\ n = Len(text)
  OBVIOUS
<1>10. /\ c \in DOMAIN files /\ DOMAIN files = 1..c /\ c \in Nat
       /\ text = Current.text /\ text \in Seq(Segments)
       /\ n \in Nat /\ DOMAIN text = 1..n
       /\ \A i \in DOMAIN text : text[i] \in Segments
       /\ \A f \in DOMAIN files : /\ DOMAIN files[f].text = 1..Len(files[f].text)
                                  /\ Len(files[f].text) \in Nat
                                  /\ files[f].text \in Seq(Segments)
  BY <1>9, CurrentFile
<1>11. PICK more : more = Append(text, seg)
  OBVIOUS
<1>12. /\ more \in Seq(Segments) /\ Len(more) = n + 1 /\ DOMAIN more = 1..(n + 1)
       /\ more[n + 1] = seg /\ \A i \in 1..n : more[i] = text[i]
  BY <1>8, <1>9, <1>10, <1>11
<1>13. /\ files' \in Seq(LogFiles) /\ files' # <<>> /\ Len(files') = c
       /\ DOMAIN files' = DOMAIN files
       /\ \A f \in DOMAIN files : /\ files'[f].made = files[f].made
                                  /\ files'[f].onDisk = files[f].onDisk
                                  /\ f # c => files'[f] = files[f]
       /\ files'[c].text = more
  <2>1. PICK gs : gs = WithSegment(files, seg)
    OBVIOUS
  <2>2. files \in Seq(LogFiles) /\ files # <<>> /\ seg \in Segments
    BY <1>3, <1>8
  <2>3. /\ gs \in Seq(LogFiles) /\ gs # <<>> /\ Len(gs) = Len(files)
        /\ Len(files) \in DOMAIN files /\ DOMAIN gs = DOMAIN files
        /\ DOMAIN files = 1..Len(files)
        /\ \A f \in DOMAIN files : /\ gs[f].made = files[f].made
                                   /\ gs[f].onDisk = files[f].onDisk
                                   /\ f # Len(files) => gs[f] = files[f]
        /\ gs[Len(files)].text = Append(files[Len(files)].text, seg)
    BY <2>1, <2>2, SegmentAppended
  <2>4. files' = gs
    BY <1>0, <2>1
  <2> QED
    BY <1>9, <1>11, <2>3, <2>4
<1>14. /\ Current' = files'[c] /\ Current'.text = more /\ Current'.made = Current.made
       /\ Current'.onDisk = Current.onDisk
  BY <1>9, <1>10, <1>13 DEF Current
\* A segment is an old one, or the last.
<1>15. \A f \in DOMAIN files' : \A i \in DOMAIN files'[f].text :
         \/ /\ f \in DOMAIN files /\ i \in DOMAIN files[f].text
            /\ files'[f].text[i] = Segment(f, i)
         \/ f = c /\ i = n + 1 /\ files'[f].text[i] = seg
  <2> SUFFICES ASSUME NEW f \in DOMAIN files', NEW T, T = files'[f].text,
                      NEW i \in DOMAIN T
               PROVE  \/ /\ f \in DOMAIN files /\ i \in DOMAIN files[f].text
                         /\ T[i] = Segment(f, i)
                      \/ f = c /\ i = n + 1 /\ T[i] = seg
    OBVIOUS
  <2>1. CASE f # c
    BY <1>13, <2>1 DEF Segment
  <2>2. CASE f = c
    <3>1. T = more /\ files[f].text = text /\ f \in DOMAIN files
      BY <1>9, <1>10, <1>13, <2>2
    <3> QED
      BY <1>10, <1>12, <2>2, <3>1 DEF Segment
  <2> QED
    BY <2>1, <2>2
\* No segment before it begins the same message.
<1>16. \A f \in DOMAIN files : \A i \in DOMAIN files[f].text :
         Segment(f, i).msg = msg[t] => sent[t] > 0
  BY <1>2, Continued
<1>17. sent[t] > 0 => n # 0 /\ text[n].msg = msg[t] /\ text[n].to = sent[t]
                       /\ pc[t] = "rewrite"
  BY <1>2, <1>9, <1>10 DEF LogInv, Partly
<1>18. LogTypes'
  <2>1. pc' \in [Threads -> Places] /\ faults' \in Nat
    <3>1. "count" \in Places /\ "rewrite" \in Places
      BY DEF Places, Writing
    <3>2. PICK p : p \in Places /\ pc' = [pc EXCEPT ![t] = p]
      BY <1>4, <3>1
    <3>3. pc \in [Threads -> Places]
      BY <1>3
    <3>4. pc' \in [Threads -> Places]
      BY <3>2, <3>3
    <3>5. faults' = faults \/ faults' = faults + 1
      BY <1>4
    <3>6. faults \in Nat
      BY <1>3
    <3>7. faults' \in Nat
      BY <3>5, <3>6
    <3> QED
      BY <3>4, <3>7
  <2>2. sent' \in [Threads -> Nat]
    BY <1>2, <1>3, <1>5
  <2> QED
    BY <1>2, <1>13, <2>1, <2>2 DEF LogInv, LogTypes
<1>19. Programs' /\ Clocks' /\ Locked' /\ Numbered'
  <2>1. Programs' /\ Clocks'
    BY <1>2, <1>14 DEF LogInv, Programs, Clocks
  <2>2. Locked' /\ Numbered'
    BY <1>2, <1>5, <1>6, <1>7 DEF LogInv, Locked, Numbered, Writing
  <2> QED
    BY <2>1, <2>2
<1>20. Times'
  <2>1. TimeIsOwn'
    <3> SUFFICES ASSUME NEW f \in DOMAIN files', NEW i \in DOMAIN files'[f].text
                 PROVE  files'[f].text[i].msg.text = files'[f].text[i].msg.second
      BY DEF TimeIsOwn
    <3>1. CASE /\ f \in DOMAIN files /\ i \in DOMAIN files[f].text
               /\ files'[f].text[i] = Segment(f, i)
      BY <3>1 DEF LogInv, Times, TimeIsOwn, Segment
    <3>2. CASE files'[f].text[i] = seg
      BY <1>7, <1>8, <3>2
    <3> QED
      BY <1>15, <3>1, <3>2
  <2> QED
    BY <1>2, <1>5, <1>7, <2>1 DEF LogInv, Times
<1>21. Partly'
  <2> SUFFICES ASSUME NEW u \in Threads
               PROVE  /\ sent'[u] > 0 => pc'[u] \in {"rewrite", "count", "roll", "unlock"}
                      /\ pc'[u] \in Writing => sent'[u] <= msg[u].len
                      /\ sent'[u] > 0 /\ pc'[u] \in {"rewrite", "count", "roll"} =>
                           /\ more # <<>>
                           /\ more[Len(more)].msg = msg[u]
                           /\ more[Len(more)].to = sent'[u]
    BY <1>2, <1>14 DEF Partly
  <2>1. CASE u = t
    BY <1>2, <1>5, <1>8, <1>10, <1>12, <2>1
  <2>2. CASE u # t
    BY <1>5, <1>6, <2>2 DEF LogInv, Partly, Writing
  <2> QED
    BY <2>1, <2>2
<1>22. Taken'
  <2> SUFFICES ASSUME NEW f \in DOMAIN files', NEW i \in DOMAIN files'[f].text,
                      NEW s, s = files'[f].text[i].msg
               PROVE  \/ s.no < next[s.by]
                      \/ /\ s = msg[s.by] /\ s.no = next[s.by]
                         /\ \/ sent'[s.by] > 0
                            \/ pc'[s.by] \in {"appended", "flush", "flushed"}
    BY <1>2 DEF Taken, Segment
  <2>1. CASE /\ f \in DOMAIN files /\ i \in DOMAIN files[f].text
             /\ files'[f].text[i] = Segment(f, i)
    <3>1. s.by \in Threads /\ s = Segment(f, i).msg
      BY <2>1, CurrentFile DEF Segments, Messages, Segment
    <3>2. s.by = t => sent'[s.by] > 0
      BY <1>5
    <3>3. s.by # t => pc'[s.by] = pc[s.by] /\ sent'[s.by] = sent[s.by]
      BY <1>5, <3>1
    <3>4. \/ s.no < next[s.by]
          \/ /\ s = msg[s.by] /\ s.no = next[s.by]
             /\ \/ sent[s.by] > 0
                \/ pc[s.by] \in {"appended", "flush", "flushed"}
      BY <2>1, <3>1 DEF LogInv, Taken
    <3> QED
      BY <3>2, <3>3, <3>4
  <2>2. CASE files'[f].text[i] = seg
    BY <1>5, <1>7, <1>8, <2>2
  <2> QED
    BY <1>15, <2>1, <2>2
<1>23. Rows'
  <2>1. ASSUME NEW f \in DOMAIN files', NEW T, T = files'[f].text, NEW i \in DOMAIN T
        PROVE  T[i].from > 0 =>
                 i > 1 /\ T[i - 1].msg = T[i].msg /\ T[i - 1].to = T[i].from
    <3>1. CASE f # c
      <4>1. f \in DOMAIN files /\ T = files[f].text
        BY <1>13, <2>1, <3>1
      <4> QED
        BY <4>1 DEF LogInv, Rows, Segment
    <3>2. CASE f = c /\ i \in 1..n
      <4>1. T = more /\ T[i] = text[i] /\ (i > 1 => T[i - 1] = text[i - 1])
        BY <1>10, <1>12, <1>13, <2>1, <3>2
      <4>2. text[i].from > 0 =>
              i > 1 /\ text[i - 1].msg = text[i].msg /\ text[i - 1].to = text[i].from
        BY <1>9, <1>10, <3>2 DEF LogInv, Rows, Segment
      <4> QED
        BY <4>1, <4>2
    <3>3. CASE f = c /\ i = n + 1
      <4>1. T = more /\ T[i] = seg
        BY <1>12, <1>13, <2>1, <3>3
      <4>2. CASE sent[t] > 0
        <5>1. i > 1 /\ T[i - 1] = text[n]
          BY <1>10, <1>12, <1>17, <3>3, <4>1, <4>2
        <5> QED
          BY <1>8, <1>17, <4>1, <4>2, <5>1
      <4>3. CASE ~(sent[t] > 0)
        BY <1>8, <4>1, <4>3
      <4> QED
        BY <4>2, <4>3
    <3> QED
      BY <1>10, <1>12, <1>13, <2>1, <3>1, <3>2, <3>3
  <2> QED
    BY <2>1 DEF Rows, Segment
<1>24. Once'
  <2>1. ASSUME NEW f \in DOMAIN files', NEW g \in DOMAIN files',
               NEW i \in Firsts(files'[f].text), NEW j \in Firsts(files'[g].text),
               files'[f].text[i].msg = files'[g].text[j].msg
        PROVE  f = g /\ i = j
    <3>1. /\ i \in DOMAIN files'[f].text /\ j \in DOMAIN files'[g].text
          /\ files'[f].text[i].from = 0 /\ files'[g].text[j].from = 0
      BY DEF Firsts
    <3>2. \/ /\ f \in DOMAIN files /\ i \in DOMAIN files[f].text
             /\ files'[f].text[i] = Segment(f, i)
          \/ f = c /\ i = n + 1 /\ files'[f].text[i] = seg
      BY <1>15, <3>1
    <3>3. \/ /\ g \in DOMAIN files /\ j \in DOMAIN files[g].text
             /\ files'[g].text[j] = Segment(g, j)
          \/ g = c /\ j = n + 1 /\ files'[g].text[j] = seg
      BY <1>15, <3>1
    <3>4. CASE /\ f \in DOMAIN files /\ i \in DOMAIN files[f].text
               /\ files'[f].text[i] = Segment(f, i)
               /\ g \in DOMAIN files /\ j \in DOMAIN files[g].text
               /\ files'[g].text[j] = Segment(g, j)
      <4>1. /\ i \in Firsts(files[f].text) /\ j \in Firsts(files[g].text)
            /\ Segment(f, i).msg = Segment(g, j).msg
        BY <2>1, <3>1, <3>4 DEF Firsts, Segment
      <4> QED
        BY <3>4, <4>1 DEF LogInv, Once
    <3>5. CASE files'[f].text[i] = seg /\ files'[g].text[j] = Segment(g, j)
               /\ g \in DOMAIN files /\ j \in DOMAIN files[g].text
      <4>1. Segment(g, j).msg = msg[t] /\ sent[t] = 0
        BY <1>8, <2>1, <3>1, <3>5
      <4> QED
        BY <1>16, <3>5, <4>1
    <3>6. CASE files'[g].text[j] = seg /\ files'[f].text[i] = Segment(f, i)
               /\ f \in DOMAIN files /\ i \in DOMAIN files[f].text
      <4>1. Segment(f, i).msg = msg[t] /\ sent[t] = 0
        BY <1>8, <2>1, <3>1, <3>6
      <4> QED
        BY <1>16, <3>6, <4>1
    <3> QED
      BY <3>2, <3>3, <3>4, <3>5, <3>6
  <2> QED
    BY <2>1 DEF Once, Segment, Firsts
<1>25. Cuts'
  <2>1. /\ IsFiniteSet(CutSegments) /\ Cardinality(CutSegments) \in Nat
        /\ 2 * Cardinality(CutSegments) + (IF Rewriting THEN 1 ELSE 0) <= faults
    BY FS_CardinalityType DEF LogInv, Cuts
  <2>2. CutSegments' \subseteq CutSegments
    <3> SUFFICES ASSUME NEW x \in CutSegments', x \notin CutSegments PROVE FALSE
      OBVIOUS
    <3>1. PICK f \in DOMAIN files' : \E i \in DOMAIN files'[f].text :
            x = <<i, f>> /\ IsCut(f, i)'
      <4>1. CutMember'
        BY CutMember, PTL
      <4> QED
        BY <4>1
    <3>2. PICK i \in DOMAIN files'[f].text : x = <<i, f>> /\ IsCut(f, i)'
      BY <3>1
    <3>3. PICK T : T = files'[f].text
      OBVIOUS
    <3>4. /\ T[i].to < T[i].msg.len /\ i \in DOMAIN T
          /\ i = Len(T) \/ T[i + 1].from = 0
          /\ pc'[t] = "rewrite" => msg[t] # T[i].msg
      BY <1>2, <3>2, <3>3 DEF IsCut, Segment
    <3>5. CASE f = c /\ i = n + 1
      <4>1. T[i] = seg
        BY <1>12, <1>13, <3>3, <3>5
      <4>2. pc'[t] # "rewrite" /\ sent[t] + k < msg[t].len
        BY <1>8, <3>4, <4>1
      <4> QED
        BY <1>3, <1>4, <1>5, <1>7, <4>2
    <3>6. CASE f \in DOMAIN files /\ i \in DOMAIN files[f].text /\ T[i] = Segment(f, i)
      <4>1. i = Len(files[f].text) \/ Segment(f, i + 1).from = 0
        <5>1. CASE f # c
          <6>1. T = files[f].text
            BY <1>13, <3>3, <3>6, <5>1
          <6> QED
            BY <3>4, <6>1 DEF Segment
        <5>2. CASE f = c /\ i # n
          <6>1. i \in 1..n /\ T = more /\ files[f].text = text /\ Len(T) = n + 1
            BY <1>9, <1>10, <1>12, <1>13, <3>3, <3>6, <5>2
          <6>2. i + 1 \in 1..n /\ i # n + 1
            BY <1>10, <5>2, <6>1
          <6>3. T[i + 1] = text[i + 1]
            BY <1>12, <6>1, <6>2
          <6> QED
            BY <3>4, <6>1, <6>2, <6>3 DEF Segment
        <5>3. CASE f = c /\ i = n
          BY <1>9, <5>3
        <5> QED
          BY <5>1, <5>2, <5>3
      <4>2. ~ IsCut(f, i)
        BY <3>2, <3>6, CutMember
      <4>3. Segment(f, i).msg = msg[t]
        BY <1>6, <3>4, <3>6, <4>1, <4>2 DEF IsCut, Writing
      <4>4. f = c /\ sent[t] > 0 /\ (i = n \/ Segment(f, i + 1).from > 0)
        BY <1>2, <1>9, <3>6, <4>3, Continued
      <4>5. i = n
        BY <1>9, <4>1, <4>4
      <4>6. T = more /\ i + 1 = n + 1 /\ T[i + 1] = seg /\ Len(T) = n + 1 /\ i # n + 1
        BY <1>10, <1>12, <1>13, <3>3, <4>4, <4>5
      <4> QED
        BY <1>5, <1>8, <3>4, <4>4, <4>6
    <3> QED
      BY <1>15, <3>2, <3>3, <3>5, <3>6
  <2>3. PICK a, b \in Nat : a = Cardinality(CutSegments') /\ b = Cardinality(CutSegments)
    BY <2>1, <2>2, NoMore
  <2>4. IsFiniteSet(CutSegments') /\ a <= b
    BY <2>1, <2>2, <2>3, NoMore
  <2>5. \/ ~Rewriting' /\ faults' = faults
        \/ faults' = faults + 1
    <3>1. CASE faults' = faults /\ pc' = [pc EXCEPT ![t] = "count"]
      <4>1. pc'[t] = "count"
        BY <1>3, <3>1
      <4> QED
        BY <1>6, <3>1, <4>1 DEF Rewriting, Writing
    <3> QED
      BY <1>4, <3>1
  <2>6. 2 * a + (IF Rewriting' THEN 1 ELSE 0) <= faults'
    BY <1>3, <2>1, <2>3, <2>4, <2>5
  <2> QED
    BY <2>3, <2>4, <2>6 DEF Cuts
<1>26. Buffered'
  <2>1. \A f \in DOMAIN files' :
          IF f = Len(files') THEN files'[f].onDisk \in 0..Len(files'[f].text)
                             ELSE files'[f].onDisk = Len(files'[f].text)
    <3>1. \A f \in DOMAIN files :
            IF f = c THEN files[f].onDisk \in 0..n
                     ELSE files[f].onDisk = Len(files[f].text)
      BY <1>9 DEF LogInv, Buffered
    <3> QED
      BY <1>10, <1>12, <1>13, <3>1
  <2>2. \A i \in DOMAIN text :
          /\ lastRoll <= text[i].at /\ text[i].at <= clock
          /\ i > Current.onDisk => lastFlush <= text[i].at
    BY <1>10 DEF LogInv, Buffered
  <2>3. lastRoll <= clock /\ lastFlush <= clock
    BY <1>3 DEF LogInv, Clocks
  <2>4. \A i \in DOMAIN more :
          /\ lastRoll <= more[i].at /\ more[i].at <= clock
          /\ i > Current.onDisk => lastFlush <= more[i].at
    <3> SUFFICES ASSUME NEW i \in DOMAIN more
                 PROVE  /\ lastRoll <= more[i].at /\ more[i].at <= clock
                        /\ i > Current.onDisk => lastFlush <= more[i].at
      OBVIOUS
    <3>1. CASE i \in 1..n
      BY <1>10, <1>12, <2>2, <3>1
    <3>2. CASE i = n + 1
      BY <1>3, <1>8, <1>12, <2>3, <3>2
    <3> QED
      BY <1>10, <1>12, <3>1, <3>2
  <2> QED
    BY <1>2, <1>14, <2>1, <2>4 DEF Buffered
<1>27. Counts'
  <2>1. Firsts(more) \subseteq Firsts(text) \cup (IF sent[t] = 0 THEN {n + 1} ELSE {})
        /\ \A i \in Firsts(text) : more[i] = text[i]
    BY <1>8, <1>10, <1>12 DEF Firsts
  <2>2. PICK new : new = IF sent[t] = 0 THEN {n + 1} ELSE {}
    OBVIOUS
  <2>3. \A i \in Firsts(more) : i \in new \/ (i \in Firsts(text) /\ more[i] = text[i])
    BY <2>1, <2>2
  <2>4. Late' \subseteq Late \cup new
    <3> SUFFICES ASSUME NEW j \in Late', j \notin new PROVE j \in Late
      OBVIOUS
    <3>1. j \in Firsts(more) /\ more[j].at > lastFlush + FlushInterval
      BY <1>2, <1>14 DEF Late
    <3>2. j \in Firsts(text) /\ more[j] = text[j]
      BY <2>3, <3>1
    <3> QED
      BY <1>10, <3>1, <3>2 DEF Late
  <2>5. Strays(c)' \subseteq Strays(c) \cup new
    <3> SUFFICES ASSUME NEW j \in Strays(c)', j \notin new PROVE j \in Strays(c)
      OBVIOUS
    <3>1. /\ j \in Firsts(more) /\ Period(more[j].at) # Period(files[c].made)
      BY <1>10, <1>13 DEF Strays
    <3>2. j \in Firsts(text) /\ more[j] = text[j]
      BY <2>3, <3>1
    <3> QED
      BY <1>9, <3>1, <3>2 DEF Strays
  <2>6. ~Rolling /\ ~Rolling'
    BY <1>2, <1>5, <1>6 DEF Rolling, Writing
  <2>7. Uncounted' /\ (Uncounted <=> sent[t] > 0)
    BY <1>5, <1>6, <1>17 DEF Uncounted, Writing
  <2>8. Cardinality(Late) <= Counted /\ Cardinality(Strays(c)) <= Counted
    BY <1>9, <2>6 DEF LogInv, Counts
  <2>9. /\ Counted' = count + 1 /\ Counted' <= CheckEveryN /\ Counted' \in Nat
        /\ Counted \in Nat
        /\ Counted = IF sent[t] = 0 THEN count ELSE count + 1
    BY <1>2, <1>3, <1>5, <2>7 DEF Counted
  <2>10. IsFiniteSet(Late) /\ IsFiniteSet(Strays(c))
    BY <1>9, <1>10, FirstsFinite DEF Late, Strays
  <2>11. Cardinality(Late') <= Counted' /\ Cardinality(Strays(c)') <= Counted'
         /\ Cardinality(Strays(c)') \in Nat
    <3>1. CASE sent[t] = 0
      <4>1. Late' \subseteq Late \cup {n + 1} /\ Strays(c)' \subseteq Strays(c) \cup {n + 1}
        BY <2>2, <2>4, <2>5, <3>1
      <4>2. /\ Cardinality(Late) \in Nat /\ Cardinality(Late') \in Nat
            /\ Cardinality(Late') <= Cardinality(Late) + 1
        BY <2>10, <4>1, OneMore
      <4>3. /\ Cardinality(Strays(c)) \in Nat /\ Cardinality(Strays(c)') \in Nat
            /\ Cardinality(Strays(c)') <= Cardinality(Strays(c)) + 1
        BY <2>10, <4>1, OneMore
      <4> QED
        BY <1>3, <2>8, <2>9, <3>1, <4>2, <4>3
    <3>2. CASE sent[t] # 0
      <4>1. Late' \subseteq Late /\ Strays(c)' \subseteq Strays(c)
        BY <2>2, <2>4, <2>5, <3>2
      <4>2. /\ Cardinality(Late) \in Nat /\ Cardinality(Late') \in Nat
            /\ Cardinality(Late') <= Cardinality(Late)
        BY <2>10, <4>1, NoMore
      <4>3. /\ Cardinality(Strays(c)) \in Nat /\ Cardinality(Strays(c)') \in Nat
            /\ Cardinality(Strays(c)') <= Cardinality(Strays(c))
        BY <2>10, <4>1, NoMore
      <4> QED
        BY <1>3, <2>8, <2>9, <3>2, <4>2, <4>3
    <3> QED
      BY <3>1, <3>2
  <2>12. \A f \in DOMAIN files' : Cardinality(Strays(f)') <= CheckEveryN
    <3>1. \A f \in DOMAIN files : f # c => Strays(f)' = Strays(f)
      BY <1>13 DEF Strays
    <3>2. Cardinality(Strays(c)') <= CheckEveryN
      BY <1>3, <2>9, <2>11
    <3> QED
      BY <1>13, <3>1, <3>2 DEF LogInv, Counts
  <2> QED
    BY <1>13, <2>11, <2>12 DEF Counts
<1>28. /\ \A i \in 0..n : BytesUpTo(more, i) = BytesUpTo(text, i)
       /\ BytesUpTo(more, n + 1) = BytesUpTo(text, n) + seg.to - seg.from
  BY <1>8, <1>9, <1>10, <1>11, BytesAppended
<1>29. \A i \in 0..n : BytesUpTo(text, i) \in Int
  BY <1>9, <1>10, BytesInt
<1>30. \A i \in DOMAIN text : BytesUpTo(text, i) <= writtenBytes + sent[t]
  <2> SUFFICES ASSUME NEW i \in DOMAIN text
               PROVE  BytesUpTo(text, i) <= writtenBytes + sent[t]
    OBVIOUS
  <2>1. \/ BytesUpTo(text, i) <= writtenBytes
        \/ BytesUpTo(text, i) <= writtenBytes + sent[t]
    BY <1>6, <1>10 DEF LogInv, Bytes, Writing
  <2>2. PICK b \in Int : b = BytesUpTo(text, i)
    BY <1>10, <1>29
  <2> QED
    BY <1>3, <1>5, <2>1, <2>2
<1>31. Bytes'
  <2> SUFFICES ASSUME NEW i \in DOMAIN more
               PROVE  BytesUpTo(more, i) <= writtenBytes + sent'[t]
    BY <1>2, <1>5, <1>14 DEF Bytes
  <2>1. CASE i \in 1..n
    <3>1. PICK b \in Int : b = BytesUpTo(text, i)
      BY <1>10, <1>29, <2>1
    <3>2. BytesUpTo(more, i) = b /\ b <= writtenBytes + sent[t]
      BY <1>10, <1>28, <1>30, <2>1, <3>1
    <3> QED
      BY <1>3, <1>5, <3>2
  <2>2. CASE i = n + 1
    <3>1. PICK b \in Int : b = BytesUpTo(text, n)
      BY <1>10, <1>29
    <3>2. b <= writtenBytes + sent[t]
      <4>1. CASE n = 0
        <5>1. b = 0
          BY <1>10, <3>1, <4>1, NoBytes
        <5> QED
          BY <1>3, <1>5, <5>1
      <4>2. CASE n # 0
        BY <1>10, <1>30, <3>1, <4>2
      <4> QED
        BY <4>1, <4>2
    <3>3. BytesUpTo(more, i) = b + k
      BY <1>5, <1>8, <1>28, <2>2, <3>1
    <3> QED
      BY <1>3, <1>5, <3>2, <3>3
  <2> QED
    BY <1>10, <1>12, <2>1, <2>2
<1>32. Sizes'
  <2>1. \A i \in Excess(Current)' : Current'.text[i].msg = msg[t]
    <3> SUFFICES ASSUME NEW i \in Excess(Current)' PROVE more[i].msg = msg[t]
      BY <1>14
    <3>1. /\ i \in DOMAIN more /\ more[i].at > Current.made
          /\ BytesUpTo(more, i) > RollSize
      BY <1>14 DEF Excess
    <3>2. CASE i \in 1..n
      <4>1. i \in Excess(Current)
        BY <1>10, <1>12, <1>28, <3>1, <3>2 DEF Excess
      <4>2. Current.text[i].msg = msg[t]
        BY <1>6, <4>1 DEF LogInv, Sizes, Writing
      <4> QED
        BY <1>10, <1>12, <3>2, <4>2
    <3>3. CASE i = n + 1
      BY <1>8, <1>12, <3>3
    <3> QED
      BY <1>10, <1>12, <3>1, <3>2, <3>3
  <2>2. sent'[t] > 0
    BY <1>5
  <2>3. ASSUME NEW f \in DOMAIN files', f < Len(files'), NEW i \in Excess(files'[f])
        PROVE  files'[f].text[i].msg = files'[f].text[Len(files'[f].text)].msg
    <3>1. f \in DOMAIN files /\ files'[f] = files[f] /\ f < Len(files)
      BY <1>9, <1>10, <1>13, <2>3
    <3>2. i \in Excess(files[f])
      BY <3>1
    <3> QED
      BY <3>1, <3>2 DEF LogInv, Sizes
  <2> QED
    BY <1>2, <1>5, <2>1, <2>2, <2>3 DEF Sizes, Excess
<1>33. Ends'
  <2>1. ASSUME NEW u \in Threads, pc'[u] = "flushed" PROVE FatalOnDisk(u)'
    <3>1. u # t /\ pc[u] = "flushed"
      BY <1>5, <2>1
    <3> SUFFICES ASSUME NEW s \in FatalSegments(u)', NEW f \in 1..s[1],
                        NEW i \in DOMAIN files'[f].text, f < s[1] \/ i <= s[2]
                 PROVE  i <= files'[f].onDisk
      BY DEF FatalOnDisk
    <3>2. PICK g \in DOMAIN files' : s \in {g} \X DOMAIN files'[g].text
      BY DEF FatalSegments
    <3>3. PICK j \in DOMAIN files'[g].text : s = <<g, j>>
      BY <3>2
    <3>4. s[1] = g /\ s[2] = j /\ files'[g].text[j].msg.by = u
      BY <3>3 DEF FatalSegments
    <3>5. g \in DOMAIN files /\ j \in DOMAIN files[g].text /\ files[g].text[j].msg.by = u
      BY <1>7, <1>8, <1>15, <3>1, <3>4 DEF Segment
    <3>6. s \in FatalSegments(u)
      <4>1. s \in {g} \X DOMAIN files[g].text
        BY <3>3, <3>5
      <4> QED
        BY <3>4, <3>5, <4>1 DEF FatalSegments
    <3>7. f \in DOMAIN files /\ i \in DOMAIN files[f].text
      <4>1. f \in DOMAIN files /\ f <= c
        BY <1>10, <3>4, <3>5
      <4>2. CASE i \in DOMAIN files[f].text
        BY <4>1, <4>2
      <4>3. CASE f = c /\ i = n + 1
        <5>1. g = c /\ j \in 1..n
          BY <1>9, <1>10, <3>4, <3>5, <4>3
        <5> QED
          BY <1>10, <3>4, <4>3, <5>1
      <4> QED
        BY <1>13, <1>15, <4>1, <4>2, <4>3
    <3>8. i <= files[f].onDisk
      BY <3>1, <3>6, <3>7 DEF LogInv, Ends, FatalOnDisk
    <3> QED
      BY <1>13, <3>7, <3>8
  <2> QED
    BY <1>2, <2>1 DEF Ends
<1> QED
  BY <1>18, <1>19, <1>20, <1>21, <1>22, <1>23, <1>24, <1>25, <1>26, <1>27, <1>31,
     <1>32, <1>33 DEF LogInv

\* The first file is empty.
LEMMA StartRight ==
  ASSUME Init
  PROVE  LogInv
<1>1. /\ clock = StartClock /\ faults = 0
      /\ pc = [t \in Threads |-> "ready"]
      /\ msg = [t \in Threads |-> NoMessage] /\ sent = [t \in Threads |-> 0]
      /\ mutex = NoThread
      /\ count = 0 /\ writtenBytes = 0
      /\ startOfPeriod = Period(StartClock)
      /\ lastRoll = StartClock /\ lastFlush = StartClock
      /\ files = <<NewFile(StartClock)>>
      /\ next = [t \in Threads |-> 1]
      /\ lastSecond = [t \in Threads |-> 0] /\ time = [t \in Threads |-> 0]
      /\ ended = "no"
  BY DEF Init, FileInit
<1>2. PICK s \in Scenarios : program = s.program
  BY DEF Init
<1>3. StartClock \in Nat \ {0} /\ CheckEveryN \in Nat \ {0} /\ NoThread \notin Threads
  BY FileAssumption
<1>4. \A t \in Threads : pc[t] = "ready" /\ sent[t] = 0
  BY <1>1
<1>5. /\ files \in Seq(LogFiles) /\ files # <<>> /\ Len(files) = 1 /\ DOMAIN files = {1}
      /\ files[1].made = StartClock /\ files[1].text = <<>> /\ files[1].onDisk = 0
      /\ DOMAIN files[1].text = {} /\ Len(files[1].text) = 0
  <2>1. PICK F : F = NewFile(StartClock)
    OBVIOUS
  <2>2. F \in LogFiles /\ F.made = StartClock /\ F.text = <<>> /\ F.onDisk = 0
    BY <1>3, <2>1 DEF NewFile, LogFiles
  <2>3. files = <<F>>
    BY <1>1, <2>1
  <2> QED
    BY <2>2, <2>3
<1>6. /\ Current.made = StartClock /\ Current.text = <<>> /\ Current.onDisk = 0
      /\ DOMAIN Current.text = {}
  BY <1>5 DEF Current
<1>7. LogTypes
  <2>1. /\ pc \in [Threads -> Places] /\ msg \in [Threads -> Messages \cup {NoMessage}]
        /\ sent \in [Threads -> Nat] /\ next \in [Threads -> Nat \ {0}]
        /\ lastSecond \in [Threads -> Nat] /\ time \in [Threads -> Nat]
    BY <1>1 DEF Places
  <2> QED
    BY <1>1, <1>3, <1>5, <2>1 DEF LogTypes
<1>8. Programs
  BY <1>2, ScenarioAssumption DEF Programs
<1>9. Clocks /\ Locked /\ Numbered /\ Partly
  <2>1. Clocks
    BY <1>1, <1>3, <1>6 DEF Clocks
  <2>2. Locked /\ Numbered
    BY <1>1, <1>3, <1>4 DEF Locked, Numbered, Writing
  <2>3. Partly
    BY <1>4 DEF Partly, Writing
  <2> QED
    BY <2>1, <2>2, <2>3
<1>10. \A f \in DOMAIN files : files[f].text = <<>> /\ DOMAIN files[f].text = {}
  BY <1>5
<1>11. Taken /\ Rows /\ Once
  BY <1>10 DEF Taken, Rows, Once, Firsts
<1>12. Cuts
  <2>1. CutSegments = {}
    BY <1>10, CutMember
  <2>2. ~Rewriting /\ IsFiniteSet({}) /\ Cardinality({}) = 0
    BY <1>4, FS_EmptySet DEF Rewriting
  <2> QED
    BY <1>1, <2>1, <2>2 DEF Cuts
<1>13. Buffered
  BY <1>5, <1>6 DEF Buffered
<1>14. Counts
  <2>1. Late = {} /\ \A f \in DOMAIN files : Strays(f) = {}
    BY <1>5, <1>6 DEF Late, Strays, Firsts
  <2>2. Cardinality({}) = 0 /\ Counted = 0
    BY <1>1, <1>4, FS_EmptySet DEF Counted, Uncounted
  <2>3. Cardinality(Late) = 0 /\ \A f \in DOMAIN files : Cardinality(Strays(f)) = 0
    BY <2>1, <2>2
  <2>4. Len(files) \in DOMAIN files
    BY <1>5
  <2> QED
    BY <1>3, <2>2, <2>3, <2>4 DEF Counts
<1>15. Bytes /\ Sizes
  <2>1. Excess(Current) = {} /\ \A f \in DOMAIN files : ~(f < Len(files))
    BY <1>5, <1>6 DEF Excess
  <2> QED
    BY <1>6, <2>1 DEF Bytes, Sizes
<1>16. Ends /\ Times
  BY <1>1, <1>4, <1>10 DEF Ends, Times, TimeIsOwn
<1> QED
  BY <1>7, <1>8, <1>9, <1>11, <1>12, <1>13, <1>14, <1>15, <1>16 DEF LogInv

\* Every step keeps the invariant.
LEMMA LogStepRight ==
  ASSUME LogInv, [Next]_vars
  PROVE  LogInv'
<1>1. ASSUME NEW t \in Threads, ended = "no", FileStep(t), UNCHANGED threadVars
      PROVE  LogInv'
  <2>1. CASE Lock(t)
    BY <1>1, <2>1, LockRight
  <2>2. CASE Write(t)
    <3>1. PICK k \in Nat : Wrote(t, k)
      BY <1>1, <2>2, WriteTakes
    <3>2. CASE k = 0
      <4>1. Wrote(t, 0)
        BY <3>1, <3>2
      <4> QED
        BY <4>1, WroteNothingRight
    <3>3. CASE k # 0
      BY <1>1, <3>1, <3>3, WroteSomeRight
    <3> QED
      BY <3>2, <3>3
  <2>3. CASE CountBytes(t)
    BY <1>1, <2>3, CountBytesRight
  <2>4. CASE RollFile(t)
    BY <1>1, <2>4, RollNewRight, RollRefusedRight
  <2>5. CASE Unlock(t)
    BY <1>1, <2>5, UnlockRight
  <2>6. CASE Flush(t)
    BY <1>1, <2>6, FlushRight
  <2> QED
    BY <1>1, <2>1, <2>2, <2>3, <2>4, <2>5, <2>6 DEF FileStep
<1>2. ASSUME NEW t \in Threads, ThreadStep(t) PROVE LogInv'
  <2>1. CASE SetLogLevel(t) \/ Skip(t)
    BY <2>1, PassRight
  <2>2. CASE Compose(t)
    BY <2>2, ComposeRight
  <2>3. CASE Done(t)
    BY <2>3, DoneRight
  <2>4. CASE FatalFlush(t)
    BY <2>4, FatalFlushRight
  <2>5. CASE Abort(t)
    BY <2>5, AbortRight
  <2>6. CASE FileStep(t) /\ UNCHANGED threadVars
    BY <1>1, <1>2, <2>6 DEF ThreadStep
  <2> QED
    BY <1>2, <2>1, <2>2, <2>3, <2>4, <2>5, <2>6 DEF ThreadStep
<1>3. CASE Tick /\ UNCHANGED threadVars
  BY <1>3, TickRight
<1>4. CASE Exit
  BY <1>4, ExitRight
<1>5. CASE UNCHANGED vars
  <2>1. UNCHANGED <<bounds, clock, faults, pc, msg, sent, mutex, count, startOfPeriod,
                    lastRoll, lastFlush, writtenBytes, files, program, next,
                    lastSecond, time, ended>>
    BY <1>5 DEF vars, fileVars, threadVars
  <2>2. LogTypes' /\ Numbered' /\ Times' /\ Taken'
    BY <2>1 DEF LogInv, LogTypes, Numbered, Times, TimeIsOwn, Taken, Segment
  <2>3. Ends'
    BY <2>1 DEF LogInv, Ends, FatalOnDisk, FatalSegments
  <2> QED
    BY <2>1, <2>2, <2>3, QuietStep
<1> QED
  BY <1>2, <1>3, <1>4, <1>5 DEF Next

\* So it holds in every reachable state.
LEMMA LogAlways == Spec => []LogInv
  BY StartRight, LogStepRight, PTL DEF Spec
-----------------------------------------------------------------------------
(* What the invariant gives.                                               *)

\* For any threads and statements, and however often fwrite falls short: the
\* bytes of a message are in one file, side by side and in order, each once,
\* and a message is cut only where fwrite fell short of it twice.
THEOREM Intact == Spec => []MessagesIntact
<1>1. ASSUME LogInv PROVE MessagesIntact
  <2>1. \A f \in DOMAIN files : LET text == files[f].text IN
          \A i \in DOMAIN text : text[i].from > 0 =>
            i > 1 /\ text[i - 1].msg = text[i].msg /\ text[i - 1].to = text[i].from
    BY <1>1 DEF LogInv, Rows, Segment
  <2>2. \A f, g \in DOMAIN files :
          \A i \in Firsts(files[f].text), j \in Firsts(files[g].text) :
            files[f].text[i].msg = files[g].text[j].msg => f = g /\ i = j
    BY <1>1 DEF LogInv, Once, Segment
  <2>3. 2 * Cardinality(CutSegments) <= faults
    <3>1. PICK a \in Nat : a = Cardinality(CutSegments)
      BY <1>1, FS_CardinalityType DEF LogInv, Cuts
    <3>2. 2 * a + (IF Rewriting THEN 1 ELSE 0) <= faults /\ faults \in Nat
      BY <1>1, <3>1, LogTyped DEF LogInv, Cuts
    <3>3. 2 * a <= faults
      BY <3>2
    <3> QED
      BY <3>1, <3>3
  <2> QED
    BY <2>1, <2>2, <2>3 DEF MessagesIntact, CutSegments
<1> QED
  BY <1>1, LogAlways, PTL

\* A message older than flushInterval_ in stdio's buffer sees fewer than
\* checkEveryN_ more begin, whatever the three numbers are.
THEOREM FreshBuffer == Spec => []BufferedIsFresh
<1>1. ASSUME LogInv, mutex = NoThread, NEW i \in (Current.onDisk + 1)..Len(Current.text)
      PROVE  Cardinality({j \in Firsts(Current.text) :
                            Current.text[j].at > Current.text[i].at + FlushInterval})
               < CheckEveryN
  <2> DEFINE Older == {j \in Firsts(Current.text) :
                         Current.text[j].at > Current.text[i].at + FlushInterval}
  <2>1. /\ Current.onDisk \in Nat /\ DOMAIN Current.text = 1..Len(Current.text)
        /\ Len(Current.text) \in Nat /\ Current.text \in Seq(Segments)
        /\ \A j \in DOMAIN Current.text : Current.text[j].at \in Nat
    BY <1>1, CurrentFile DEF LogFiles, Segments
  <2>2. i \in DOMAIN Current.text /\ i > Current.onDisk
    BY <1>1, <2>1
  <2>3. lastFlush <= Current.text[i].at /\ lastFlush \in Nat /\ FlushInterval \in Nat
    BY <1>1, <2>2, LogTyped DEF LogInv, Buffered
  <2>4. Older \subseteq Late
    BY <2>1, <2>2, <2>3 DEF Late, Firsts
  <2>5. \A t \in Threads : pc[t] \notin Writing
    BY <1>1, LogTyped DEF LogInv, Locked
  <2>6. ~Rolling /\ Counted = count + 0
    BY <2>5 DEF Rolling, Uncounted, Counted, Writing
  <2>7. IsFiniteSet(Late)
    BY <2>1, FirstsFinite DEF Late
  <2>8. /\ Cardinality(Older) \in Nat /\ Cardinality(Late) \in Nat
        /\ Cardinality(Older) <= Cardinality(Late)
    BY <2>4, <2>7, NoMore
  <2>9. Cardinality(Late) <= count + 0
    BY <1>1, <2>6 DEF LogInv, Counts
  <2>10. count \in 0..(CheckEveryN - 1) /\ CheckEveryN \in Nat
    BY <1>1, LogTyped
  <2> HIDE DEF Older
  <2>11. Cardinality(Older) < CheckEveryN
    BY <2>8, <2>9, <2>10
  <2> QED
    BY <2>11 DEF Older
<1>2. LogInv => BufferedIsFresh
  BY <1>1 DEF BufferedIsFresh
<1> QED
  BY <1>2, LogAlways, PTL

\* But for its first second, only the last message of a file goes beyond
\* rollSize_, and at most checkEveryN_ messages of a later period go to it.
THEOREM BoundedFiles == Spec => []FilesBounded
<1>1. ASSUME LogInv, NEW f \in DOMAIN files, f < Len(files) \/ mutex = NoThread
      PROVE  /\ \A i \in Excess(files[f]) :
                  /\ f < Len(files)
                  /\ files[f].text[i].msg = files[f].text[Len(files[f].text)].msg
             /\ Cardinality(Strays(f)) <= CheckEveryN
  <2>1. Cardinality(Strays(f)) <= CheckEveryN
    BY <1>1 DEF LogInv, Counts
  <2>2. CASE f < Len(files)
    BY <1>1, <2>1, <2>2 DEF LogInv, Sizes
  <2>3. CASE ~(f < Len(files))
    <3>1. f = Len(files) /\ mutex = NoThread /\ files[f] = Current
      BY <1>1, <2>3, CurrentFile
    <3>2. \A t \in Threads : pc[t] \notin Writing
      BY <1>1, <3>1, LogTyped DEF LogInv, Locked
    <3>3. Excess(Current) = {}
      BY <1>1, <3>2 DEF LogInv, Sizes, Writing
    <3> QED
      BY <2>1, <3>1, <3>3
  <2> QED
    BY <2>2, <2>3
<1>2. LogInv => FilesBounded
  BY <1>1 DEF FilesBounded, Strays
<1> QED
  BY <1>2, LogAlways, PTL

\* When abort() is called, the fatal line and all that was written before it
\* is on the disk; when the program exits, everything is.
THEOREM DiskAtEnd == Spec => []EndsOnDisk
<1>1. LogInv => EndsOnDisk
  BY DEF LogInv, Ends, EndsOnDisk, FatalOnDisk
<1> QED
  BY <1>1, LogAlways, PTL

\* A thread's stream is right, before and after its statement.
StreamsRight ==
  /\ stream = [t \in Threads |-> stream[t]]
  /\ \A t \in Threads : StreamRight(stream[t])

\* Only a statement's begin and end touch its stream.
LEMMA StreamsKept ==
  ASSUME LogInv, StreamsRight, [Next]_vars
  PROVE  StreamsRight'
<1>1. ASSUME NEW t \in Threads, NEW s, StreamRight(s), stream' = [stream EXCEPT ![t] = s]
      PROVE  StreamsRight'
  <2>1. stream' = [u \in Threads |-> IF u = t THEN s ELSE stream[u]]
    BY <1>1 DEF StreamsRight
  <2>2. \A u \in Threads : StreamRight(stream'[u])
    BY <1>1, <2>1 DEF StreamsRight
  <2> QED
    BY <2>1, <2>2 DEF StreamsRight
<1>2. CASE stream' = stream
  BY <1>2 DEF StreamsRight
<1>3. ASSUME NEW t \in Threads, Compose(t) PROVE StreamsRight'
  <2>1. PICK s : s = PutAll(EmptyStream, Items(Statement(t), TextOf(t, clock)))
    OBVIOUS
  <2>2. StreamRight(s)
    BY <1>3, <2>1, ComposedStatement, LineRight
  <2>3. stream' = [stream EXCEPT ![t] = s]
    BY <1>3, <2>1 DEF Compose
  <2> QED
    BY <1>1, <2>2, <2>3
<1>4. ASSUME NEW t \in Threads, Done(t) PROVE StreamsRight'
  <2>1. PICK s : s = EmptyStream
    OBVIOUS
  <2>2. stream' = [stream EXCEPT ![t] = s]
    BY <1>4, <2>1 DEF Done
  <2> QED
    BY <1>1, <2>1, <2>2, EmptyRight
<1>5. ASSUME NEW t \in Threads, ThreadStep(t) PROVE StreamsRight'
  <2>1. CASE SetLogLevel(t) \/ Skip(t) \/ FatalFlush(t) \/ Abort(t)
             \/ (FileStep(t) /\ UNCHANGED threadVars)
    BY <1>2, <2>1 DEF SetLogLevel, Skip, FatalFlush, Abort, threadVars
  <2> QED
    BY <1>3, <1>4, <1>5, <2>1 DEF ThreadStep
<1>6. CASE ended = "no" /\ Tick /\ UNCHANGED threadVars
  BY <1>2, <1>6 DEF threadVars
<1>7. CASE Exit
  BY <1>2, <1>7 DEF Exit
<1>8. CASE UNCHANGED vars
  BY <1>2, <1>8 DEF vars, threadVars
<1> QED
  BY <1>5, <1>6, <1>7, <1>8 DEF Next

\* Whatever is logged: a stream never touches a byte behind its end, a number
\* in it is the decimal text of the value, for every integer, a quantity is as
\* short as the header promises, the line end is missing only where no two
\* bytes were left, and a line shows the second in which its statement began.
THEOREM OwnLines == Spec => []LinesRight
<1>1. Init => StreamsRight
  <2> SUFFICES ASSUME Init PROVE StreamsRight
    OBVIOUS
  <2>1. PICK s : s = EmptyStream
    OBVIOUS
  <2>2. stream = [t \in Threads |-> s] /\ StreamRight(s)
    BY <2>1, EmptyRight DEF Init
  <2> QED
    BY <2>2 DEF StreamsRight
<1>2. LogInv /\ StreamsRight => LinesRight
  BY DEF LogInv, Times, LinesRight, StreamsRight, StreamRight, StatementRight
<1> QED
  BY <1>1, <1>2, LogAlways, StreamsKept, PTL DEF Spec
=============================================================================
