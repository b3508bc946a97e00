------------------------------ MODULE TimeWheel ------------------------------
(***************************************************************************)
(* libeva/TimeWheel/TimeWheel.cc: the reactor's timers, one slot of the    *)
(* wheel per millisecond.  tock() is called in every iteration of the      *)
(* dispatch loop, advances the wheel to the present and runs the timers of *)
(* every slot it passes.                                                   *)
(*                                                                         *)
(* Time is counted in units, Unit of them to the millisecond, so that the  *)
(* truncation of a time to its slot shows.  start_ moves in whole          *)
(* milliseconds, and the origin is chosen so that it starts from 0.  The   *)
(* code multiplies a difference in seconds, a double, by 1000 before it    *)
(* truncates: for some whole milliseconds (1.001 s is one) the product     *)
(* falls short, which RoundedDown says of which.                           *)
(*                                                                         *)
(* A slot is the sequence of the timers linked from it.  Where the code    *)
(* would end the process (LOG_FATAL, an exception) or touch a timer that   *)
(* is null or deleted, fault says so and nothing happens any more.         *)
(***************************************************************************)
EXTENDS Integers, Sequences, Functions

CONSTANTS Timers,      \* the Timer objects, each constructed at most once
          NumSlot,     \* numSlot_
          Unit,        \* units of time per millisecond
          Delays,      \* the delays of runAfter, in units
          Intervals,   \* the intervals of runEvery, in units
          RoundedDown, \* differences whose product by 1000 falls short
          Prompt,      \* are timers linked a millisecond before they are due?
          CancelAny,   \* may a timer in the middle of a list be cancelled?
          MaxLag,      \* bound: how far the wheel may fall behind the clock
          MaxTime      \* bound: the end of time

ASSUME WheelAssumption == NumSlot \in Nat \ {0} /\ Unit \in Nat \ {0}
ASSUME TimesAssumption ==
  /\ Delays \subseteq Nat /\ Intervals \subseteq Nat \ {0}
  /\ MaxLag \in Nat /\ MaxTime \in Nat
  /\ RoundedDown \subseteq {k * Unit : k \in 2..(NumSlot + MaxLag)}
  /\ Prompt \in BOOLEAN /\ CancelAny \in BOOLEAN

VARIABLES
  now,              \* Timestamp::now()
  start, startIdx,  \* start_ and startIdx_
  slot,             \* slot_: the list linked from each slot
  status,           \* the life of each Timer
  due,              \* when each timer is to fire
  interval,         \* its interval_, 0 if it does not repeat
  index,            \* its index_
  tockPc,           \* where the loop's thread is in tock()
  left,             \* tock: the iterations of its outer loop still to go
  todo,             \* tock: the list from head on
  fault             \* what has gone wrong, or "none"

timerVars == <<status, due, interval, index>>
wheelVars == <<start, startIdx, slot>>
timeVars == <<now, wheelVars, timerVars, tockPc, left, todo, fault>>

Slots == 0..(NumSlot - 1)

WheelInit ==
  /\ now = 0 /\ start = 0 /\ startIdx = 0
  /\ slot = [i \in Slots |-> <<>>]
  /\ status = [t \in Timers |-> "unused"]
  /\ due = [t \in Timers |-> 0]
  /\ interval = [t \in Timers |-> 0]
  /\ index = [t \in Timers |-> -1]
  /\ tockPc = "idle" /\ left = 0 /\ todo = <<>>
  /\ fault = "none"

Running == fault = "none"

\* static_cast<int>( d * 1000 ): the product, truncated towards zero.
Millis(d) ==
  IF d < 0 THEN -((-d) \div Unit)
  ELSE IF d \in RoundedDown THEN d \div Unit - 1
  ELSE d \div Unit

\* The clock.  Prompt: an addTimerInReactor that another thread has queued is
\* executed a millisecond before its timer is due.
Advance ==
  /\ Running
  /\ now < MaxTime
  /\ now - start < MaxLag
  /\ Prompt => \A t \in Timers : status[t] = "queued" => now + Unit < due[t]
  /\ now' = now + 1
  /\ UNCHANGED <<wheelVars, timerVars, tockPc, left, todo, fault>>

-----------------------------------------------------------------------------
(* Adding a timer.                                                         *)

\* Mutant of SlotOf: the slot is counted from slot 0, not from startIdx_.
SlotFromZero(when) == Millis(when - start)

\* The slot a timer that is to fire at when goes to.
SlotOf(when) == startIdx + Millis(when - start)

\* Mutant of Link: index_ is the distance to the slot, not the slot.
LinkWithDistance(t, when) ==
  IF Millis(when - start) >= NumSlot \/ SlotOf(when) < 0
    THEN /\ fault' = "abort"
         /\ UNCHANGED <<slot, status, index>>
    ELSE LET i == SlotOf(when) % NumSlot IN
         /\ slot' = [slot EXCEPT ![i] = <<t>> \o @]
         /\ index' = [index EXCEPT ![t] = Millis(when - start)]
         /\ status' = [status EXCEPT ![t] = "linked"]
         /\ UNCHANGED fault

\* addTimer(timer, when), of the loop's thread: the timer becomes the head of
\* its slot's list.  It aborts when the timer lies a turn of the wheel ahead,
\* and slot_.at throws when it lies too far behind.
Link(t, when) ==
  IF Millis(when - start) >= NumSlot \/ SlotOf(when) < 0
    THEN /\ fault' = "abort"
         /\ UNCHANGED <<slot, status, index>>
    ELSE LET i == SlotOf(when) % NumSlot IN
         /\ slot' = [slot EXCEPT ![i] = <<t>> \o @]
         /\ index' = [index EXCEPT ![t] = i]
         /\ status' = [status EXCEPT ![t] = "linked"]
         /\ UNCHANGED fault

\* Where the loop's thread executes code of the program.
InUserCode == tockPc \in {"idle", "callback"}

\* runAfter (iv = 0) or runEvery on the loop's thread: from a callback of
\* tock(), or from anything else the loop calls.
AddTimer(t, d, iv) ==
  /\ Running /\ InUserCode
  /\ status[t] = "unused"
  /\ due' = [due EXCEPT ![t] = now + d]
  /\ interval' = [interval EXCEPT ![t] = iv]
  /\ Link(t, now + d)
  /\ UNCHANGED <<now, start, startIdx, tockPc, left, todo>>

\* The same on another thread, up to the end of its runInReactor.
AddTimerRemotely(t, d, iv) ==
  /\ Running
  /\ status[t] = "unused"
  /\ due' = [due EXCEPT ![t] = now + d]
  /\ interval' = [interval EXCEPT ![t] = iv]
  /\ status' = [status EXCEPT ![t] = "queued"]
  /\ fault' = IF now + d < start THEN "abort" ELSE "none"
  /\ UNCHANGED <<now, wheelVars, index, tockPc, left, todo>>

\* The loop executes the queued addTimerInReactor, after its tock().
AddTimerInReactor(t) ==
  /\ Running /\ tockPc = "idle"
  /\ status[t] = "queued"
  /\ Link(t, due[t])
  /\ UNCHANGED <<now, start, startIdx, due, interval, tockPc, left, todo>>

-----------------------------------------------------------------------------
(* Cancelling a timer.                                                     *)

\* t is the first of its slot's list, and tock() is not at that list.
HeadsIdleList(t) ==
  /\ slot[index[t]] # <<>> /\ Head(slot[index[t]]) = t
  /\ tockPc = "idle" \/ index[t] # startIdx

\* cancelInReactor of a timer that is still armed.  pre_ is null in every
\* timer, so only the head of a list can be unlinked.
CancelTimer(t) ==
  /\ Running /\ InUserCode
  /\ status[t] = "linked"
  /\ CancelAny \/ HeadsIdleList(t)
  /\ IF slot[index[t]] # <<>> /\ Head(slot[index[t]]) = t
       THEN /\ slot' = [slot EXCEPT ![index[t]] = Tail(@)]
            /\ status' = [status EXCEPT ![t] = "deleted"]
            /\ UNCHANGED fault
       ELSE /\ fault' = "null"
            /\ UNCHANGED <<slot, status>>
  /\ UNCHANGED <<now, start, startIdx, due, interval, index, tockPc, left,
                 todo>>

-----------------------------------------------------------------------------
(* tock().                                                                 *)

TockGoto(from, to) ==
  /\ Running
  /\ tockPc = from
  /\ tockPc' = to

TockBegin ==
  /\ TockGoto("idle", "wheel")
  /\ left' = Millis(now - start)
  /\ UNCHANGED <<now, wheelVars, timerVars, todo, fault>>

\* The next millisecond: its slot's list, if there is one, is to be run.
NextSlot ==
  /\ left > 0
  /\ left' = left - 1
  /\ startIdx' = (startIdx + 1) % NumSlot
  /\ start' = start + Unit
  /\ todo' = slot[startIdx']
  /\ TockGoto("wheel", IF todo' = <<>> THEN "wheel" ELSE "list")
  /\ UNCHANGED <<now, slot, timerVars, fault>>

\* Mutant of TockEnd: start_ = Timestamp::now(), as in the line that is
\* commented out.
TockEndAtNow ==
  /\ TockGoto("wheel", "idle")
  /\ left = 0
  /\ start' = now
  /\ UNCHANGED <<now, startIdx, slot, timerVars, left, todo, fault>>

TockEnd ==
  /\ TockGoto("wheel", "idle")
  /\ left = 0
  /\ UNCHANGED <<now, wheelVars, timerVars, left, todo, fault>>

\* head->run(), if head is what it should be.
RunTimer ==
  /\ todo # <<>>
  /\ TockGoto("list", "callback")
  /\ fault' = CASE status[Head(todo)] = "deleted" -> "deleted"
                [] index[Head(todo)] # startIdx -> "abort"
                [] OTHER -> "none"
  /\ UNCHANGED <<now, wheelVars, timerVars, left, todo>>

\* Mutant of TimerRan: next_ is cleared before head moves to it.
TimerRanListLost ==
  LET t == Head(todo) IN
  /\ TockGoto("callback", "list")
  /\ todo' = <<>>
  /\ CASE status[t] = "deleted" ->
              fault' = "deleted" /\ UNCHANGED <<slot, status, due, index>>
       [] status[t] # "deleted" /\ interval[t] > 0 ->
              /\ due' = [due EXCEPT ![t] = now + interval[t]]
              /\ Link(t, now + interval[t])
       [] OTHER ->
              /\ status' = [status EXCEPT ![t] = "deleted"]
              /\ UNCHANGED <<slot, due, index, fault>>
  /\ UNCHANGED <<now, start, startIdx, interval, left>>

\* The callback has returned: the timer is linked again or deleted.
TimerRan ==
  LET t == Head(todo) IN
  /\ TockGoto("callback", "list")
  /\ todo' = Tail(todo)
  /\ CASE status[t] = "deleted" ->
              fault' = "deleted" /\ UNCHANGED <<slot, status, due, index>>
       [] status[t] # "deleted" /\ interval[t] > 0 ->
              /\ due' = [due EXCEPT ![t] = now + interval[t]]
              /\ Link(t, now + interval[t])
       [] OTHER ->
              /\ status' = [status EXCEPT ![t] = "deleted"]
              /\ UNCHANGED <<slot, due, index, fault>>
  /\ UNCHANGED <<now, start, startIdx, interval, left>>

\* slot_[startIdx_] = head, which is null by now.
ListEnd ==
  /\ todo = <<>>
  /\ TockGoto("list", "wheel")
  /\ slot' = [slot EXCEPT ![startIdx] = <<>>]
  /\ UNCHANGED <<now, start, startIdx, timerVars, left, todo, fault>>

-----------------------------------------------------------------------------

TockStep ==
  \/ TockBegin \/ NextSlot \/ TockEnd
  \/ RunTimer \/ TimerRan \/ ListEnd
  \/ \E t \in Timers : AddTimerInReactor(t)

WheelNext ==
  \/ Advance
  \/ \E t \in Timers :
       \/ \E d \in Delays :
            \E iv \in {i \in Intervals : i = d} \cup {0} :
              AddTimer(t, d, iv) \/ AddTimerRemotely(t, d, iv)
       \/ CancelTimer(t)
  \/ TockStep

WheelSpec == WheelInit /\ [][WheelNext]_timeVars

\* Time passes and the loop goes on; it executes every queued functor
\* (EveryFunctorRuns of Reactor.tla).
WheelFairSpec ==
  /\ WheelSpec
  /\ WF_timeVars(Advance)
  /\ WF_timeVars(TockStep)
  /\ \A t \in Timers : SF_timeVars(AddTimerInReactor(t))

-----------------------------------------------------------------------------
(* Properties.                                                             *)

\* Every variable has its type, and a timer is linked from its slot as long
\* as it is armed.
WheelTypeOK ==
  /\ now \in 0..MaxTime /\ start \in 0..now
  /\ startIdx \in Slots
  /\ slot \in [Slots -> Seq(Timers)]
  /\ status \in [Timers -> {"unused", "queued", "linked", "deleted"}]
  /\ index \in [Timers -> Slots \cup {-1}]
  /\ tockPc \in {"idle", "wheel", "list", "callback"}
  /\ left \in Nat /\ todo \in Seq(Timers)
  /\ fault \in {"none", "abort", "null", "deleted"}

\* The process neither aborts nor touches a null or deleted timer.
NoFault == fault = "none"

\* tock() is at the list t is in, and t has still to run.
Processing(t) == tockPc \in {"list", "callback"} /\ t \in Range(todo)

\* The time, in the wheel, at which tock() comes to t's list.
TurnOf(t) ==
  LET ahead == (index[t] - startIdx) % NumSlot IN
  start + Unit * (IF ahead = 0 /\ ~Processing(t) THEN NumSlot ELSE ahead)

\* An armed timer is in its slot's list, and the wheel comes to that list in
\* the timer's millisecond: never later, so that no timer waits for another
\* turn of the wheel, and never more than a millisecond earlier.
NoTimerMissed ==
  \A t \in Timers :
    status[t] = "linked" =>
      /\ t \in Range(slot[index[t]])
      /\ due[t] - TurnOf(t) \in 0..Unit

\* A timer runs when the wheel is in its millisecond, which is not later than
\* the clock's: at most one millisecond early, and late only by as much as
\* the loop is.
RunsOnTime ==
  tockPc = "callback" => due[Head(todo)] - start \in 0..Unit /\ start <= now

\* Timers run in their millisecond, those that are added to a wheel that lags
\* and those that repeat too (TimeWheel.cc:49 tock, 164 addTimer).
TimersOnTime == NoTimerMissed /\ RunsOnTime

\* Every timer added, by the loop's thread or another one, runs or is
\* cancelled.
TimerFires ==
  \A t \in Timers :
    (status[t] \in {"queued", "linked"} /\ due[t] <= MaxTime) ~>
      ((tockPc = "callback" /\ Head(todo) = t) \/ status[t] = "deleted")
=============================================================================
