-------------------------------- MODULE Timer --------------------------------
(***************************************************************************)
(* Common/Timer.cs: the timers, those to be added and removed by the next    *)
(* Update, and the Update of a frame, whose loop calls handlers that add and *)
(* remove timers themselves. Times are counted in units no frame is shorter  *)
(* than; Mathf.Epsilon is less than one. The actions are composed in         *)
(* GameLoop.                                                               *)
(***************************************************************************)
EXTENDS Integers, Functions

CONSTANTS
  Intervals, Repeats, Durations, Delays,   \* the arguments of AddTimer
  DeltaTimes,                              \* how long a frame may take
  MaxDelta,                                \* .. at most
  MaxTimers                                \* bound on the timers added

ASSUME TimesAssumption ==
  /\ Intervals \subseteq Nat \ {0} /\ Repeats \subseteq Nat
  /\ Durations \subseteq Nat /\ Delays \subseteq Nat
  /\ MaxDelta \in Nat /\ DeltaTimes \subseteq 1..MaxDelta
ASSUME TimersAssumption == MaxTimers \in Nat

VARIABLES
  id,                  \* the next id
  dicTimerObjs,        \* the timers, by id
  dicTimerObjsToAdd,   \* .. of the calls to AddTimer since the last Update
  lstTimerToRemove,    \* the ids to remove
  visiting,            \* the timers the loop of Update has not come to
  executing,           \* the timer whose handler runs, or NoTimer
  deltaTime,           \* how long this frame takes; 0 outside of Update
  removed              \* the ids an Update has removed

timerVars ==
  <<id, dicTimerObjs, dicTimerObjsToAdd, lstTimerToRemove, visiting, executing,
    deltaTime, removed>>

NoTimer == -1
NoTimers == [i \in {} |-> {}]

TimerInit ==
  /\ id = 0
  /\ dicTimerObjs = NoTimers /\ dicTimerObjsToAdd = NoTimers
  /\ lstTimerToRemove = {}
  /\ visiting = {} /\ executing = NoTimer /\ deltaTime = 0
  /\ removed = {}

Updating == deltaTime > 0

-----------------------------------------------------------------------------
\* The last five fields are not in the code: what was asked for, how often the
\* handler has been called and whether it has thrown, and the time of the
\* frames that have come to the timer.
TimerObject(interval, repeatTimes, startTime) ==
  [interval |-> interval, repeatTimes |-> repeatTimes, startTime |-> startTime,
   sinceLastCbk |-> 0,
   repeats |-> repeatTimes, delay |-> startTime, fired |-> 0, threw |-> FALSE, age |-> 0]

AddTimer(interval, repeatTimes, startTime) ==
  /\ id < MaxTimers
  /\ id' = id + 1
  /\ dicTimerObjsToAdd' =
       [i \in DOMAIN dicTimerObjsToAdd \cup {id} |->
          IF i = id THEN TimerObject(interval, repeatTimes, startTime) ELSE dicTimerObjsToAdd[i]]
  /\ UNCHANGED <<dicTimerObjs, lstTimerToRemove, visiting, executing, deltaTime, removed>>

\* A duration is turned into a number of calls.
AddTimerFor(interval, duration, startTime) ==
  AddTimer(interval, duration \div interval, startTime)

\* Mutant: the timer is removed at once, under the loop of Update.
RemoveTimerAtOnce(i) ==
  /\ dicTimerObjs' = Restrict(dicTimerObjs, DOMAIN dicTimerObjs \ {i})
  /\ UNCHANGED <<id, dicTimerObjsToAdd, lstTimerToRemove, visiting, executing, deltaTime, removed>>

RemoveTimer(i) ==
  /\ lstTimerToRemove' = lstTimerToRemove \cup {i}
  /\ UNCHANGED <<id, dicTimerObjs, dicTimerObjsToAdd, visiting, executing, deltaTime, removed>>

-----------------------------------------------------------------------------
\* The timers of a set of ids, those to be added first.
TimersOf(ids) ==
  [i \in ids |-> IF i \in DOMAIN dicTimerObjsToAdd THEN dicTimerObjsToAdd[i] ELSE dicTimerObjs[i]]

\* Mutant: what is to be removed is removed before what is to be added is added.
MergedLate ==
  TimersOf(DOMAIN dicTimerObjsToAdd \cup (DOMAIN dicTimerObjs \ lstTimerToRemove))

Merged ==
  TimersOf((DOMAIN dicTimerObjsToAdd \cup DOMAIN dicTimerObjs) \ lstTimerToRemove)

\* Mutant: Update does nothing when there is no timer.
UpdateBeginsIdle(time) ==
  /\ ~Updating /\ deltaTime' = time
  /\ UNCHANGED <<id, executing>>
  /\ IF dicTimerObjs = NoTimers
     THEN UNCHANGED <<dicTimerObjs, dicTimerObjsToAdd, lstTimerToRemove, removed, visiting>>
     ELSE /\ dicTimerObjs' = Merged /\ dicTimerObjsToAdd' = NoTimers
          /\ lstTimerToRemove' = {} /\ removed' = removed \cup lstTimerToRemove
          /\ visiting' = DOMAIN dicTimerObjs'

\* Update up to its loop.
UpdateBegins(time) ==
  /\ ~Updating
  /\ dicTimerObjs' = Merged
  /\ dicTimerObjsToAdd' = NoTimers
  /\ lstTimerToRemove' = {}
  /\ removed' = removed \cup lstTimerToRemove
  /\ visiting' = DOMAIN dicTimerObjs'
  /\ deltaTime' = time
  /\ UNCHANGED <<id, executing>>

\* Mutant: a timer does not wait for its start.
AddTimeAtOnce(timer, time) ==
  [timer EXCEPT !.age = @ + time, !.sinceLastCbk = @ + time]

\* The countdown to the start is over when it is not positive, or as long as
\* the frame.
AddTime(timer, time) ==
  LET older == [timer EXCEPT !.age = @ + time]
  IN IF timer.startTime > 0 /\ timer.startTime # time
     THEN [older EXCEPT !.startTime = @ - time]
     ELSE [older EXCEPT !.sinceLastCbk = @ + time]

CanExecute(timer) == timer.sinceLastCbk > timer.interval

\* Mutant: a timer is over one call too late.
CanDestroyLate(timer) == timer.repeatTimes < 0

CanDestroy(timer) == timer.repeatTimes < 1

Executed(timer) ==
  [timer EXCEPT !.repeatTimes = @ - 1, !.sinceLastCbk = @ - timer.interval,
                !.fired = @ + 1]

\* The ids listed for removal when the loop leaves the timer of number i.
RemovalsWith(i, timer) ==
  IF CanDestroy(timer) THEN lstTimerToRemove \cup {i} ELSE lstTimerToRemove

\* The loop comes to a timer, in the order of the dictionary, whatever it is.
Visit(i) ==
  /\ Updating /\ executing = NoTimer /\ i \in visiting
  /\ visiting' = visiting \ {i}
  /\ LET timer == AddTime(dicTimerObjs[i], deltaTime)
     IN IF CanExecute(timer)
        THEN /\ dicTimerObjs' = [dicTimerObjs EXCEPT ![i] = Executed(timer)]
             /\ executing' = i
             /\ UNCHANGED lstTimerToRemove
        ELSE /\ dicTimerObjs' = [dicTimerObjs EXCEPT ![i] = timer]
             /\ lstTimerToRemove' = RemovalsWith(i, timer)
             /\ UNCHANGED executing
  /\ UNCHANGED <<id, dicTimerObjsToAdd, deltaTime, removed>>

TimerReturns ==
  /\ executing # NoTimer
  /\ lstTimerToRemove' = RemovalsWith(executing, dicTimerObjs[executing])
  /\ executing' = NoTimer
  /\ UNCHANGED <<id, dicTimerObjs, dicTimerObjsToAdd, visiting, deltaTime, removed>>

\* An exception leaves the handler, the loop and Update.
TimerThrows ==
  /\ executing # NoTimer
  /\ dicTimerObjs' = [dicTimerObjs EXCEPT ![executing].threw = TRUE]
  /\ executing' = NoTimer /\ visiting' = {}
  /\ UNCHANGED <<id, dicTimerObjsToAdd, lstTimerToRemove, deltaTime, removed>>

UpdateEnds ==
  /\ Updating /\ executing = NoTimer /\ visiting = {}
  /\ deltaTime' = 0
  /\ UNCHANGED <<id, dicTimerObjs, dicTimerObjsToAdd, lstTimerToRemove, visiting,
                 executing, removed>>

\* Release, when the game quits; the ids begin again.
TimerRelease ==
  /\ ~Updating
  /\ id' = 0
  /\ dicTimerObjs' = NoTimers /\ dicTimerObjsToAdd' = NoTimers
  /\ lstTimerToRemove' = {} /\ removed' = {}
  /\ UNCHANGED <<visiting, executing, deltaTime>>

-----------------------------------------------------------------------------
TimerObjects ==
  [interval : Intervals, repeatTimes : Int, startTime : Int, sinceLastCbk : Nat,
   repeats : Nat, delay : Delays, fired : Nat, threw : BOOLEAN, age : Nat]

(* A timer that a call to RemoveTimer, or its last call, has listed is gone    *)
(* with the next Update and never comes back: also a timer removed before the *)
(* Update that adds it, and one removed by its own handler. (It may still     *)
(* fire in the frame in which it is listed.)                                  *)
RemovedIsGone ==
  removed \cap (DOMAIN dicTimerObjs \cup DOMAIN dicTimerObjsToAdd) = {}

(* A timer calls its handler as often as it was asked to and no more, also     *)
(* when handlers add and remove timers or throw: only its own exception, and  *)
(* a repeat count of zero, make it one call more.                             *)
FiresAtMostItsTimes ==
  \A i \in DOMAIN dicTimerObjs :
    LET timer == dicTimerObjs[i]
    IN timer.threw \/ timer.fired <= timer.repeats \/ (timer.repeats = 0 /\ timer.fired = 1)

(* The n-th call of a timer comes after its delay and n intervals, but for one *)
(* frame, and no time of a frame is lost: the time since its first frame is    *)
(* the delay, the intervals paid for and what is left, to within a frame.     *)
KeepsTime ==
  \A i \in DOMAIN dicTimerObjs :
    LET timer == dicTimerObjs[i]
        run == timer.fired * timer.interval + timer.sinceLastCbk
    IN run > 0 => timer.age - timer.delay - run \in (-MaxDelta)..MaxDelta

=============================================================================
