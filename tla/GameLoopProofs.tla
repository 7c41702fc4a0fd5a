---------------------------- MODULE GameLoopProofs ----------------------------
(***************************************************************************)
(* For any events, handlers and timers, any depth of messages inside one     *)
(* another and whatever handlers and threads call, throw or let wait: timers *)
(* keep their count and their time, queued messages their order, and a       *)
(* message comes to its handlers once and in their order.                    *)
(***************************************************************************)
EXTENDS GameLoop, SequenceLemmas

(* The timers: every operation of Timer keeps their invariant.                *)

\* Calls are counted down, and the time that has come to a timer is what is
\* counted off its delay, what its calls have cost and what is left.
Accounts(timer) ==
  /\ timer \in TimerObjects
  /\ timer.repeatTimes = timer.repeats - timer.fired
  /\ timer.age - timer.delay - (timer.fired * timer.interval + timer.sinceLastCbk)
       = -timer.startTime
  /\ timer.startTime >= -MaxDelta
  /\ timer.fired * timer.interval + timer.sinceLastCbk > 0 => timer.startTime <= MaxDelta

IsNew(timer) == timer.fired = 0 /\ timer.sinceLastCbk = 0

MayFire(timer) == timer.threw \/ timer.repeatTimes >= 1 \/ timer.fired = 0
InBounds(timer) ==
  timer.threw \/ timer.fired <= timer.repeats \/ (timer.repeats = 0 /\ timer.fired = 1)

Collections ==
  /\ id \in Nat
  /\ DOMAIN dicTimerObjs \subseteq 0..(id - 1) /\ DOMAIN dicTimerObjsToAdd \subseteq 0..(id - 1)
  /\ lstTimerToRemove \subseteq 0..(id - 1) /\ removed \subseteq 0..(id - 1)
  /\ visiting \subseteq DOMAIN dicTimerObjs
  /\ executing = NoTimer \/ (executing \in DOMAIN dicTimerObjs /\ Updating)
  /\ deltaTime = 0 \/ deltaTime \in DeltaTimes
  /\ ~Updating => visiting = {}

\* A timer that is used up is listed for removal, or its last call still runs;
\* the loop comes to none that is.
Exact ==
  /\ \A i \in DOMAIN dicTimerObjs :
       /\ Accounts(dicTimerObjs[i]) /\ InBounds(dicTimerObjs[i])
       /\ MayFire(dicTimerObjs[i]) \/ executing = i \/ i \in lstTimerToRemove
  /\ \A i \in DOMAIN dicTimerObjsToAdd :
       Accounts(dicTimerObjsToAdd[i]) /\ IsNew(dicTimerObjsToAdd[i])
  /\ \A i \in visiting : MayFire(dicTimerObjs[i])
  /\ executing \notin visiting

TimerInv == Collections /\ RemovedIsGone /\ Exact

-----------------------------------------------------------------------------
(* A duration is a number of calls.                                          *)
LEMMA DurationIsCount ==
  ASSUME NEW duration \in Nat, NEW interval \in Nat \ {0}
  PROVE  duration \div interval \in Nat
  OBVIOUS

(* A new timer has its accounts in order.                                     *)
LEMMA NewAccounts ==
  ASSUME NEW interval \in Intervals, NEW times \in Nat, NEW delay \in Delays
  PROVE  LET timer == TimerObject(interval, times, delay)
         IN Accounts(timer) /\ IsNew(timer)
<1> DEFINE timer == TimerObject(interval, times, delay)
<1> USE TimesAssumption
<1>1. timer \in TimerObjects
  BY DEF TimerObject, TimerObjects
<1>2. timer.fired * timer.interval + timer.sinceLastCbk = 0
  BY DEF TimerObject
<1> QED
  BY <1>1, <1>2 DEF TimerObject, Accounts, IsNew

(* What the assignments to the fields of a timer leave is a timer.             *)
LEMMA AgeAssigned ==
  ASSUME NEW timer \in TimerObjects, NEW m \in Nat, NEW n \in Nat
  PROVE  [timer EXCEPT !.age = m, !.sinceLastCbk = n] \in TimerObjects
  BY DEF TimerObjects

LEMMA FieldsAssigned ==
  ASSUME NEW timer \in TimerObjects, NEW m \in Nat, NEW n \in Nat, NEW z \in Int
  PROVE  /\ [timer EXCEPT !.age = m, !.startTime = z] \in TimerObjects
         /\ [timer EXCEPT !.repeatTimes = z, !.sinceLastCbk = m, !.fired = n] \in TimerObjects
<1>1. [timer EXCEPT !.age = m, !.startTime = z] \in TimerObjects
  BY DEF TimerObjects
<1>2. [timer EXCEPT !.repeatTimes = z, !.sinceLastCbk = m, !.fired = n] \in TimerObjects
  BY DEF TimerObjects
<1> QED
  BY <1>1, <1>2

(* A handler that throws leaves the accounts as they are.                      *)
LEMMA ThrewAccounts ==
  ASSUME NEW timer, Accounts(timer)
  PROVE  LET t == [timer EXCEPT !.threw = TRUE]
         IN Accounts(t) /\ MayFire(t) /\ InBounds(t)
<1> DEFINE t == [timer EXCEPT !.threw = TRUE]
<1>1. timer \in TimerObjects
  BY DEF Accounts
<1>2. t \in TimerObjects
  BY <1>1 DEF TimerObjects
<1>3. /\ t.age = timer.age /\ t.fired = timer.fired /\ t.interval = timer.interval
      /\ t.repeats = timer.repeats /\ t.repeatTimes = timer.repeatTimes
      /\ t.delay = timer.delay /\ t.startTime = timer.startTime
      /\ t.sinceLastCbk = timer.sinceLastCbk /\ t.threw = TRUE
  BY <1>1 DEF TimerObjects
<1>4. Accounts(t) /\ MayFire(t) /\ InBounds(t)
  <2> HIDE DEF t
  <2> QED
    BY <1>2, <1>3 DEF Accounts, MayFire, InBounds
<1> QED
  BY <1>4

(* The time of a frame goes to the countdown or to the intervals.              *)
LEMMA AddTimeAccounts ==
  ASSUME NEW timer, Accounts(timer), NEW time \in DeltaTimes
  PROVE  LET t == AddTime(timer, time)
         IN /\ Accounts(t)
            /\ MayFire(timer) => MayFire(t)
            /\ InBounds(timer) => InBounds(t)
<1> DEFINE t == AddTime(timer, time)
           run == timer.fired * timer.interval
<1> USE TimesAssumption
<1>0. timer \in TimerObjects
  BY DEF Accounts
<1>1. /\ time \in Nat /\ time >= 1 /\ time <= MaxDelta /\ MaxDelta \in Nat
      /\ timer.interval \in Nat /\ timer.fired \in Nat /\ timer.delay \in Nat
  <2>1. timer.interval \in Intervals /\ timer.fired \in Nat /\ timer.delay \in Delays
    BY <1>0 DEF TimerObjects
  <2>2. time \in 1..MaxDelta /\ MaxDelta \in Nat
    OBVIOUS
  <2>3. timer.interval \in Nat /\ timer.delay \in Nat
    BY <2>1
  <2> QED
    BY <2>1, <2>2, <2>3
<1>2. run \in Nat
  BY <1>1
<1>5. /\ timer.age \in Nat /\ timer.startTime \in Int /\ timer.sinceLastCbk \in Nat
      /\ timer.age - timer.delay - (run + timer.sinceLastCbk) = -timer.startTime
      /\ timer.startTime >= -MaxDelta
      /\ run + timer.sinceLastCbk > 0 => timer.startTime <= MaxDelta
      /\ timer.repeatTimes = timer.repeats - timer.fired
  BY DEF Accounts, TimerObjects
<1>3. /\ t \in TimerObjects
      /\ t.age = timer.age + time /\ t.fired = timer.fired /\ t.interval = timer.interval
      /\ t.repeats = timer.repeats /\ t.repeatTimes = timer.repeatTimes
      /\ t.delay = timer.delay /\ t.threw = timer.threw
      /\ \/ /\ timer.startTime > 0 /\ timer.startTime # time
            /\ t.startTime = timer.startTime - time /\ t.sinceLastCbk = timer.sinceLastCbk
         \/ /\ timer.startTime <= 0 \/ timer.startTime = time
            /\ t.startTime = timer.startTime /\ t.sinceLastCbk = timer.sinceLastCbk + time
  <2>1. CASE timer.startTime > 0 /\ timer.startTime # time
    <3>1. t = [timer EXCEPT !.age = @ + time, !.startTime = @ - time]
      BY <2>1, <1>0 DEF AddTime, TimerObjects
    <3> DEFINE age == timer.age + time
               start == timer.startTime - time
    <3>2. [timer EXCEPT !.age = age, !.startTime = start] \in TimerObjects
      <4>1. age \in Nat /\ start \in Int
        BY <1>1, <1>5
      <4> HIDE DEF age, start
      <4> QED
        BY <1>0, <4>1, FieldsAssigned
    <3>3. /\ t.age = timer.age + time /\ t.fired = timer.fired /\ t.interval = timer.interval
          /\ t.repeats = timer.repeats /\ t.repeatTimes = timer.repeatTimes
          /\ t.delay = timer.delay /\ t.threw = timer.threw
          /\ t.startTime = timer.startTime - time /\ t.sinceLastCbk = timer.sinceLastCbk
      BY <1>0, <3>1 DEF TimerObjects
    <3> QED
      BY <2>1, <3>1, <3>2, <3>3
  <2>2. CASE ~(timer.startTime > 0 /\ timer.startTime # time)
    <3>1. t = [timer EXCEPT !.age = @ + time, !.sinceLastCbk = @ + time]
      BY <2>2, <1>0 DEF AddTime, TimerObjects
    <3> DEFINE age == timer.age + time
               since == timer.sinceLastCbk + time
    <3>2. [timer EXCEPT !.age = age, !.sinceLastCbk = since] \in TimerObjects
      <4>1. age \in Nat /\ since \in Nat
        BY <1>1, <1>5
      <4> HIDE DEF age, since
      <4> QED
        BY <1>0, <4>1, AgeAssigned
    <3>3. /\ t.age = timer.age + time /\ t.fired = timer.fired /\ t.interval = timer.interval
          /\ t.repeats = timer.repeats /\ t.repeatTimes = timer.repeatTimes
          /\ t.delay = timer.delay /\ t.threw = timer.threw
          /\ t.startTime = timer.startTime /\ t.sinceLastCbk = timer.sinceLastCbk + time
      BY <1>0, <3>1 DEF TimerObjects
    <3> QED
      BY <2>2, <3>1, <3>2, <3>3, <1>5
  <2> QED
    BY <2>1, <2>2
<1>4. t.fired * t.interval = run
  BY <1>3
<1>6. /\ t.age - t.delay - (run + t.sinceLastCbk) = -t.startTime
      /\ t.startTime >= -MaxDelta
      /\ run + t.sinceLastCbk > 0 => t.startTime <= MaxDelta
  <2> HIDE DEF run, t
  <2> QED
    BY <1>1, <1>2, <1>3, <1>5
<1>7. Accounts(t)
  <2> HIDE DEF t
  <2> QED
    BY <1>3, <1>4, <1>5, <1>6 DEF Accounts
<1>8. (MayFire(timer) => MayFire(t)) /\ (InBounds(timer) => InBounds(t))
  <2> HIDE DEF t
  <2> QED
    BY <1>3 DEF MayFire, InBounds
<1> QED
  BY <1>7, <1>8

(* A call pays one interval and counts once.                                  *)
LEMMA ExecutedAccounts ==
  ASSUME NEW timer, Accounts(timer), CanExecute(timer)
  PROVE  LET t == Executed(timer)
         IN Accounts(t) /\ (MayFire(timer) /\ InBounds(timer) => InBounds(t))
<1> DEFINE t == Executed(timer)
           run == timer.fired * timer.interval
<1> USE TimesAssumption
<1>0. timer \in TimerObjects
  BY DEF Accounts
<1>1. /\ timer.interval \in Nat /\ timer.fired \in Nat /\ timer.sinceLastCbk \in Nat
      /\ timer.repeats \in Nat /\ timer.repeatTimes = timer.repeats - timer.fired
      /\ timer.sinceLastCbk > timer.interval
  BY DEF Accounts, TimerObjects, CanExecute
<1>2. /\ t \in TimerObjects
      /\ t.age = timer.age /\ t.fired = timer.fired + 1 /\ t.interval = timer.interval
      /\ t.repeats = timer.repeats /\ t.repeatTimes = timer.repeatTimes - 1
      /\ t.delay = timer.delay /\ t.threw = timer.threw /\ t.startTime = timer.startTime
      /\ t.sinceLastCbk = timer.sinceLastCbk - timer.interval
  <2> DEFINE left == timer.sinceLastCbk - timer.interval
  <2>1. left \in Nat /\ timer.repeatTimes - 1 \in Int /\ timer.fired + 1 \in Nat
    BY <1>1
  <2>2. t = [timer EXCEPT !.repeatTimes = timer.repeatTimes - 1, !.sinceLastCbk = left,
                         !.fired = timer.fired + 1]
    BY <1>0 DEF TimerObjects, Executed
  <2>3. t \in TimerObjects
    <3> HIDE DEF left, t
    <3> QED
      BY <1>0, <2>1, <2>2, FieldsAssigned
  <2> QED
    BY <1>0, <2>2, <2>3 DEF TimerObjects
<1>3. t.fired * t.interval = run + timer.interval
  <2>1. (timer.fired + 1) * timer.interval = timer.fired * timer.interval + timer.interval
    BY <1>1
  <2> QED
    BY <1>2, <2>1
<1>4. run \in Nat
  BY <1>1
<1>5. t.fired * t.interval + t.sinceLastCbk = run + timer.sinceLastCbk
  <2> HIDE DEF run, t
  <2> QED
    BY <1>1, <1>2, <1>3, <1>4
<1>6. t.repeatTimes = t.repeats - t.fired
  <2> HIDE DEF t
  <2> QED
    BY <1>1, <1>2
<1>7. Accounts(t)
  <2>1. /\ timer.age - timer.delay - (run + timer.sinceLastCbk) = -timer.startTime
        /\ timer.startTime >= -MaxDelta
        /\ run + timer.sinceLastCbk > 0 => timer.startTime <= MaxDelta
    BY DEF Accounts
  <2> HIDE DEF t
  <2> QED
    BY <1>2, <1>5, <1>6, <2>1 DEF Accounts
<1>8. MayFire(timer) /\ InBounds(timer) => InBounds(t)
  <2> HIDE DEF t
  <2> QED
    BY <1>1, <1>2 DEF MayFire, InBounds
<1> QED
  BY <1>7, <1>8

-----------------------------------------------------------------------------
LEMMA TimerInitInv == TimerInit => TimerInv
<1> SUFFICES ASSUME TimerInit PROVE TimerInv
  OBVIOUS
<1>1. DOMAIN NoTimers = {}
  BY DEF NoTimers
<1> QED
  BY <1>1, TimesAssumption
     DEF TimerInit, TimerInv, Collections, RemovedIsGone, Exact, Updating

(* AddTimer: the id is new.                                                   *)
LEMMA AddTimerInv ==
  ASSUME TimerInv, NEW interval \in Intervals, NEW times \in Nat, NEW delay \in Delays,
         AddTimer(interval, times, delay)
  PROVE  TimerInv'
<1> DEFINE timer == TimerObject(interval, times, delay)
<1>1. Accounts(timer) /\ IsNew(timer)
  BY NewAccounts
<1>2. /\ id' = id + 1 /\ DOMAIN dicTimerObjsToAdd' = DOMAIN dicTimerObjsToAdd \cup {id}
      /\ dicTimerObjsToAdd'[id] = timer
      /\ \A i \in DOMAIN dicTimerObjsToAdd \ {id} : dicTimerObjsToAdd'[i] = dicTimerObjsToAdd[i]
      /\ UNCHANGED <<dicTimerObjs, lstTimerToRemove, visiting, executing, deltaTime, removed>>
  BY DEF AddTimer
<1>3. id \in Nat /\ \A i \in 0..(id - 1) : i \in 0..(id' - 1) /\ i # id
  BY <1>2 DEF TimerInv, Collections
<1>4. Collections'
  BY <1>2, <1>3 DEF TimerInv, Collections, Updating
<1>5. RemovedIsGone'
  BY <1>2, <1>3 DEF TimerInv, Collections, RemovedIsGone
<1>6. Exact'
  <2> HIDE DEF timer
  <2> QED
    BY <1>1, <1>2, <1>3 DEF TimerInv, Exact
<1> QED
  BY <1>4, <1>5, <1>6 DEF TimerInv

LEMMA AddTimerForInv ==
  ASSUME TimerInv, NEW interval \in Intervals, NEW duration \in Durations, NEW delay \in Delays,
         AddTimerFor(interval, duration, delay)
  PROVE  TimerInv'
<1>1. duration \div interval \in Nat
  BY TimesAssumption, DurationIsCount
<1> QED
  BY <1>1, AddTimerInv DEF AddTimerFor

LEMMA RemoveTimerInv ==
  ASSUME TimerInv, NEW i \in 0..(id - 1), RemoveTimer(i)
  PROVE  TimerInv'
  BY DEF RemoveTimer, TimerInv, Collections, RemovedIsGone, Exact, Updating

(* Update: whom the loop will come to has calls left.                         *)
LEMMA UpdateBeginsInv ==
  ASSUME TimerInv, NEW time \in DeltaTimes, UpdateBegins(time)
  PROVE  TimerInv'
<1> DEFINE ids == (DOMAIN dicTimerObjsToAdd \cup DOMAIN dicTimerObjs) \ lstTimerToRemove
<1>1. /\ ~Updating /\ deltaTime' = time
      /\ DOMAIN dicTimerObjs' = ids /\ visiting' = ids
      /\ \A i \in ids : dicTimerObjs'[i] =
           IF i \in DOMAIN dicTimerObjsToAdd THEN dicTimerObjsToAdd[i] ELSE dicTimerObjs[i]
      /\ lstTimerToRemove' = {} /\ removed' = removed \cup lstTimerToRemove
      /\ UNCHANGED <<id, executing>>
  BY DEF UpdateBegins, Merged, TimersOf
<1>2. DOMAIN dicTimerObjsToAdd' = {}
  BY DEF UpdateBegins, NoTimers
<1>3. executing = NoTimer /\ time > 0 /\ Updating'
  BY <1>1, TimesAssumption DEF TimerInv, Collections, Updating
<1>4. id \in Nat /\ ids \subseteq 0..(id - 1) /\ NoTimer \notin ids
  BY DEF TimerInv, Collections, NoTimer
<1>5. \A i \in ids : Accounts(dicTimerObjs'[i]) /\ InBounds(dicTimerObjs'[i]) /\ MayFire(dicTimerObjs'[i])
  <2> TAKE i \in ids
  <2>1. CASE i \in DOMAIN dicTimerObjsToAdd
    <3>1. Accounts(dicTimerObjsToAdd[i]) /\ IsNew(dicTimerObjsToAdd[i])
      BY <2>1 DEF TimerInv, Exact
    <3>2. InBounds(dicTimerObjsToAdd[i]) /\ MayFire(dicTimerObjsToAdd[i])
      BY <3>1 DEF Accounts, TimerObjects, IsNew, InBounds, MayFire
    <3> QED
      BY <1>1, <2>1, <3>1, <3>2
  <2>2. CASE i \notin DOMAIN dicTimerObjsToAdd
    <3>1. i \in DOMAIN dicTimerObjs /\ i # executing /\ i \notin lstTimerToRemove
      BY <1>3, <1>4, <2>2
    <3> QED
      BY <1>1, <2>2, <3>1 DEF TimerInv, Exact
  <2> QED
    BY <2>1, <2>2
<1>6. Collections'
  BY <1>1, <1>2, <1>3, <1>4 DEF TimerInv, Collections
<1>7. RemovedIsGone'
  BY <1>1, <1>2 DEF TimerInv, RemovedIsGone
<1>8. Exact'
  BY <1>1, <1>2, <1>3, <1>4, <1>5 DEF Exact
<1> QED
  BY <1>6, <1>7, <1>8 DEF TimerInv

(* One timer of the loop, up to its handler.                                  *)
LEMMA VisitInv ==
  ASSUME TimerInv, NEW i \in visiting, Visit(i)
  PROVE  TimerInv'
<1> DEFINE older == AddTime(dicTimerObjs[i], deltaTime)
<1>1. /\ i \in DOMAIN dicTimerObjs /\ deltaTime \in DeltaTimes /\ executing = NoTimer /\ Updating
      /\ id \in Nat /\ NoTimer \notin DOMAIN dicTimerObjs /\ i \in 0..(id - 1)
  BY DEF TimerInv, Collections, Visit, Updating, NoTimer
<1>2. /\ Accounts(dicTimerObjs[i]) /\ MayFire(dicTimerObjs[i]) /\ InBounds(dicTimerObjs[i])
  BY <1>1 DEF TimerInv, Exact
<1>3. Accounts(older) /\ MayFire(older) /\ InBounds(older)
  BY <1>1, <1>2, AddTimeAccounts
<1>4. /\ visiting' = visiting \ {i}
      /\ UNCHANGED <<id, dicTimerObjsToAdd, deltaTime, removed>>
      /\ \/ /\ CanExecute(older)
            /\ dicTimerObjs' = [dicTimerObjs EXCEPT ![i] = Executed(older)]
            /\ executing' = i /\ lstTimerToRemove' = lstTimerToRemove
         \/ /\ dicTimerObjs' = [dicTimerObjs EXCEPT ![i] = older]
            /\ lstTimerToRemove' = RemovalsWith(i, older) /\ executing' = executing
  BY DEF Visit
<1>5. PICK timer : /\ dicTimerObjs' = [dicTimerObjs EXCEPT ![i] = timer]
                   /\ Accounts(timer) /\ InBounds(timer)
                   /\ \/ executing' = i /\ lstTimerToRemove' = lstTimerToRemove
                      \/ /\ executing' = NoTimer
                         /\ lstTimerToRemove' \in {lstTimerToRemove, lstTimerToRemove \cup {i}}
                         /\ MayFire(timer) \/ i \in lstTimerToRemove'
  <2> HIDE DEF older
  <2>1. CASE executing' = i
    <3>1. CASE CanExecute(older) /\ dicTimerObjs' = [dicTimerObjs EXCEPT ![i] = Executed(older)]
                 /\ lstTimerToRemove' = lstTimerToRemove
      <4>1. Accounts(Executed(older)) /\ InBounds(Executed(older))
        BY <1>3, <3>1, ExecutedAccounts
      <4> QED
        BY <2>1, <3>1, <4>1
    <3> QED
      BY <1>1, <1>4, <2>1, <3>1
  <2>2. CASE executing' # i
    <3>1. /\ dicTimerObjs' = [dicTimerObjs EXCEPT ![i] = older] /\ executing' = NoTimer
          /\ lstTimerToRemove' \in {lstTimerToRemove, lstTimerToRemove \cup {i}}
      BY <1>1, <1>4, <2>2 DEF RemovalsWith
    <3> QED
      BY <1>3, <3>1
  <2> QED
    BY <2>1, <2>2
<1>6. /\ DOMAIN dicTimerObjs' = DOMAIN dicTimerObjs /\ dicTimerObjs'[i] = timer
      /\ \A j \in DOMAIN dicTimerObjs \ {i} : dicTimerObjs'[j] = dicTimerObjs[j]
  BY <1>1, <1>5
<1>7. lstTimerToRemove \subseteq lstTimerToRemove' /\ lstTimerToRemove' \subseteq 0..(id - 1)
  BY <1>1, <1>5 DEF TimerInv, Collections
<1>8. Collections'
  BY <1>1, <1>4, <1>5, <1>6, <1>7 DEF TimerInv, Collections, Updating
<1>9. RemovedIsGone'
  BY <1>4, <1>6 DEF TimerInv, RemovedIsGone
<1>10. Exact'
  BY <1>1, <1>4, <1>5, <1>6, <1>7 DEF TimerInv, Exact, Collections
<1> QED
  BY <1>8, <1>9, <1>10 DEF TimerInv

LEMMA TimerReturnsInv ==
  ASSUME TimerInv, TimerReturns
  PROVE  TimerInv'
<1> DEFINE timer == dicTimerObjs[executing]
<1>1. /\ executing \in DOMAIN dicTimerObjs /\ Updating /\ executing' = NoTimer
      /\ lstTimerToRemove' = RemovalsWith(executing, timer)
      /\ UNCHANGED <<id, dicTimerObjs, dicTimerObjsToAdd, visiting, deltaTime, removed>>
      /\ id \in Nat /\ executing \in 0..(id - 1) /\ NoTimer \notin DOMAIN dicTimerObjs
  BY DEF TimerInv, Collections, TimerReturns, NoTimer
<1>2. /\ lstTimerToRemove \subseteq lstTimerToRemove' /\ lstTimerToRemove' \subseteq 0..(id - 1)
      /\ executing \in lstTimerToRemove' \/ MayFire(timer)
  <2>1. Accounts(timer)
    BY <1>1 DEF TimerInv, Exact
  <2>2. CASE CanDestroy(timer)
    BY <1>1, <2>2 DEF TimerInv, Collections, RemovalsWith
  <2>3. CASE ~CanDestroy(timer)
    BY <1>1, <2>1, <2>3 DEF TimerInv, Collections, RemovalsWith, CanDestroy, MayFire, Accounts, TimerObjects
  <2> QED
    BY <2>2, <2>3
<1>3. Collections'
  BY <1>1, <1>2 DEF TimerInv, Collections, Updating
<1>4. RemovedIsGone'
  BY <1>1 DEF TimerInv, RemovedIsGone
<1>5. Exact'
  BY <1>1, <1>2 DEF TimerInv, Exact, Collections
<1> QED
  BY <1>3, <1>4, <1>5 DEF TimerInv

LEMMA TimerThrowsInv ==
  ASSUME TimerInv, TimerThrows
  PROVE  TimerInv'
<1> DEFINE timer == [dicTimerObjs[executing] EXCEPT !.threw = TRUE]
<1>1. /\ executing \in DOMAIN dicTimerObjs /\ Updating /\ executing' = NoTimer /\ visiting' = {}
      /\ dicTimerObjs' = [dicTimerObjs EXCEPT ![executing] = timer]
      /\ UNCHANGED <<id, dicTimerObjsToAdd, lstTimerToRemove, deltaTime, removed>>
  BY DEF TimerInv, Collections, TimerThrows
<1>2. Accounts(timer) /\ MayFire(timer) /\ InBounds(timer)
  <2>1. Accounts(dicTimerObjs[executing])
    BY <1>1 DEF TimerInv, Exact
  <2> QED
    BY <2>1, ThrewAccounts
<1> HIDE DEF timer
<1>3. /\ DOMAIN dicTimerObjs' = DOMAIN dicTimerObjs /\ dicTimerObjs'[executing] = timer
      /\ \A j \in DOMAIN dicTimerObjs \ {executing} : dicTimerObjs'[j] = dicTimerObjs[j]
  BY <1>1
<1>4. Collections'
  BY <1>1, <1>3 DEF TimerInv, Collections, Updating
<1>5. RemovedIsGone'
  BY <1>1, <1>3 DEF TimerInv, RemovedIsGone
<1>6. Exact'
  BY <1>1, <1>2, <1>3 DEF TimerInv, Exact, Collections
<1> QED
  BY <1>4, <1>5, <1>6 DEF TimerInv

LEMMA UpdateEndsInv ==
  ASSUME TimerInv, UpdateEnds
  PROVE  TimerInv'
  BY DEF UpdateEnds, TimerInv, Collections, RemovedIsGone, Exact, Updating

LEMMA TimerReleaseInv ==
  ASSUME TimerInv, TimerRelease
  PROVE  TimerInv'
<1>1. DOMAIN NoTimers = {}
  BY DEF NoTimers
<1> QED
  BY <1>1 DEF TimerRelease, TimerInv, Collections, RemovedIsGone, Exact, Updating

(* A used-up timer is within its calls, and its accounts keep the time.        *)
LEMMA TimerInvImplies == TimerInv => RemovedIsGone /\ FiresAtMostItsTimes /\ KeepsTime
<1> SUFFICES ASSUME TimerInv PROVE RemovedIsGone /\ FiresAtMostItsTimes /\ KeepsTime
  OBVIOUS
<1>1. FiresAtMostItsTimes
  BY DEF TimerInv, Exact, FiresAtMostItsTimes, InBounds
<1>2. KeepsTime
  <2> SUFFICES ASSUME NEW i \in DOMAIN dicTimerObjs,
                      dicTimerObjs[i].fired * dicTimerObjs[i].interval + dicTimerObjs[i].sinceLastCbk > 0
               PROVE  dicTimerObjs[i].age - dicTimerObjs[i].delay
                        - (dicTimerObjs[i].fired * dicTimerObjs[i].interval + dicTimerObjs[i].sinceLastCbk)
                        \in (-MaxDelta)..MaxDelta
    BY DEF KeepsTime
  <2>1. Accounts(dicTimerObjs[i])
    BY DEF TimerInv, Exact
  <2>2. /\ dicTimerObjs[i].startTime \in Int /\ dicTimerObjs[i].startTime >= -MaxDelta
        /\ dicTimerObjs[i].startTime <= MaxDelta
        /\ dicTimerObjs[i].age - dicTimerObjs[i].delay
             - (dicTimerObjs[i].fired * dicTimerObjs[i].interval + dicTimerObjs[i].sinceLastCbk)
             = -dicTimerObjs[i].startTime
    BY <2>1 DEF Accounts, TimerObjects
  <2> QED
    BY <2>2, TimesAssumption
<1> QED
  BY <1>1, <1>2 DEF TimerInv

-----------------------------------------------------------------------------
(* The dispatcher: every operation of EventDispatcher keeps the order of the  *)
(* queue, and the loops under way in step with the lists they walk over.      *)

Messages == [event : Events, number : Nat]

DispatcherInv ==
  /\ eventTable \in [Events -> Seq(Handlers)]
  /\ receiveEventQueue \in Seq(Messages)
  /\ coroutine \in {"waiting", "draining", "dead"}
  /\ sent \in Nat /\ handled \in Nat
  /\ AsyncInOrder

-----------------------------------------------------------------------------
LEMMA RegisteredTyped ==
  ASSUME NEW s \in Seq(Handlers), NEW h \in Handlers
  PROVE  Registered(s, h) \in Seq(Handlers)
  BY AppendProperties DEF Registered

-----------------------------------------------------------------------------
LEMMA DispatcherInitInv == DispatcherInit => DispatcherInv
<1> SUFFICES ASSUME DispatcherInit PROVE DispatcherInv
  OBVIOUS
<1>1. <<>> \in Seq(Handlers) /\ <<>> \in Seq(Messages) /\ Len(<<>>) = 0
  BY EmptySeq
<1>2. DOMAIN receiveEventQueue = {}
  BY <1>1, LenProperties DEF DispatcherInit
<1> QED
  BY <1>1, <1>2 DEF DispatcherInit, DispatcherInv, AsyncInOrder

LEMMA RegisterInv ==
  ASSUME DispatcherInv, NEW e \in Events, NEW h \in Handlers,
         RegisterEventHandler(e, h) \/ UnRegisterEventHandler(e, h)
  PROVE  DispatcherInv'
<1>1. eventTable[e] \in Seq(Handlers)
  BY DEF DispatcherInv
<1>2. Registered(eventTable[e], h) \in Seq(Handlers) /\ RemoveFirst(eventTable[e], h) \in Seq(Handlers)
  BY <1>1, RegisteredTyped, RemoveFirstTyped
<1>3. PICK handlers \in Seq(Handlers) : eventTable' = [eventTable EXCEPT ![e] = handlers]
  BY <1>2 DEF RegisterEventHandler, UnRegisterEventHandler
<1>4. UNCHANGED <<receiveEventQueue, coroutine, sent, handled>>
  BY DEF RegisterEventHandler, UnRegisterEventHandler
<1> QED
  BY <1>3, <1>4 DEF DispatcherInv, AsyncInOrder

LEMMA AsyncInv ==
  ASSUME DispatcherInv, NEW e \in Events, DispatchMessageAsync(e)
  PROVE  DispatcherInv'
<1> DEFINE message == [event |-> e, number |-> sent + 1]
<1>1. /\ sent \in Nat /\ handled \in Nat /\ receiveEventQueue \in Seq(Messages)
      /\ Len(receiveEventQueue) \in Nat /\ handled + Len(receiveEventQueue) = sent
      /\ DOMAIN receiveEventQueue = 1..Len(receiveEventQueue)
      /\ \A k \in 1..Len(receiveEventQueue) : receiveEventQueue[k].number = handled + k
  BY LenProperties DEF DispatcherInv, AsyncInOrder
<1>2. /\ message \in Messages /\ message.number = sent + 1
      /\ receiveEventQueue' = Append(receiveEventQueue, message) /\ sent' = sent + 1
      /\ UNCHANGED <<eventTable, coroutine, handled>>
  BY <1>1 DEF DispatchMessageAsync, Messages
<1> HIDE DEF message
<1>3. /\ receiveEventQueue' \in Seq(Messages) /\ Len(receiveEventQueue') = Len(receiveEventQueue) + 1
      /\ \A k \in 1..Len(receiveEventQueue) : receiveEventQueue'[k] = receiveEventQueue[k]
      /\ receiveEventQueue'[Len(receiveEventQueue) + 1] = message
      /\ DOMAIN receiveEventQueue' = 1..(Len(receiveEventQueue) + 1)
  BY <1>1, <1>2, AppendProperties, LenProperties
<1>4. AsyncInOrder'
  <2>1. handled' + Len(receiveEventQueue') = sent'
    BY <1>1, <1>2, <1>3
  <2>2. ASSUME NEW k \in 1..(Len(receiveEventQueue) + 1)
        PROVE  receiveEventQueue'[k].number = handled + k
    <3>1. CASE k \in 1..Len(receiveEventQueue)
      BY <1>1, <1>3, <3>1
    <3>2. CASE k = Len(receiveEventQueue) + 1
      <4>1. receiveEventQueue'[k] = message
        BY <1>3, <3>2
      <4> QED
        BY <1>1, <1>2, <3>2, <4>1
    <3> QED
      BY <1>1, <3>1, <3>2
  <2> QED
    BY <1>2, <1>3, <2>1, <2>2 DEF AsyncInOrder
<1> QED
  BY <1>1, <1>2, <1>3, <1>4 DEF DispatcherInv

LEMMA TakeInv ==
  ASSUME DispatcherInv, Take
  PROVE  DispatcherInv'
<1>1. /\ sent \in Nat /\ handled \in Nat /\ receiveEventQueue \in Seq(Messages)
      /\ receiveEventQueue # <<>>
      /\ Len(receiveEventQueue) \in Nat \ {0} /\ handled + Len(receiveEventQueue) = sent
      /\ DOMAIN receiveEventQueue = 1..Len(receiveEventQueue)
      /\ \A k \in 1..Len(receiveEventQueue) : receiveEventQueue[k].number = handled + k
  BY LenProperties, EmptySeq DEF DispatcherInv, AsyncInOrder, Take
<1>2. /\ handled' = Head(receiveEventQueue).number
      /\ receiveEventQueue' = Tail(receiveEventQueue)
      /\ UNCHANGED <<eventTable, coroutine, sent>>
  BY DEF Take
<1>3. Head(receiveEventQueue) = receiveEventQueue[1]
  BY <1>1
<1>4. handled' = handled + 1
  BY <1>1, <1>2, <1>3
<1>5. /\ receiveEventQueue' \in Seq(Messages) /\ Len(receiveEventQueue') = Len(receiveEventQueue) - 1
      /\ \A k \in 1..(Len(receiveEventQueue) - 1) : receiveEventQueue'[k] = receiveEventQueue[k + 1]
      /\ DOMAIN receiveEventQueue' = 1..(Len(receiveEventQueue) - 1)
  <2>1. /\ receiveEventQueue' \in Seq(Messages) /\ Len(receiveEventQueue') = Len(receiveEventQueue) - 1
        /\ \A k \in 1..Len(Tail(receiveEventQueue)) :
             Tail(receiveEventQueue)[k] = receiveEventQueue[k + 1]
    BY <1>1, <1>2, HeadTailProperties
  <2>2. DOMAIN receiveEventQueue' = 1..Len(receiveEventQueue')
    BY <2>1, LenProperties
  <2> QED
    BY <1>2, <2>1, <2>2
<1>6. AsyncInOrder'
  <2>1. handled' + Len(receiveEventQueue') = sent'
    BY <1>1, <1>2, <1>4, <1>5, SMTT(30)
  <2>2. ASSUME NEW k \in 1..(Len(receiveEventQueue) - 1)
        PROVE  receiveEventQueue'[k].number = handled' + k
    <3>1. k + 1 \in 1..Len(receiveEventQueue) /\ k \in Nat
      BY <1>1
    <3> QED
      BY <1>1, <1>4, <1>5, <3>1
  <2> QED
    BY <1>5, <2>1, <2>2 DEF AsyncInOrder
<1>7. handled' \in Nat
  BY <1>1, <1>4
<1> QED
  BY <1>1, <1>2, <1>5, <1>6, <1>7 DEF DispatcherInv

(* The operations that touch neither the handlers nor the queue.               *)
LEMMA OtherDispatcherInv ==
  ASSUME DispatcherInv,
         \/ \E e \in Events : DispatchMessage(e)
         \/ HandlerReturns \/ LoopsUnwind \/ Resume \/ Yield
         \/ UNCHANGED dispatcherVars
  PROVE  DispatcherInv'
  BY DEF DispatcherInv, AsyncInOrder, DispatchMessage, HandlerReturns, LoopsUnwind, Resume, Yield,
     dispatcherVars

-----------------------------------------------------------------------------
Loops == [event : Events, index : Nat \ {0}, heard : Seq(Handlers), disturbed : BOOLEAN]

(* What a loop under way knows of the list it walks over. That the handlers   *)
(* it has called stand no farther than its place is why the next is a new one.*)
Follows(loop, list) ==
  /\ IsInjective(loop.heard)
  /\ \A i \in 1..Len(loop.heard) : \E p \in 1..Len(list) :
       p <= loop.index /\ list[p] = loop.heard[i]
  /\ \/ loop.disturbed
     \/ /\ Len(loop.heard) = loop.index /\ loop.index <= Len(list)
        /\ \A i \in 1..loop.index : loop.heard[i] = list[i]

LoopsInv ==
  /\ \A e \in Events : IsInjective(eventTable[e])
  /\ dispatches \in Seq(Loops)
  /\ \A k \in 1..Len(dispatches) : Follows(dispatches[k], eventTable[dispatches[k].event])

(* A handler added at the end disturbs no loop.                                *)
LEMMA RegisteredFollows ==
  ASSUME NEW list \in Seq(Handlers), IsInjective(list), NEW h \in Handlers
  PROVE  /\ IsInjective(Registered(list, h))
         /\ \A loop \in Loops : Follows(loop, list) => Follows(loop, Registered(list, h))
<1>0. Len(list) \in Nat /\ DOMAIN list = 1..Len(list)
  BY LenProperties
<1>1. CASE Contains(list, h)
  BY <1>1 DEF Registered
<1>2. CASE ~Contains(list, h)
  <2> DEFINE new == Append(list, h)
  <2>1. Registered(list, h) = new
    BY <1>2 DEF Registered
  <2>2. \A i \in 1..Len(list) : list[i] # h
    BY <1>2 DEF Contains
  <2>3. /\ Len(new) = Len(list) + 1 /\ DOMAIN new = 1..(Len(list) + 1)
        /\ \A i \in 1..Len(list) : new[i] = list[i]
        /\ new[Len(list) + 1] = h
    BY <1>0, AppendProperties, LenProperties
  <2> HIDE DEF new
  <2>4. IsInjective(new)
    BY <1>0, <2>2, <2>3 DEF IsInjective
  <2>5. ASSUME NEW loop \in Loops, Follows(loop, list) PROVE Follows(loop, new)
    <3>1. loop.index \in Nat /\ loop.index >= 1
      BY DEF Loops
    <3>2. ASSUME NEW i \in 1..Len(loop.heard)
          PROVE  \E p \in 1..Len(new) : p <= loop.index /\ new[p] = loop.heard[i]
      <4>1. PICK p \in 1..Len(list) : p <= loop.index /\ list[p] = loop.heard[i]
        BY <2>5 DEF Follows
      <4>2. p \in 1..Len(new) /\ new[p] = loop.heard[i]
        BY <1>0, <2>3, <4>1
      <4> QED
        BY <4>1, <4>2
    <3>3. ASSUME ~loop.disturbed
          PROVE  /\ Len(loop.heard) = loop.index /\ loop.index <= Len(new)
                 /\ \A i \in 1..loop.index : loop.heard[i] = new[i]
      <4>1. /\ Len(loop.heard) = loop.index /\ loop.index <= Len(list)
            /\ \A i \in 1..loop.index : loop.heard[i] = list[i]
        BY <2>5, <3>3 DEF Follows
      <4> QED
        BY <1>0, <2>3, <3>1, <4>1
    <3> QED
      BY <2>5, <3>2, <3>3 DEF Follows
  <2> QED
    BY <2>1, <2>4, <2>5
<1> QED
  BY <1>1, <1>2

(* The list without h and the loop without h are in step: what stood behind h *)
(* comes one place nearer.                                                   *)
LEMMA RemovedFollows ==
  ASSUME NEW list \in Seq(Handlers), IsInjective(list), NEW h \in Handlers
  PROVE  /\ IsInjective(RemoveFirst(list, h))
         /\ \A loop \in Loops :
              Follows(loop, list) =>
                Follows([loop EXCEPT
                           !.heard = RemoveFirst(@, h),
                           !.disturbed = @ \/ Contains(SubSeq(list, 1, loop.index), h)],
                        RemoveFirst(list, h))
<1> DEFINE new == RemoveFirst(list, h)
<1>0. Len(list) \in Nat /\ DOMAIN list = 1..Len(list)
  BY LenProperties
<1>1. CASE \A i \in 1..Len(list) : list[i] # h
  <2>1. new = list
    BY <1>1, RemoveFirstAbsent
  <2>2. ASSUME NEW loop \in Loops, Follows(loop, list)
        PROVE  Follows([loop EXCEPT
                          !.heard = RemoveFirst(@, h),
                          !.disturbed = @ \/ Contains(SubSeq(list, 1, loop.index), h)], list)
    <3> DEFINE later == [loop EXCEPT
                           !.heard = RemoveFirst(@, h),
                           !.disturbed = @ \/ Contains(SubSeq(list, 1, loop.index), h)]
    <3>1. \A i \in 1..Len(loop.heard) : loop.heard[i] # h
      BY <1>1, <2>2 DEF Follows
    <3>2. later.heard = loop.heard /\ later.index = loop.index
      BY <3>1, RemoveFirstAbsent DEF Loops
    <3>3. loop.disturbed => later.disturbed
      BY DEF Loops
    <3> HIDE DEF later
    <3>4. Follows(later, list)
      BY <2>2, <3>2, <3>3 DEF Follows
    <3> QED
      BY <3>4 DEF later
  <2> QED
    BY <2>1, <2>2
<1>2. CASE \E i \in 1..Len(list) : list[i] = h
  <2>1. PICK q \in 1..Len(list) :
          /\ list[q] = h /\ new \in Seq(Handlers) /\ Len(new) = Len(list) - 1
          /\ \A i \in 1..(Len(list) - 1) : new[i] = IF i < q THEN list[i] ELSE list[i + 1]
    BY <1>2, RemoveFirstEffect
  <2>3. IsInjective(new)
    BY RemoveFirstInjective
  <2> HIDE DEF new
  <2>4. ASSUME NEW loop \in Loops, Follows(loop, list)
        PROVE  Follows([loop EXCEPT
                          !.heard = RemoveFirst(@, h),
                          !.disturbed = @ \/ Contains(SubSeq(list, 1, loop.index), h)], new)
    <3> DEFINE left == RemoveFirst(loop.heard, h)
               later == [loop EXCEPT
                           !.heard = RemoveFirst(@, h),
                           !.disturbed = @ \/ Contains(SubSeq(list, 1, loop.index), h)]
    <3>0. /\ loop.index \in Nat /\ loop.index >= 1 /\ loop.heard \in Seq(Handlers)
          /\ Len(loop.heard) \in Nat /\ DOMAIN loop.heard = 1..Len(loop.heard)
          /\ later.heard = left /\ later.index = loop.index
      BY LenProperties DEF Loops
    <3>1. later.disturbed \/ (~loop.disturbed /\ ~Contains(SubSeq(list, 1, loop.index), h))
      BY DEF Loops
    <3>2. /\ left \in Seq(Handlers) /\ IsInjective(left) /\ Len(left) \in Nat
          /\ \A i \in 1..Len(left) :
               left[i] # h /\ \E j \in 1..Len(loop.heard) : left[i] = loop.heard[j]
      <4>1. IsInjective(loop.heard)
        BY <2>4 DEF Follows
      <4>2. left \in Seq(Handlers) /\ Len(left) \in Nat
        BY <3>0, RemoveFirstTyped, LenProperties
      <4>3. /\ IsInjective(left)
            /\ \A i \in 1..Len(left) :
                 left[i] # h /\ \E j \in 1..Len(loop.heard) : left[i] = loop.heard[j]
        BY <3>0, <4>1, RemoveFirstInjective
      <4> QED
        BY <4>2, <4>3
    <3> HIDE DEF left
    <3>3. ASSUME NEW i \in 1..Len(left)
          PROVE  \E p \in 1..Len(new) : p <= loop.index /\ new[p] = left[i]
      <4>1. PICK j \in 1..Len(loop.heard) : left[i] = loop.heard[j]
        BY <3>2
      <4>2. PICK p \in 1..Len(list) : p <= loop.index /\ list[p] = loop.heard[j]
        BY <2>4 DEF Follows
      <4>3. p # q
        BY <2>1, <3>2, <4>1, <4>2
      <4>4. CASE p < q
        <5>1. p \in 1..(Len(list) - 1)
          BY <1>0, <4>4
        <5> QED
          BY <2>1, <4>1, <4>2, <4>4, <5>1
      <4>5. CASE p > q
        <5>1. /\ p - 1 \in 1..(Len(list) - 1) /\ ~(p - 1 < q)
              /\ (p - 1) + 1 = p /\ p - 1 <= loop.index
          BY <1>0, <3>0, <4>2, <4>5
        <5>2. new[p - 1] = left[i]
          BY <2>1, <4>1, <4>2, <5>1
        <5> QED
          BY <2>1, <5>1, <5>2
      <4> QED
        BY <4>3, <4>4, <4>5
    <3>4. ASSUME ~later.disturbed
          PROVE  /\ Len(left) = loop.index /\ loop.index <= Len(new)
                 /\ \A i \in 1..loop.index : left[i] = new[i]
      <4>1. /\ Len(loop.heard) = loop.index /\ loop.index <= Len(list)
            /\ \A i \in 1..loop.index : loop.heard[i] = list[i]
        BY <2>4, <3>1, <3>4 DEF Follows
      <4>2. \A i \in 1..loop.index : list[i] # h
        <5>1. /\ Len(SubSeq(list, 1, loop.index)) = loop.index
              /\ \A i \in 1..loop.index : SubSeq(list, 1, loop.index)[i] = list[i]
          <6>1. 1 \in 1..(Len(list) + 1) /\ loop.index \in 0..Len(list)
            BY <1>0, <3>0, <4>1
          <6>2. /\ Len(SubSeq(list, 1, loop.index)) = IF 1 <= loop.index THEN loop.index - 1 + 1 ELSE 0
                /\ \A i \in 1..(loop.index - 1 + 1) : SubSeq(list, 1, loop.index)[i] = list[1 + i - 1]
            BY <6>1, SubSeqProperties
          <6> QED
            BY <3>0, <6>2
        <5> QED
          BY <3>1, <3>4, <5>1 DEF Contains
      <4>3. left = loop.heard
        BY <4>1, <4>2, RemoveFirstAbsent DEF left
      <4>4. q > loop.index
        BY <1>0, <2>1, <3>0, <4>2
      <4> QED
        BY <1>0, <2>1, <3>0, <4>1, <4>3, <4>4
    <3> HIDE DEF later
    <3>5. Follows(later, new)
      BY <3>0, <3>2, <3>3, <3>4 DEF Follows
    <3> QED
      BY <3>5 DEF later
  <2> QED
    BY <2>3, <2>4 DEF new
<1> QED
  BY <1>1, <1>2

(* The next handler of the list has not been called: those that have stand    *)
(* before it, and no handler stands in the list twice.                       *)
LEMMA NextFollows ==
  ASSUME NEW list \in Seq(Handlers), IsInjective(list),
         NEW loop \in Loops, Follows(loop, list), loop.index + 1 <= Len(list)
  PROVE  LET later == [loop EXCEPT !.index = loop.index + 1,
                                   !.heard = Append(@, list[loop.index + 1])]
         IN later \in Loops /\ Follows(later, list) /\ later.event = loop.event
<1> DEFINE n == loop.index
           next == n + 1
           heard == loop.heard
           new == Append(heard, list[next])
           later == [loop EXCEPT !.index = next, !.heard = Append(@, list[next])]
<1>0. /\ Len(list) \in Nat /\ DOMAIN list = 1..Len(list)
      /\ n \in Nat /\ n >= 1 /\ heard \in Seq(Handlers)
      /\ Len(heard) \in Nat /\ DOMAIN heard = 1..Len(heard)
      /\ next \in 1..Len(list) /\ list[next] \in Handlers
  BY LenProperties, ElementOfSeq DEF Loops
<1>2. /\ new \in Seq(Handlers) /\ Len(new) = Len(heard) + 1 /\ DOMAIN new = 1..(Len(heard) + 1)
      /\ \A i \in 1..Len(heard) : new[i] = heard[i]
      /\ new[Len(heard) + 1] = list[next]
  BY <1>0, AppendProperties, LenProperties
<1>3. /\ IsInjective(heard)
      /\ \A i \in 1..Len(heard) : \E p \in 1..Len(list) : p <= n /\ list[p] = heard[i]
      /\ loop.disturbed \/
           /\ Len(heard) = n /\ n <= Len(list)
           /\ \A i \in 1..n : heard[i] = list[i]
  BY DEF Follows
<1>1. /\ later \in Loops /\ later.event = loop.event /\ later.index = next
      /\ later.heard = new /\ later.disturbed = loop.disturbed
  <2>1. later = [loop EXCEPT !.index = next, !.heard = new]
    BY DEF Loops
  <2>2. next \in Nat \ {0}
    BY <1>0
  <2> HIDE DEF later, new, next
  <2> QED
    BY <1>2, <2>1, <2>2 DEF Loops
<1> HIDE DEF new, heard, later, n
<1>4. ASSUME NEW i \in 1..Len(heard)
      PROVE  heard[i] # list[next]
  <2>1. PICK p \in 1..Len(list) : p <= n /\ list[p] = heard[i]
    BY <1>3
  <2>2. p # next
    BY <1>0, <2>1
  <2>3. list[p] # list[next]
    BY <1>0, <2>2 DEF IsInjective
  <2> QED
    BY <2>1, <2>3
<1>5. IsInjective(new)
  <2> DEFINE old == 1..Len(heard)
             last == Len(heard) + 1
  <2>1. DOMAIN new = old \cup {last}
    BY <1>0, <1>2
  <2>2. \A a, b \in old : new[a] = new[b] => a = b
    BY <1>0, <1>2, <1>3 DEF IsInjective
  <2>3. \A a \in old : new[a] # new[last]
    BY <1>2, <1>4
  <2> HIDE DEF old, last
  <2> QED
    BY <2>1, <2>2, <2>3 DEF IsInjective
<1>6. ASSUME NEW i \in 1..Len(new)
      PROVE  \E p \in 1..Len(list) : p <= next /\ list[p] = new[i]
  <2>1. CASE i \in 1..Len(heard)
    <3>1. PICK p \in 1..Len(list) : p <= n /\ list[p] = heard[i]
      BY <1>3, <2>1
    <3>2. p <= next /\ list[p] = new[i]
      BY <1>0, <1>2, <2>1, <3>1
    <3> QED
      BY <3>2
  <2>2. CASE i = Len(heard) + 1
    <3>1. next <= next /\ list[next] = new[i]
      BY <1>0, <1>2, <2>2
    <3> QED
      BY <1>0, <3>1
  <2> QED
    BY <1>0, <1>2, <2>1, <2>2
<1>7. ASSUME ~loop.disturbed
      PROVE  /\ Len(new) = next /\ next <= Len(list)
             /\ \A i \in 1..next : new[i] = list[i]
  <2>1. Len(heard) = n /\ \A i \in 1..n : heard[i] = list[i]
    BY <1>3, <1>7
  <2> QED
    BY <1>0, <1>2, <2>1
<1>8. Follows(later, list)
  BY <1>1, <1>5, <1>6, <1>7 DEF Follows
<1> QED
  BY <1>1, <1>8 DEF later, n

(* A loop begins with the first handler of its list.                          *)
LEMMA FirstFollows ==
  ASSUME NEW list \in Seq(Handlers), list # <<>>, NEW e \in Events
  PROVE  LET first == [event |-> e, index |-> 1, heard |-> <<list[1]>>, disturbed |-> FALSE]
         IN first \in Loops /\ Follows(first, list) /\ first.event = e
<1> DEFINE heard == <<list[1]>>
           first == [event |-> e, index |-> 1, heard |-> heard, disturbed |-> FALSE]
<1>1. Len(list) \in Nat /\ 1 <= Len(list) /\ list[1] \in Handlers
  <2>1. Len(list) \in Nat /\ Len(list) # 0
    BY LenProperties, EmptySeq
  <2> QED
    BY <2>1, ElementOfSeq
<1>2. /\ heard \in Seq(Handlers) /\ Len(heard) = 1 /\ DOMAIN heard = 1..1 /\ heard[1] = list[1]
  BY <1>1
<1>3. first.heard = heard /\ first.index = 1 /\ first.event = e
  OBVIOUS
<1>4. first \in Loops
  BY <1>2 DEF Loops
<1> HIDE DEF first, heard
<1>5. IsInjective(heard)
  BY <1>2 DEF IsInjective
<1>6. \A i \in 1..Len(heard) : 1 \in 1..Len(list) /\ 1 <= first.index /\ list[1] = heard[i]
  BY <1>1, <1>2, <1>3
<1>7. /\ Len(heard) = first.index /\ first.index <= Len(list)
      /\ \A i \in 1..first.index : heard[i] = list[i]
  BY <1>1, <1>2, <1>3
<1>8. Follows(first, list)
  BY <1>3, <1>5, <1>6, <1>7 DEF Follows
<1> QED
  BY <1>3, <1>4, <1>8 DEF first, heard

-----------------------------------------------------------------------------
LEMMA LoopsInitInv == DispatcherInit => LoopsInv
<1>1. /\ <<>> \in Seq(Loops) /\ Len(<<>>) = 0
      /\ IsInjective(<<>>)
  BY EmptySeq DEF IsInjective
<1> QED
  BY <1>1 DEF DispatcherInit, LoopsInv

(* The operations that touch neither the handlers nor the loops.              *)
LEMMA LoopsStay ==
  ASSUME LoopsInv, UNCHANGED <<eventTable, dispatches>>
  PROVE  LoopsInv'
  BY DEF LoopsInv

LEMMA UnwindLoops ==
  ASSUME LoopsInv, LoopsUnwind
  PROVE  LoopsInv'
<1>1. <<>> \in Seq(Loops) /\ Len(<<>>) = 0
  BY EmptySeq
<1>2. dispatches' = <<>> /\ eventTable' = eventTable
  BY DEF LoopsUnwind
<1> QED
  BY <1>1, <1>2 DEF LoopsInv

LEMMA RegisterLoops ==
  ASSUME DispatcherInv, LoopsInv, NEW e \in Events, NEW h \in Handlers,
         RegisterEventHandler(e, h)
  PROVE  LoopsInv'
<1>1. /\ eventTable \in [Events -> Seq(Handlers)] /\ IsInjective(eventTable[e])
      /\ eventTable[e] \in Seq(Handlers)
  BY DEF DispatcherInv, LoopsInv
<1>2. eventTable' = [eventTable EXCEPT ![e] = Registered(eventTable[e], h)] /\ dispatches' = dispatches
  BY DEF RegisterEventHandler
<1>3. \A f \in Events : IsInjective(eventTable'[f])
  BY <1>1, <1>2, RegisteredFollows DEF LoopsInv
<1>4. ASSUME NEW k \in 1..Len(dispatches)
      PROVE  Follows(dispatches[k], eventTable'[dispatches[k].event])
  <2>1. dispatches[k] \in Loops /\ Follows(dispatches[k], eventTable[dispatches[k].event])
    BY ElementOfSeq DEF LoopsInv
  <2>2. dispatches[k].event \in Events
    BY <2>1 DEF Loops
  <2>3. CASE dispatches[k].event = e
    <3>1. Follows(dispatches[k], Registered(eventTable[e], h))
      BY <1>1, <2>1, <2>3, RegisteredFollows
    <3> QED
      BY <1>1, <1>2, <2>3, <3>1
  <2>4. CASE dispatches[k].event # e
    BY <1>1, <1>2, <2>1, <2>2, <2>4
  <2> QED
    BY <2>3, <2>4
<1> QED
  BY <1>2, <1>3, <1>4 DEF LoopsInv

LEMMA UnRegisterLoops ==
  ASSUME DispatcherInv, LoopsInv, NEW e \in Events, NEW h \in Handlers,
         UnRegisterEventHandler(e, h)
  PROVE  LoopsInv'
<1>1. /\ eventTable \in [Events -> Seq(Handlers)] /\ IsInjective(eventTable[e])
      /\ eventTable[e] \in Seq(Handlers)
  BY DEF DispatcherInv, LoopsInv
<1>2. /\ eventTable' = [eventTable EXCEPT ![e] = RemoveFirst(eventTable[e], h)]
      /\ dispatches' = [k \in DOMAIN dispatches |-> WithoutHandler(dispatches[k], e, h)]
  BY DEF UnRegisterEventHandler
<1>3. /\ dispatches \in Seq(Loops) /\ Len(dispatches) \in Nat
      /\ DOMAIN dispatches = 1..Len(dispatches)
  BY LenProperties DEF LoopsInv
<1>4. \A f \in Events : IsInjective(eventTable'[f])
  BY <1>1, <1>2, RemovedFollows DEF LoopsInv
<1>5. ASSUME NEW k \in 1..Len(dispatches)
      PROVE  /\ WithoutHandler(dispatches[k], e, h) \in Loops
             /\ Follows(WithoutHandler(dispatches[k], e, h),
                        eventTable'[WithoutHandler(dispatches[k], e, h).event])
  <2> DEFINE loop == dispatches[k]
             gone == Contains(SubSeq(eventTable[e], 1, loop.index), h)
             later == [loop EXCEPT !.heard = RemoveFirst(@, h), !.disturbed = @ \/ gone]
  <2>1. loop \in Loops /\ Follows(loop, eventTable[loop.event])
    BY <1>3, ElementOfSeq DEF LoopsInv
  <2>2. loop.event \in Events /\ loop.heard \in Seq(Handlers)
    BY <2>1 DEF Loops
  <2>3. CASE loop.event = e
    <3>1. WithoutHandler(loop, e, h) = later
      BY <2>3 DEF WithoutHandler
    <3>2. RemoveFirst(loop.heard, h) \in Seq(Handlers)
      BY <2>2, RemoveFirstTyped
    <3>3. gone \in BOOLEAN
      BY DEF Contains
    <3>4. Follows(later, RemoveFirst(eventTable[e], h))
      BY <1>1, <2>1, <2>3, RemovedFollows
    <3> HIDE DEF loop, gone
    <3>5. later \in Loops /\ later.event = e
      BY <2>1, <2>3, <3>2, <3>3 DEF Loops
    <3>6. eventTable'[e] = RemoveFirst(eventTable[e], h)
      BY <1>1, <1>2
    <3> QED
      BY <3>1, <3>4, <3>5, <3>6 DEF loop
  <2>4. CASE loop.event # e
    <3>1. WithoutHandler(loop, e, h) = loop
      BY <2>4 DEF WithoutHandler
    <3> QED
      BY <1>1, <1>2, <2>1, <2>2, <2>4, <3>1
  <2> QED
    BY <2>3, <2>4
<1>6. /\ \A k \in 1..Len(dispatches) : dispatches'[k] = WithoutHandler(dispatches[k], e, h)
      /\ dispatches' \in Seq(Loops) /\ Len(dispatches') = Len(dispatches)
  <2>1. dispatches' = [k \in 1..Len(dispatches) |-> WithoutHandler(dispatches[k], e, h)]
    BY <1>2, <1>3
  <2>2. dispatches' \in [1..Len(dispatches) -> Loops]
    BY <1>5, <2>1
  <2> QED
    BY <1>3, <2>1, <2>2, IsASeq
<1> QED
  BY <1>4, <1>5, <1>6 DEF LoopsInv

LEMMA BeginLoops ==
  ASSUME DispatcherInv, LoopsInv, NEW e \in Events,
         dispatches' = LoopsWith(e), eventTable' = eventTable
  PROVE  LoopsInv'
<1>1. CASE eventTable[e] = <<>>
  BY <1>1, LoopsStay DEF LoopsWith
<1>2. CASE eventTable[e] # <<>>
  <2>1. PICK first \in Loops :
          dispatches' = Append(dispatches, first) /\ Follows(first, eventTable[first.event])
    <3>1. eventTable[e] \in Seq(Handlers)
      BY DEF DispatcherInv
    <3> QED
      BY <1>2, <3>1, FirstFollows DEF LoopsWith
  <2>2. /\ dispatches' \in Seq(Loops) /\ Len(dispatches) \in Nat
        /\ Len(dispatches') = Len(dispatches) + 1
        /\ \A k \in 1..Len(dispatches) : dispatches'[k] = dispatches[k]
        /\ dispatches'[Len(dispatches) + 1] = first
    BY <2>1, AppendProperties, LenProperties DEF LoopsInv
  <2>3. ASSUME NEW k \in 1..Len(dispatches')
        PROVE  Follows(dispatches'[k], eventTable[dispatches'[k].event])
    <3>1. CASE k \in 1..Len(dispatches)
      BY <2>2, <3>1 DEF LoopsInv
    <3>2. CASE k = Len(dispatches) + 1
      BY <2>1, <2>2, <3>2
    <3> QED
      BY <2>2, <3>1, <3>2
  <2> QED
    BY <2>2, <2>3 DEF LoopsInv
<1> QED
  BY <1>1, <1>2

LEMMA ReturnLoops ==
  ASSUME DispatcherInv, LoopsInv, HandlerReturns
  PROVE  LoopsInv'
<1> DEFINE loop == Last(dispatches)
           rest == Front(dispatches)
           list == eventTable[loop.event]
           later == [loop EXCEPT !.index = loop.index + 1,
                                 !.heard = Append(@, list[loop.index + 1])]
<1>1. /\ dispatches \in Seq(Loops) /\ dispatches # <<>> /\ Len(dispatches) \in Nat \ {0}
      /\ eventTable' = eventTable
      /\ dispatches' = IF loop.index + 1 <= Len(list) THEN Append(rest, later) ELSE rest
  BY LenProperties, EmptySeq DEF LoopsInv, HandlerReturns
<1>2. /\ rest \in Seq(Loops) /\ Len(rest) = Len(dispatches) - 1
      /\ \A k \in 1..(Len(dispatches) - 1) : rest[k] = dispatches[k]
  <2> DEFINE n == Len(dispatches) - 1
  <2>1. rest = SubSeq(dispatches, 1, n)
    BY DEF Front
  <2>2. n \in Nat /\ \A k \in 1..n : dispatches[k] \in Loops
    BY <1>1, ElementOfSeq
  <2> HIDE DEF n, rest
  <2>3. /\ rest \in Seq(Loops) /\ Len(rest) = IF 1 <= n THEN n - 1 + 1 ELSE 0
        /\ \A k \in 1..(n - 1 + 1) : rest[k] = dispatches[1 + k - 1]
    BY <2>1, <2>2, SubSeqProperties
  <2>4. Len(rest) = n /\ \A k \in 1..n : rest[k] = dispatches[k]
    BY <2>2, <2>3
  <2> QED
    BY <2>3, <2>4 DEF n
<1>3. loop = dispatches[Len(dispatches)] /\ loop \in Loops /\ Follows(loop, list)
  BY <1>1, ElementOfSeq DEF Last, LoopsInv
<1>4. \A k \in 1..Len(rest) : Follows(rest[k], eventTable[rest[k].event])
  BY <1>1, <1>2 DEF LoopsInv
<1>5. CASE loop.index + 1 <= Len(list)
  <2>1. later \in Loops /\ Follows(later, list) /\ later.event = loop.event
    <3>1. loop.event \in Events
      BY <1>3 DEF Loops
    <3>2. list \in Seq(Handlers) /\ IsInjective(list)
      BY <3>1 DEF DispatcherInv, LoopsInv
    <3> HIDE DEF loop, list
    <3> QED
      BY <1>3, <1>5, <3>2, NextFollows
  <2>2. Follows(later, eventTable[later.event])
    BY <2>1
  <2> HIDE DEF later, rest, loop, list
  <2>3. /\ dispatches' \in Seq(Loops) /\ Len(rest) \in Nat /\ Len(dispatches') = Len(rest) + 1
        /\ \A k \in 1..Len(rest) : dispatches'[k] = rest[k]
        /\ dispatches'[Len(rest) + 1] = later
    BY <1>1, <1>2, <1>5, <2>1, AppendProperties, LenProperties
  <2>4. ASSUME NEW k \in 1..Len(dispatches')
        PROVE  Follows(dispatches'[k], eventTable[dispatches'[k].event])
    <3>1. CASE k \in 1..Len(rest)
      BY <1>4, <2>3, <3>1
    <3>2. CASE k = Len(rest) + 1
      BY <2>2, <2>3, <3>2
    <3> QED
      BY <2>3, <3>1, <3>2
  <2> QED
    BY <1>1, <2>3, <2>4 DEF LoopsInv
<1>6. CASE ~(loop.index + 1 <= Len(list))
  <2> HIDE DEF later, rest, loop, list
  <2>1. dispatches' = rest
    BY <1>1, <1>6
  <2> QED
    BY <1>1, <1>2, <1>4, <2>1 DEF LoopsInv
<1> QED
  BY <1>5, <1>6

(* Whatever the dispatcher does, it keeps its queue and its loops.            *)
LEMMA DispatcherStep ==
  ASSUME DispatcherInv, LoopsInv,
         \/ \E e \in Events :
              \/ \E h \in Handlers : RegisterEventHandler(e, h) \/ UnRegisterEventHandler(e, h)
              \/ DispatchMessage(e)
              \/ DispatchMessageAsync(e)
         \/ HandlerReturns \/ LoopsUnwind \/ Resume \/ Take \/ Yield
         \/ UNCHANGED dispatcherVars
  PROVE  DispatcherInv' /\ LoopsInv'
<1>1. DispatcherInv'
  BY RegisterInv, AsyncInv, TakeInv, OtherDispatcherInv
<1>2. LoopsInv'
  <2>1. ASSUME NEW e \in Events, NEW h \in Handlers,
               RegisterEventHandler(e, h) \/ UnRegisterEventHandler(e, h)
        PROVE  LoopsInv'
    BY <2>1, RegisterLoops, UnRegisterLoops
  <2>2. ASSUME NEW e \in Events, DispatchMessage(e) PROVE LoopsInv'
    BY <2>2, BeginLoops DEF DispatchMessage
  <2>3. ASSUME NEW e \in Events, DispatchMessageAsync(e) PROVE LoopsInv'
    BY <2>3, LoopsStay DEF DispatchMessageAsync
  <2>4. CASE Take
    <3>1. receiveEventQueue \in Seq(Messages) /\ receiveEventQueue # <<>>
      BY <2>4 DEF DispatcherInv, Take
    <3>2. Head(receiveEventQueue) \in Messages
      BY <3>1, HeadTailProperties
    <3>3. Head(receiveEventQueue).event \in Events
      BY <3>2 DEF Messages
    <3> QED
      BY <2>4, <3>3, BeginLoops DEF Take
  <2>5. CASE HandlerReturns
    BY <2>5, ReturnLoops
  <2>6. CASE LoopsUnwind
    BY <2>6, UnwindLoops
  <2>7. CASE Resume \/ Yield \/ UNCHANGED dispatcherVars
    BY <2>7, LoopsStay DEF Resume, Yield, dispatcherVars
  <2> QED
    BY <2>1, <2>2, <2>3, <2>4, <2>5, <2>6, <2>7
<1> QED
  BY <1>1, <1>2

LEMMA LoopsInvImplies ==
  ASSUME DispatcherInv, LoopsInv
  PROVE  HeardOnce /\ NobodyIsSkipped
<1>1. DOMAIN dispatches = 1..Len(dispatches)
  BY LenProperties DEF LoopsInv
<1>2. HeardOnce
  BY <1>1 DEF LoopsInv, Follows, HeardOnce
<1>3. ASSUME NEW k \in 1..Len(dispatches), ~dispatches[k].disturbed
      PROVE  dispatches[k].heard
               = SubSeq(eventTable[dispatches[k].event], 1, dispatches[k].index)
  <2> DEFINE heard == dispatches[k].heard
             list == eventTable[dispatches[k].event]
             n == dispatches[k].index
  <2>1. dispatches[k] \in Loops /\ Follows(dispatches[k], list)
    BY ElementOfSeq DEF LoopsInv
  <2>2. /\ heard \in Seq(Handlers) /\ n \in Nat /\ n >= 1
        /\ list \in Seq(Handlers) /\ Len(list) \in Nat
    BY <2>1, LenProperties DEF Loops, DispatcherInv
  <2>3. Len(heard) = n /\ n <= Len(list) /\ \A i \in 1..n : heard[i] = list[i]
    BY <1>3, <2>1 DEF Follows
  <2> HIDE DEF heard, list, n
  <2>4. /\ SubSeq(list, 1, n) \in Seq(Handlers) /\ Len(SubSeq(list, 1, n)) = n
        /\ \A i \in 1..n : SubSeq(list, 1, n)[i] = list[i]
    <3>1. 1 \in 1..(Len(list) + 1) /\ n \in 0..Len(list)
      BY <2>2, <2>3
    <3> QED
      BY <2>2, <3>1, SubSeqProperties
  <2>5. heard = SubSeq(list, 1, n)
    BY <2>2, <2>3, <2>4, SeqEqual
  <2> QED
    BY <2>5 DEF heard, list, n
<1> QED
  BY <1>1, <1>2, <1>3 DEF NobodyIsSkipped

-----------------------------------------------------------------------------
(* A frame puts the operations of both together.                              *)

LoopTyped ==
  /\ ticked \in BOOLEAN /\ quit \in BOOLEAN
  /\ calls \in Nat /\ throws \in Nat

Inv == DispatcherInv /\ LoopsInv /\ TimerInv /\ LoopTyped

-----------------------------------------------------------------------------
LEMMA TimerStutters ==
  ASSUME TimerInv, UNCHANGED timerVars
  PROVE  TimerInv'
  BY DEF timerVars, TimerInv, Collections, RemovedIsGone, Exact, Updating

-----------------------------------------------------------------------------
LEMMA InitInv == Init => Inv
<1> SUFFICES ASSUME Init PROVE Inv
  OBVIOUS
<1>1. DispatcherInv /\ LoopsInv /\ TimerInv
  BY DispatcherInitInv, LoopsInitInv, TimerInitInv DEF Init
<1>2. LoopTyped
  BY DEF Init, LoopTyped
<1> QED
  BY <1>1, <1>2 DEF Inv

LEMMA StepInv == Inv /\ [Next]_vars => Inv'
<1> SUFFICES ASSUME Inv, [Next]_vars PROVE Inv'
  OBVIOUS
<1>0. DispatcherInv /\ LoopsInv /\ TimerInv /\ LoopTyped
  BY DEF Inv
<1>1. CASE UNCHANGED vars
  <2>1. UNCHANGED dispatcherVars /\ UNCHANGED timerVars /\ UNCHANGED loopVars
    BY <1>1 DEF vars
  <2> QED
    BY <2>1, <1>0, DispatcherStep, TimerStutters DEF Inv, LoopTyped, loopVars
<1>2. CASE CallDispatcher
  <2>1. UNCHANGED timerVars /\ LoopTyped'
    BY <1>0, <1>2 DEF CallDispatcher, Called, LoopTyped
  <2>2. DispatcherInv' /\ LoopsInv'
    BY <1>0, <1>2, DispatcherStep DEF CallDispatcher
  <2> QED
    BY <1>0, <2>1, <2>2, TimerStutters DEF Inv
<1>3. CASE CallTimer
  <2>1. UNCHANGED dispatcherVars /\ LoopTyped'
    BY <1>0, <1>3 DEF CallTimer, Called, LoopTyped
  <2>2. \/ \E interval \in Intervals, times \in Nat, delay \in Delays : AddTimer(interval, times, delay)
        \/ \E interval \in Intervals, duration \in Durations, delay \in Delays :
             AddTimerFor(interval, duration, delay)
        \/ \E i \in 0..(id - 1) : RemoveTimer(i)
    BY <1>3, TimesAssumption DEF CallTimer
  <2>3. TimerInv'
    BY <1>0, <2>2, AddTimerInv, AddTimerForInv, RemoveTimerInv
  <2> QED
    BY <1>0, <2>1, <2>3, DispatcherStep DEF Inv
<1>4. CASE OtherThread
  <2>1. UNCHANGED timerVars /\ LoopTyped'
    BY <1>0, <1>4 DEF OtherThread, Called, LoopTyped
  <2>2. DispatcherInv' /\ LoopsInv'
    BY <1>0, <1>4, DispatcherStep DEF OtherThread, ThreadDispatchesAsync
  <2> QED
    BY <1>0, <2>1, <2>2, TimerStutters DEF Inv
<1>5. CASE TimersBegin
  <2>1. UNCHANGED dispatcherVars /\ LoopTyped'
    BY <1>0, <1>5 DEF TimersBegin, LoopTyped
  <2>2. TimerInv'
    BY <1>0, <1>5, UpdateBeginsInv DEF TimersBegin
  <2> QED
    BY <1>0, <2>1, <2>2, DispatcherStep DEF Inv
<1>6. CASE TimersGoOn
  <2>1. UNCHANGED dispatcherVars /\ LoopTyped'
    BY <1>0, <1>6 DEF TimersGoOn, LoopTyped, loopVars
  <2>2. TimerInv'
    BY <1>0, <1>6, VisitInv, TimerReturnsInv, UpdateEndsInv DEF TimersGoOn
  <2> QED
    BY <1>0, <2>1, <2>2, DispatcherStep DEF Inv
<1>7. CASE CoroutineResumes \/ CoroutineTakes \/ MessageHandled
  <2>1. UNCHANGED timerVars /\ LoopTyped'
    BY <1>0, <1>7 DEF CoroutineResumes, CoroutineTakes, MessageHandled, LoopTyped, loopVars
  <2>2. DispatcherInv' /\ LoopsInv'
    BY <1>0, <1>7, DispatcherStep DEF CoroutineResumes, CoroutineTakes, MessageHandled
  <2> QED
    BY <1>0, <2>1, <2>2, TimerStutters DEF Inv
<1>8. CASE FrameEnds
  <2>1. UNCHANGED timerVars /\ LoopTyped'
    BY <1>0, <1>8 DEF FrameEnds, LoopTyped
  <2>2. DispatcherInv' /\ LoopsInv'
    BY <1>0, <1>8, DispatcherStep DEF FrameEnds
  <2> QED
    BY <1>0, <2>1, <2>2, TimerStutters DEF Inv
<1>9. CASE Throw
  <2>1. LoopTyped'
    BY <1>0, <1>9 DEF Throw, LoopTyped
  <2>2. DispatcherInv' /\ LoopsInv'
    BY <1>0, <1>9, DispatcherStep DEF Throw
  <2>3. TimerInv'
    BY <1>0, <1>9, TimerThrowsInv, TimerStutters DEF Throw
  <2> QED
    BY <2>1, <2>2, <2>3 DEF Inv
<1>10. CASE OnApplicationQuit
  <2>1. UNCHANGED dispatcherVars /\ LoopTyped'
    BY <1>0, <1>10 DEF OnApplicationQuit, LoopTyped
  <2>2. TimerInv'
    BY <1>0, <1>10, TimerReleaseInv DEF OnApplicationQuit
  <2> QED
    BY <1>0, <2>1, <2>2, DispatcherStep DEF Inv
<1> QED
  BY <1>1, <1>2, <1>3, <1>4, <1>5, <1>6, <1>7, <1>8, <1>9, <1>10 DEF Next, Frame

LEMMA SpecInv == Spec => []Inv
  BY InitInv, StepInv, PTL DEF Spec

-----------------------------------------------------------------------------
(* The collections keep their types, and the loop of Update walks over timers *)
(* that exist, whatever handlers add and remove.                             *)
THEOREM GameLoopTyped == Spec => []TypeOK
<1>1. Inv => TypeOK
  <2> SUFFICES ASSUME Inv PROVE TypeOK
    OBVIOUS
  <2>1. DispatcherInv /\ Collections /\ Exact /\ LoopTyped
    BY DEF Inv, TimerInv
  <2>2. \A e \in Events : eventTable[e] \in Seq(Handlers)
    BY <2>1 DEF DispatcherInv
  <2>3. /\ \A i \in DOMAIN dicTimerObjs : dicTimerObjs[i] \in TimerObjects
        /\ \A i \in DOMAIN dicTimerObjsToAdd : dicTimerObjsToAdd[i] \in TimerObjects
    BY <2>1 DEF Exact, Accounts
  <2> QED
    BY <2>1, <2>2, <2>3 DEF DispatcherInv, Collections, LoopTyped, TypeOK
<1> QED
  BY <1>1, SpecInv, PTL

(* A timer that is listed for removal, by RemoveTimer or by its last call, is  *)
(* gone with the next Update and stays away.                                 *)
THEOREM RemovedStaysGone == Spec => []RemovedIsGone
  BY SpecInv, TimerInvImplies, PTL DEF Inv

(* A timer fires as often as it was asked to and no more, though handlers add  *)
(* and remove timers, send messages and throw.                               *)
THEOREM FiresNoMore == Spec => []FiresAtMostItsTimes
  BY SpecInv, TimerInvImplies, PTL DEF Inv

(* No time of a frame is lost: the calls of a timer come after its delay and   *)
(* its intervals to within one frame, however long it runs.                  *)
THEOREM TimersKeepTime == Spec => []KeepsTime
  BY SpecInv, TimerInvImplies, PTL DEF Inv

(* No message of DispatchMessageAsync is lost or overtakes another, though     *)
(* handlers and threads send while the queue is drained, and handlers throw. *)
THEOREM MessagesInOrder == Spec => []AsyncInOrder
  BY SpecInv, PTL DEF Inv, DispatcherInv

(* No message reaches a handler twice, whatever the handlers it reaches        *)
(* register, remove, send and throw.                                         *)
THEOREM EachHearsOnce == Spec => []HeardOnce
  BY SpecInv, LoopsInvImplies, PTL DEF Inv

(* The loop over the live list calls its handlers in their order and passes    *)
(* over none, as long as none that it has called is removed.                 *)
THEOREM NoneIsSkipped == Spec => []NobodyIsSkipped
  BY SpecInv, LoopsInvImplies, PTL DEF Inv

==============================================================================
