------------------------------- MODULE GameLoop -------------------------------
(***************************************************************************)
(* One frame of the game on Unity's main thread: scripts run, Timer.Update   *)
(* among them, then the coroutine of EventDispatcher. The code of scripts,   *)
(* of the handlers of timers and of messages may call either service; a      *)
(* handler may throw, and nobody but Unity catches it. Other threads may     *)
(* send messages.                                                          *)
(***************************************************************************)
EXTENDS EventDispatcher, Timer

CONSTANTS MaxCalls, MaxThrows   \* bounds on what scripts and handlers do

ASSUME LoopBounds == MaxCalls \in Nat /\ MaxThrows \in Nat

VARIABLES
  ticked,    \* Timer.Update has run in this frame
  quit,      \* OnApplicationQuit
  calls,     \* calls made by scripts, handlers and threads
  throws     \* exceptions thrown

loopVars == <<ticked, quit, calls, throws>>
vars == <<dispatcherVars, timerVars, loopVars>>

Init ==
  /\ DispatcherInit /\ TimerInit
  /\ ticked = FALSE /\ quit = FALSE
  /\ calls = 0 /\ throws = 0

ScriptsRun == ~Updating /\ coroutine # "draining"
CodeRuns == ScriptsRun \/ executing # NoTimer \/ dispatches # <<>>

\* The innermost handler is one of a timer.
InTimer == executing # NoTimer /\ dispatches = <<>>

-----------------------------------------------------------------------------
Called == ~quit /\ calls < MaxCalls /\ calls' = calls + 1 /\ UNCHANGED <<ticked, quit, throws>>

CallDispatcher ==
  /\ CodeRuns /\ Called
  /\ \E e \in Events :
       \/ \E h \in Handlers : RegisterEventHandler(e, h) \/ UnRegisterEventHandler(e, h)
       \/ DispatchMessage(e)
       \/ DispatchMessageAsync(e)
  /\ UNCHANGED timerVars

CallTimer ==
  /\ CodeRuns /\ Called
  /\ \/ \E interval \in Intervals, delay \in Delays :
          \/ \E times \in Repeats : AddTimer(interval, times, delay)
          \/ \E duration \in Durations : AddTimerFor(interval, duration, delay)
     \/ \E i \in 0..(id - 1) : RemoveTimer(i)
  /\ UNCHANGED dispatcherVars

OtherThread ==
  /\ Called
  /\ \E e \in Events : ThreadDispatchesAsync(e)
  /\ UNCHANGED timerVars

-----------------------------------------------------------------------------
\* Timer.Update, once a frame.
TimersBegin ==
  /\ ~quit /\ ~ticked /\ ScriptsRun /\ dispatches = <<>>
  /\ ticked' = TRUE
  /\ \E time \in DeltaTimes : UpdateBegins(time)
  /\ UNCHANGED <<dispatcherVars, quit, calls, throws>>

TimersGoOn ==
  /\ \/ (\E i \in visiting : Visit(i))
     \/ InTimer /\ TimerReturns
     \/ UpdateEnds
  /\ UNCHANGED <<dispatcherVars, loopVars>>

\* The coroutine, after the scripts.
CoroutineResumes ==
  /\ ~quit /\ ticked /\ ScriptsRun /\ dispatches = <<>>
  /\ Resume
  /\ UNCHANGED <<timerVars, loopVars>>

CoroutineTakes == Take /\ UNCHANGED <<timerVars, loopVars>>

MessageHandled == HandlerReturns /\ UNCHANGED <<timerVars, loopVars>>

\* The frame ends with the coroutine, or without it.
FrameEnds ==
  /\ ticked' = FALSE
  /\ \/ Yield
     \/ ~Updating /\ ticked /\ coroutine = "dead" /\ dispatches = <<>> /\ UNCHANGED dispatcherVars
  /\ UNCHANGED <<timerVars, quit, calls, throws>>

\* A handler of a message throws, under a timer, the coroutine or a script, or
\* a handler of a timer does.
Throw ==
  /\ throws < MaxThrows /\ throws' = throws + 1
  /\ executing # NoTimer \/ dispatches # <<>>
  /\ LoopsUnwind
  /\ IF executing # NoTimer THEN TimerThrows ELSE UNCHANGED timerVars
  /\ UNCHANGED <<ticked, quit, calls>>

\* OnApplicationQuit releases the singletons; EventDispatcher keeps what it has.
OnApplicationQuit ==
  /\ ~quit /\ ~ticked /\ ScriptsRun /\ dispatches = <<>>
  /\ quit' = TRUE
  /\ TimerRelease
  /\ UNCHANGED <<dispatcherVars, ticked, calls, throws>>

Frame ==
  \/ TimersBegin \/ TimersGoOn
  \/ CoroutineResumes \/ CoroutineTakes \/ MessageHandled
  \/ FrameEnds

Next ==
  \/ CallDispatcher \/ CallTimer \/ OtherThread
  \/ Frame \/ Throw \/ OnApplicationQuit

\* Unity goes on with its frames, and handlers return.
Spec == Init /\ [][Next]_vars /\ WF_vars(Frame)

-----------------------------------------------------------------------------
Ids == 0..(MaxTimers - 1)

(* The collections of the two services hold what their code puts there; the   *)
(* loop of Update walks over timers that exist, though handlers remove them.  *)
TypeOK ==
  /\ \A e \in Events : eventTable[e] \in Seq(Handlers)
  /\ coroutine \in {"waiting", "draining", "dead"}
  /\ sent \in Nat /\ handled \in Nat
  /\ id \in Nat
  /\ \A timers \in {dicTimerObjs, dicTimerObjsToAdd} :
       /\ DOMAIN timers \subseteq 0..(id - 1)
       /\ \A i \in DOMAIN timers : timers[i] \in TimerObjects
  /\ lstTimerToRemove \subseteq 0..(id - 1) /\ removed \subseteq 0..(id - 1)
  /\ visiting \subseteq DOMAIN dicTimerObjs
  /\ executing = NoTimer \/ (executing \in DOMAIN dicTimerObjs /\ Updating)
  /\ deltaTime = 0 \/ deltaTime \in DeltaTimes
  /\ <<ticked, quit>> \in BOOLEAN \X BOOLEAN /\ <<calls, throws>> \in Nat \X Nat

(* A queued message is taken in the end, however many more its handlers send, *)
(* unless the game quits or a handler of the coroutine has thrown: then no    *)
(* message is ever taken again.                                              *)
QueueIsDrained ==
  receiveEventQueue # <<>> ~>
    receiveEventQueue = <<>> \/ quit \/ (coroutine = "dead" /\ throws > 0)

(* A timer comes to its end, also when other timers' handlers throw and cut    *)
(* short the Updates it waits for.                                           *)
TimersEnd ==
  \A i \in Ids :
    i \in DOMAIN dicTimerObjsToAdd ~> i \notin DOMAIN dicTimerObjsToAdd \cup DOMAIN dicTimerObjs

=============================================================================
