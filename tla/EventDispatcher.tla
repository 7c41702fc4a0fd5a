--------------------------- MODULE EventDispatcher ---------------------------
(***************************************************************************)
(* Common/EventDispatcher.cs: the handlers of every event, the messages      *)
(* dispatched at once, one inside the other, and the queue of messages a     *)
(* coroutine hands over. A message is its event and, when it is queued, the  *)
(* number of its DispatchMessageAsync. The actions are composed in GameLoop. *)
(***************************************************************************)
EXTENDS Naturals, Sequences, SequencesExt

CONSTANTS
  Events, Handlers,
  MaxSent,     \* bound on the messages dispatched asynchronously
  MaxDepth     \* bound on the dispatches inside one another

ASSUME DispatcherBounds == MaxSent \in Nat /\ MaxDepth \in Nat

VARIABLES
  eventTable,          \* for every event its handlers, in the order of the list
  receiveEventQueue,   \* the messages that wait for the coroutine
  dispatches,          \* the loops of DispatchMessage under way, innermost last
  coroutine,           \* "waiting" for the next frame, "draining", or "dead"
  sent,                \* number of the last message dispatched asynchronously
  handled              \* number of the last message the coroutine took

dispatcherVars ==
  <<eventTable, receiveEventQueue, dispatches, coroutine, sent, handled>>

DispatcherInit ==
  /\ eventTable = [e \in Events |-> <<>>]
  /\ receiveEventQueue = <<>> /\ dispatches = <<>>
  /\ coroutine = "waiting"
  /\ sent = 0 /\ handled = 0

-----------------------------------------------------------------------------
\* Mutant: a handler is added once more.
RegisteredAgain(handlers, h) == Append(handlers, h)

\* Mutant: a new handler comes first.
RegisteredFirst(handlers, h) ==
  IF Contains(handlers, h) THEN handlers ELSE Cons(h, handlers)

Registered(handlers, h) ==
  IF Contains(handlers, h) THEN handlers ELSE Append(handlers, h)

RegisterEventHandler(e, h) ==
  /\ eventTable' = [eventTable EXCEPT ![e] = Registered(@, h)]
  /\ UNCHANGED <<receiveEventQueue, dispatches, coroutine, sent, handled>>

\* What a loop under way has to do with the removal of h: the place it has
\* reached is one too far when h stood at it or before.
WithoutHandler(loop, e, h) ==
  IF loop.event # e THEN loop
  ELSE [loop EXCEPT
          !.heard = RemoveFirst(@, h),
          !.disturbed = @ \/ Contains(SubSeq(eventTable[e], 1, loop.index), h)]

UnRegisterEventHandler(e, h) ==
  /\ eventTable' = [eventTable EXCEPT ![e] = RemoveFirst(@, h)]
  /\ dispatches' = [k \in DOMAIN dispatches |-> WithoutHandler(dispatches[k], e, h)]
  /\ UNCHANGED <<receiveEventQueue, coroutine, sent, handled>>

-----------------------------------------------------------------------------
\* The loop over the list of e calls its first handler. `heard`, the handlers
\* it has called that have not been removed since, and `disturbed` are not
\* in the code.
LoopsWith(e) ==
  IF eventTable[e] = <<>> THEN dispatches
  ELSE Append(dispatches, [event |-> e, index |-> 1,
                           heard |-> <<eventTable[e][1]>>, disturbed |-> FALSE])

DispatchMessage(e) ==
  /\ Len(dispatches) < MaxDepth
  /\ dispatches' = LoopsWith(e)
  /\ UNCHANGED <<eventTable, receiveEventQueue, coroutine, sent, handled>>

\* The handler the innermost loop has called comes back: ++i, and the list is
\* measured again.
HandlerReturns ==
  /\ dispatches # <<>>
  /\ LET loop == Last(dispatches)
         next == loop.index + 1
         handlers == eventTable[loop.event]
     IN dispatches' =
          IF next <= Len(handlers)
          THEN Append(Front(dispatches),
                 [loop EXCEPT !.index = next, !.heard = Append(@, handlers[next])])
          ELSE Front(dispatches)
  /\ UNCHANGED <<eventTable, receiveEventQueue, coroutine, sent, handled>>

\* No loop catches an exception, nor does the coroutine, which it ends.
LoopsUnwind ==
  /\ dispatches' = <<>>
  /\ coroutine' = IF coroutine = "draining" THEN "dead" ELSE coroutine
  /\ UNCHANGED <<eventTable, receiveEventQueue, sent, handled>>

-----------------------------------------------------------------------------
\* The lock lets a handler of the draining main thread in, and no other thread.
DispatchMessageAsync(e) ==
  /\ sent < MaxSent
  /\ sent' = sent + 1
  /\ receiveEventQueue' = Append(receiveEventQueue, [event |-> e, number |-> sent + 1])
  /\ UNCHANGED <<eventTable, dispatches, coroutine, handled>>

ThreadDispatchesAsync(e) == coroutine # "draining" /\ DispatchMessageAsync(e)

Resume ==
  /\ coroutine = "waiting"
  /\ coroutine' = "draining"
  /\ UNCHANGED <<eventTable, receiveEventQueue, dispatches, sent, handled>>

\* Mutant: the messages that were waiting are taken, and the queue is cleared.
TakeClears ==
  /\ coroutine = "draining" /\ dispatches = <<>> /\ receiveEventQueue # <<>>
  /\ handled' = Head(receiveEventQueue).number
  /\ dispatches' = LoopsWith(Head(receiveEventQueue).event)
  /\ receiveEventQueue' = <<>>
  /\ UNCHANGED <<eventTable, coroutine, sent>>

Take ==
  /\ coroutine = "draining" /\ dispatches = <<>> /\ receiveEventQueue # <<>>
  /\ handled' = Head(receiveEventQueue).number
  /\ receiveEventQueue' = Tail(receiveEventQueue)
  /\ dispatches' = LoopsWith(Head(receiveEventQueue).event)
  /\ UNCHANGED <<eventTable, coroutine, sent>>

\* Mutant: the coroutine ends with its first frame.
YieldEnds ==
  /\ coroutine = "draining" /\ dispatches = <<>> /\ receiveEventQueue = <<>>
  /\ coroutine' = "dead"
  /\ UNCHANGED <<eventTable, receiveEventQueue, dispatches, sent, handled>>

Yield ==
  /\ coroutine = "draining" /\ dispatches = <<>> /\ receiveEventQueue = <<>>
  /\ coroutine' = "waiting"
  /\ UNCHANGED <<eventTable, receiveEventQueue, dispatches, sent, handled>>

-----------------------------------------------------------------------------
(* A message handed to DispatchMessageAsync waits in the queue or has been    *)
(* taken by the coroutine, in the order of the calls, also when handlers and  *)
(* threads send while the queue is drained, and when a handler has thrown.    *)
AsyncInOrder ==
  /\ handled + Len(receiveEventQueue) = sent
  /\ \A k \in DOMAIN receiveEventQueue : receiveEventQueue[k].number = handled + k

(* A message reaches no handler twice, whatever handlers are registered and   *)
(* removed by the handlers it reaches, and by messages sent inside it: only a *)
(* handler that is removed and registered again is called again.              *)
HeardOnce ==
  \A k \in DOMAIN dispatches : IsInjective(dispatches[k].heard)

(* The loop over the live list passes over no handler, and calls them in the  *)
(* order of their registration, unless a handler at or before the place it    *)
(* has reached is removed meanwhile.                                          *)
NobodyIsSkipped ==
  \A k \in DOMAIN dispatches :
    LET loop == dispatches[k]
    IN loop.disturbed \/ loop.heard = SubSeq(eventTable[loop.event], 1, loop.index)

=============================================================================
