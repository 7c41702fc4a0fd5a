------------------------------ MODULE NetEvents ------------------------------
(***************************************************************************)
(* How the game hears of the state of its connection: every thread adds to  *)
(* NetworkManager.lstChangedState, and the main thread's Update hands the   *)
(* elements over and clears the list (Common/Network/NetworkManager.cs). No *)
(* lock protects the list, so the methods of the library's List<T> are      *)
(* modelled by the steps another thread can see:                            *)
(*   Add    if (_size == _items.Length) GrowIfNeeded(1);                    *)
(*          _items[_size++] = item;                                         *)
(*   Clear  zeroes _items, then _size.                                      *)
(* Copying or zeroing an array is one step. The Clear of Release is left    *)
(* out: the game quits, and no Update follows. An event is the number of its *)
(* Add; 0 is the zero of ConnectionState, CLOSED, which fills an array of   *)
(* states. Places are counted from 0, as in the code.                       *)
(***************************************************************************)
EXTENDS Naturals, Sequences

CONSTANTS
  Raisers, Main,   \* the threads that raise states, and the one that updates
  MaxRaised,       \* bound on the states raised
  FirstCapacity    \* the length of the first array the list grows to

ASSUME RaisersAssumption == Main \in Raisers
ASSUME EventsAssumption == MaxRaised \in Nat /\ FirstCapacity \in Nat \ {0}

VARIABLES
  size,       \* the list: the number of its elements
  items,      \* .. and its array
  adding,     \* for every thread, where in Add it is
  listening,  \* somebody has subscribed to NetWorkStateChangedEvent
  updating,   \* where in Update the main thread is
  cursor,     \* .. and the index of its loop
  raised,     \* how many states have been raised
  handed,     \* the events this Update, or the last one, has handed over
  settled,    \* the events handed over by Updates that cleared the list
  unheard,    \* the events cleared away by Updates without a subscriber
  overtaken,  \* the events an Add was copying while they were cleared away
  raced       \* two threads have been in the list at a time

theList == <<size, items>>
history == <<raised, handed, settled, unheard, overtaken>>
eventsVars == <<theList, adding, listening, updating, cursor, history, raced>>

\* A thread in Add: its next step, the place and the state it adds, the array
\* it is about to install, and whether the array it has taken is the list's.
Idle == [at |-> "idle", slot |-> 0, event |-> 0, copy |-> <<>>, current |-> FALSE]
Adds(t) == adding[t].at # "idle"

Events(array) == {array[k] : k \in DOMAIN array} \ {0}

EventsInit ==
  /\ size = 0 /\ items = <<>>
  /\ adding = [t \in Raisers |-> Idle]
  /\ listening = FALSE /\ updating = "no" /\ cursor = 0
  /\ raised = 0 /\ handed = {} /\ settled = {} /\ unheard = {} /\ overtaken = {}
  /\ raced = FALSE

\* A step of t in the list meets another thread there.
Meets(t) ==
  raced' = (raced \/ (\E u \in Raisers \ {t} : Adds(u)) \/ (t # Main /\ updating # "no"))

-----------------------------------------------------------------------------
\* OnStateChange. The main thread calls it outside of Update, or in a handler.
AddTests(t) ==
  /\ adding[t] = Idle /\ raised < MaxRaised
  /\ t = Main => updating \in {"no", "handler"}
  /\ raised' = raised + 1
  /\ adding' = [adding EXCEPT ![t] =
       [at |-> IF size = Len(items) THEN "copy" ELSE "take",
        slot |-> 0, event |-> raised + 1, copy |-> <<>>, current |-> FALSE]]
  /\ Meets(t)
  /\ UNCHANGED <<theList, listening, updating, cursor, handed, settled, unheard, overtaken>>

\* The array becomes twice as long, or as long as is needed.
Larger(a, b) == IF a < b THEN b ELSE a
NewLength == Larger(Larger(2 * Len(items), FirstCapacity), size + 1)
Resized(array, length) ==
  [k \in 1..length |-> IF k <= Len(array) THEN array[k] ELSE 0]

\* GrowIfNeeded looks at the size again, which may have been reset meanwhile.
AddCopies(t) ==
  /\ adding[t].at = "copy"
  /\ adding' = [adding EXCEPT ![t] =
       IF size < Len(items)
       THEN [@ EXCEPT !.at = "take"]
       ELSE [@ EXCEPT !.at = "install", !.copy = Resized(items, NewLength)]]
  /\ Meets(t)
  /\ UNCHANGED <<theList, listening, updating, cursor, history>>

\* Another Add that has taken the array will store into the one replaced.
AddInstalls(t) ==
  /\ adding[t].at = "install"
  /\ items' = adding[t].copy
  /\ adding' = [u \in Raisers |->
       IF u = t THEN [adding[t] EXCEPT !.at = "take", !.copy = <<>>]
       ELSE [adding[u] EXCEPT !.current = FALSE]]
  /\ Meets(t)
  /\ UNCHANGED <<size, listening, updating, cursor, history>>

AddTakes(t) ==
  /\ adding[t].at = "take"
  /\ adding' = [adding EXCEPT ![t] = [@ EXCEPT !.at = "read", !.current = TRUE]]
  /\ Meets(t)
  /\ UNCHANGED <<theList, listening, updating, cursor, history>>

AddReads(t) ==
  /\ adding[t].at = "read"
  /\ adding' = [adding EXCEPT ![t] = [@ EXCEPT !.at = "count", !.slot = size]]
  /\ Meets(t)
  /\ UNCHANGED <<theList, listening, updating, cursor, history>>

AddCounts(t) ==
  /\ adding[t].at = "count"
  /\ size' = adding[t].slot + 1
  /\ adding' = [adding EXCEPT ![t].at = "store"]
  /\ Meets(t)
  /\ UNCHANGED <<items, listening, updating, cursor, history>>

\* A place beyond the array throws: nothing is stored, the size stays.
AddStores(t) ==
  /\ adding[t].at = "store"
  /\ items' = IF adding[t].current /\ adding[t].slot < Len(items)
              THEN [items EXCEPT ![adding[t].slot + 1] = adding[t].event]
              ELSE items
  /\ adding' = [adding EXCEPT ![t] = Idle]
  /\ Meets(t)
  /\ UNCHANGED <<size, listening, updating, cursor, history>>

Add(t) ==
  \/ AddTests(t) \/ AddCopies(t) \/ AddInstalls(t)
  \/ AddTakes(t) \/ AddReads(t) \/ AddCounts(t) \/ AddStores(t)

-----------------------------------------------------------------------------
\* The game subscribes, or takes its subscription back.
Subscribe ==
  /\ adding[Main] = Idle /\ updating \in {"no", "handler"}
  /\ listening' = ~listening
  /\ UNCHANGED <<theList, adding, updating, cursor, history, raced>>

\* Update goes from one place to the next and leaves the list alone.
Goes(place) ==
  /\ updating' = place
  /\ Meets(Main)
  /\ UNCHANGED <<theList, adding, listening, raised, settled, unheard, overtaken>>

\* Once a frame. Without a subscriber the loop is left out.
UpdateBegins ==
  /\ adding[Main] = Idle /\ updating = "no"
  /\ cursor' = 0 /\ handed' = {}
  /\ Goes(IF listening THEN "loop" ELSE "skip")

\* Mutant: the last element is left out.
LoopShort ==
  /\ updating = "loop"
  /\ Goes(IF cursor + 1 < size THEN "get" ELSE "clear")
  /\ UNCHANGED <<cursor, handed>>

\* i < lstChangedState.Count
Loop ==
  /\ updating = "loop"
  /\ Goes(IF cursor < size THEN "get" ELSE "clear")
  /\ UNCHANGED <<cursor, handed>>

\* lstChangedState[i] tests the index once more, and throws when the list has
\* become shorter: Update is left without a Clear.
GetTests ==
  /\ updating = "get"
  /\ Goes(IF cursor < size THEN "read" ELSE "no")
  /\ UNCHANGED <<cursor, handed>>

\* NetWorkStateChangedEvent(lstChangedState[i])
Deliver ==
  /\ updating = "read" /\ listening /\ cursor < Len(items)
  /\ handed' = handed \cup ({items[cursor + 1]} \ {0})
  /\ Goes("handler")
  /\ UNCHANGED cursor

\* A size beyond the array, or a handler that has unsubscribed the last one.
DeliverThrows ==
  /\ updating = "read" /\ ~(listening /\ cursor < Len(items))
  /\ Goes("no")
  /\ UNCHANGED <<cursor, handed>>

\* ++i, or the handler throws, through Update.
HandlerReturns ==
  /\ adding[Main] = Idle /\ updating = "handler"
  /\ \/ Goes("loop") /\ cursor' = cursor + 1
     \/ Goes("no") /\ UNCHANGED cursor
  /\ UNCHANGED handed

\* lstChangedState.Clear(): the array is zeroed, then the size reset.
Settle ==
  /\ updating \in {"clear", "skip"}
  /\ updating' = "reset"
  /\ settled' = settled \cup handed
  /\ unheard' = IF updating = "skip" THEN unheard \cup Events(items) ELSE unheard
  /\ overtaken' = overtaken \cup UNION {Events(adding[t].copy) : t \in Raisers}
  /\ Meets(Main)
  /\ UNCHANGED <<size, adding, listening, cursor, raised, handed>>

\* Mutant: the elements stay in the array.
ClearKeepsItems == Settle /\ UNCHANGED items

ClearItems == Settle /\ items' = [k \in DOMAIN items |-> 0]

ClearSize ==
  /\ updating = "reset"
  /\ size' = 0
  /\ updating' = "no"
  /\ Meets(Main)
  /\ UNCHANGED <<items, adding, listening, cursor, history>>

UpdateStep ==
  \/ UpdateBegins \/ Loop \/ GetTests \/ Deliver \/ DeliverThrows \/ HandlerReturns
  \/ ClearItems \/ ClearSize

EventsNext == (\E t \in Raisers : Add(t)) \/ Subscribe \/ UpdateStep

EventsSpec == EventsInit /\ [][EventsNext]_eventsVars

-----------------------------------------------------------------------------
(* The list stays an array of events, and the threads at steps of Add.       *)
EventsTypeOK ==
  /\ size \in Nat /\ items \in Seq(Nat)
  /\ adding \in [Raisers ->
       [at : {"idle", "copy", "install", "take", "read", "count", "store"},
        slot : Nat, event : Nat, copy : Seq(Nat), current : BOOLEAN]]
  /\ updating \in {"no", "loop", "get", "read", "handler", "skip", "clear", "reset"}
  /\ listening \in BOOLEAN /\ cursor \in Nat /\ raised \in Nat /\ raced \in BOOLEAN
  /\ handed \cup settled \cup unheard \cup overtaken \subseteq Nat

(* However the threads race on the list, an Update hands an event over once,   *)
(* and none that an earlier Update has cleared away, whether that one had      *)
(* handed it over or nobody listened. Only an event that was cleared away      *)
(* while an Add was replacing the array may come back with the new array. (An  *)
(* event may be lost, the zero may be heard without having been raised, and    *)
(* what an Update hands over before it throws is handed over again by the      *)
(* next.)                                                                     *)
HandedOverOnce ==
  [][Deliver => items[cursor + 1] \notin
       handed \cup ((settled \cup unheard) \ overtaken)]_eventsVars

\* The list has the event.
Listed(e) == \E k \in DOMAIN items : k <= size /\ items[k] = e

(* Only a race, or an Update without a subscriber, loses an event: as long as  *)
(* no two threads have been in the list at a time, an event is being added, in *)
(* the list, handed over, or cleared away by an Update nobody listened to.     *)
NothingLostAlone ==
  ~raced => \A e \in 1..raised :
    \/ \E t \in Raisers : Adds(t) /\ adding[t].event = e
    \/ Listed(e)
    \/ e \in handed \cup settled \cup unheard

=============================================================================
