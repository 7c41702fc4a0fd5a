# TLA+ specifications of RunFaster (跑得快)

RunFaster is a card game: a Unity client written in C# (`src/clientProj`), the
stub of a C++ server (`src/serverProj`) and a shared protocol directory. This
directory holds the formal models of the parts that carry the program's own
logic, the configurations TLC checks them with, and the theorems TLAPS proves.

Paths below are relative to `src/clientProj/Assets/Scripts/` unless they start
with `src/`.

## 1. The parts of the system

| Part | Source | State it keeps | Operations | Spoken to by |
|---|---|---|---|---|
| Card rules | `Game/Core.cs` | none (pure); sorts its argument in place | `GetPokeCarsdType`, `PokeCardsType.CompareTo`, `Poke.CompareTo`, `GenerateOnePoke`, `GeneratePokeList` | the tests of `TestCase/Testers.cs`, the card views |
| Byte buffer | `Common/Network/Buffer.cs` | capacity, bytes, reader and writer index | read/write/set/get of bytes, shorts, ints, arrays, other buffers | `Connection` (three buffers), `Coder` (one) |
| Connection | `Common/Network/Connection.cs` | socket, `networkState`, `readState`, buffers, an event | `Connect`, `Close`, `Send`, `ReadData`; callbacks `Connected`, `Sended`; thread `ReceiveData` | `NetworkManager`, the socket library's threads |
| Network manager | `Common/Network/NetworkManager.cs`, `EventManager.cs`, `Coder.cs` | `lstChangedState`, `lstMessage`, the callback table, the coder's buffer and type table | `Connect`, `Send`, `AddMsgCallback`, `Update`; listener methods called on network threads | the game (main thread), `Connection` |
| Event dispatcher | `Common/EventDispatcher.cs` | listeners per message, a locked queue of asynchronous messages | `Register`, `Unregister`, `DispatchMessage`, `DispatchMessageAsync`, the draining coroutine | every game module |
| Timers | `Common/Timer.cs` | timers running, to be added, to be removed | `AddTimer`, `RemoveTimer`, `Update` | every game module |
| UI manager | `Common/UISystem/UIManager.cs`, `WndView.cs` | opened windows, the stack, the top window | `Open`, `CloseTop` | window views, the scene manager |
| Card zone and pool | `Game/Battle/View/*.cs`, `Common/GameObjectPool.cs` | the cards shown, the selection, the pooled objects | `SetData`, `Clear`, `OnItemSelected`, `OnItemDeselected`, `GetSelectedPokes`; `Spawn`, `Despawn` | the player's view |
| Game root | `Common/GameRoot.cs`, `Singleton.cs` | the singletons in creation order | `InitSingletons`, `OnApplicationQuit` | Unity |
| Asset loading | `Common/ResourceMgr/BundleCacheManager.cs`, `BundleLoader.cs`, `ResourceManager.cs`, `BundleManager.cs` | reference counts of bundles and assets, the queue of loads | `loadRes`, `unloadRes`, borrow/return | game code |
| Bundle build tools | `Common/ResourceMgr/AssetBundle/Editor/*.cs` | dependency tables of assets and bundles | add, reduce and merge dependencies, build order | the Unity editor |
| Battle | `Game/Battle/BattleSystem.cs`, `PlayerCtrl`, `PlayerModel` | nothing yet: empty handlers | - | - |
| Server socket | `src/serverProj/comm/network/src/tcp_socket.cpp` | a descriptor and its good/bad state | `Listen`, `Accept`, `Connect`, `Send`, `Recv`, `Close` | nothing yet |

### What is hard, part by part, and what makes each correct

| Part | Hard behaviour | Correct means |
|---|---|---|
| Card rules | modular indices over the ranks, counts corrected for four jokers, runs that wrap from A or 2 to 3, a nested comparison by type, length and lead | a hand is named exactly what it is; the order has no contradiction and no cycle; only bombs cross shapes |
| Byte buffer | growth in the middle of reads and writes, moves between two buffers, the boundary of every length test, signed numbers | the readable bytes are a queue; indices stay ordered and inside the array; what was written is read |
| Connection | three threads without a lock, a timed wait that races the answer, a socket used after it was tested, a stream cut anywhere | an attempt ends, a receiver ends, CLOSED means closed, messages arrive |
| Network manager | a list that three threads change without a lock; `Release` during an attempt | every change of state is heard once |
| Event dispatcher | handlers that register, unregister, throw or send while a message is dispatched | each handler hears each message once; queued messages are handled in order, and all of them |
| Timers | handlers that add and remove timers while the timers run | a removed timer stays silent; a timer fires as often as it was asked to |
| UI manager | a window opened twice, popups over windows, windows that open or close others while they are opened or closed, windows without a view | what is shown is the top window; a window comes back with its data; there is always one to go back to |
| Card zone and pool | objects handed out, taken back and shared; a selection of places that outlives the hand | what is on the screen is of the last hand; clicks count where they are made; nobody plays more of a card than he holds |
| Asset loading | counts shared by bundles that depend on each other, returns during a load, loads that fail | nothing in use is unloaded, nothing unused stays, who waits is told |
| Bundle build tools | tables changed while they are walked, assets merged away | what is kept is the transitive reduction; merging loses no dependency between bundles and packs nothing twice |

`PROJECT.json` lists the hazards one by one, at their lines.

## 2. The modules

| Module | Kind | Models |
|---|---|---|
| `PokeTypes` | operators | cards, combinations, `Poke.CompareTo`, `PokeCardsType.CompareTo` |
| `PokeOrder` | specification | combinations laid next to each other, to relate several answers of `CompareTo` |
| `PokeRules` | specification | `Core.GetPokeCarsdType` on a hand that grows card by card |
| `PokeProofs` | proofs | the order, for every set of combinations; the classifier against the rules of the game, for every deck and hand |
| `NetBuffer` | operators | `Buffer.cs` as values: a method is the buffer it leaves behind |
| `ByteQueue` | abstract specification | what a set of buffers promises: one queue of bytes each |
| `NetBuffers` | specification | the methods of `Buffer.cs` in any order on several buffers; implements `ByteQueue` |
| `NetBuffersProofs` | proofs | order of the indices, the refinement of `ByteQueue` and the survival of ints, for every size |
| `NetEvents` | specification | `lstChangedState`, shared by the threads without a lock |
| `NetConnection` | specification | `Connection.cs`, the rest of `NetworkManager.cs` and `Coder.Decode`, on `NetBuffer` |
| `NetSend` | specification | `NetConnection` with `Coder.Encode`, `Connection.Send` and `Sended`: sends in flight while the main thread goes on |
| `NetworkProofs` | proofs | that CLOSED means closed, what arrives of a send, and what no race on the list of states can break, for every size and interleaving |
| `EventDispatcher` | actions | `EventDispatcher.cs`: handlers, messages inside one another, the queue and its coroutine |
| `Timer` | actions | `Timer.cs`: the three collections and the loop of `Update` |
| `GameLoop` | specification | a frame: composes the two with scripts, handlers that call either, exceptions, another thread, quitting |
| `SequenceLemmas` | lemmas | least numbers, counting, recursion, division, appending to and removing from a sequence, sorted orders of a sequence; used by the proofs about hands, buffers, sends, frames and the table |
| `GameLoopProofs` | proofs | every operation of `Timer` and `EventDispatcher` keeps its invariant; who hears a message, order of messages, removal, number and time of calls, for every bound |
| `UIManager` | specification | `UIManager.cs`: the stack, the top window, what is shown |
| `UIManagerProofs` | proofs | its four invariants, for every set of windows |
| `CardZones` | specification | the two zones of a player, their items, and `GameObjectPool.cs` |
| `CardZonesProofs` | proofs | its four properties, for every hand and pool |
| `AssetDepdenceTable` | specification | the reduction and merging of dependencies and the ids of bundles, call by call |
| `AssetDepdenceProofs` | proofs | its five invariants, for every acyclic project and every order of files and dependencies |
| `MC*` | instances | the values of the constants for TLC |

### Cards

A card is its number (3 to 15, 16 for a joker) and its color. A combination is
the record of `PokeCardsType`: type, main card and length. `CompareTo` is
translated branch by branch, including the pairs of types it answers 0 for.

`GetPokeCarsdType` sorts its argument in place; `mine` is therefore kept
sorted. `List.Sort` goes by `Poke.CompareTo`, to which cards of a number are
equal (jokers apart), and is not stable: a card that is drawn lands anywhere
among its equals (`Sortings`), so every order the sort can leave is a hand of the
model. `Profile` holds steps two to four (the counts, the correction for four
jokers, the two loops that decide `continues`, the two `cross` flags), and one
operator per branch on the most frequent count follows. The two loops are sets
of offsets: a loop adds the same amount for each index that qualifies, so the
sum is that amount times their number. An empty hand and more than eight equal
cards make the code throw; they are classified `THROWS`.

### Buffers

The array of the code is a function on `0..len-1`. Numbers are the bytes the
shifts write and the value the shifts read back, sign included. `call` records
what the last method was asked for and handed back, which is what `ByteQueue`
and the properties look at. `SetBytes` tests `index + len <= len` since its
parameter hides the field; that is what the model does. `ReadUTF8` and
`WriteBytes(Buffer, int)` check nothing and are called only when what they trust
is so.

### State changes

`NetEvents` cuts the methods of the library's `List<T>` into the steps another
thread can see. `OnStateChange` is the `Add` of a thread:

| Code | Action |
|---|---|
| `_size == _items.Length` | `AddTests` |
| `GrowIfNeeded`: the larger array is filled, then it replaces the list's | `AddCopies`, `AddInstalls` |
| `_items[_size++] = item`: array and size are taken, the size is written, the element stored | `AddTakes`, `AddReads`, `AddCounts`, `AddStores` |
| `Update`: the test of the subscriber, the bound, the index (which tests again, and may throw) | `UpdateBegins`, `Loop`, `GetTests` |
| the call of the subscriber, which may return, throw or be missing by now | `Deliver`, `HandlerReturns`, `DeliverThrows` |
| `Clear`: the array is zeroed, the size reset | `ClearItems`, `ClearSize` |

A store into an array that has been replaced meanwhile, or beyond its end, is
lost. The subscriber's code runs on the main thread inside `Update`; there the
main thread may add and `Subscribe`, which also stands for unsubscribing. Nobody
is subscribed at first, as in the repository today: `UpdateBegins` then leaves
the loop out and the list is cleared all the same. `unheard` keeps what goes
that way, `settled` what was handed over before a `Clear`, and `overtaken` what
an `Add` had copied and not yet installed when the `Clear` zeroed the list.
Copying an array and zeroing it are one step each; `Release`, which clears the
list when no `Update` follows, is left out.

### Connection

A thread is the sequence `todo[t]` of operations it still has to run, and each
operation is a step, so the threads interleave between any two accesses to what
they share.

| Code | Action |
|---|---|
| `Connect`: `BeginConnect`, then the rest | `Connect`, then `ReadHead`, `NetworkStateChanged`, `WaitOne` |
| `NetworkStateChanged`: test, assignment | `NetworkStateChanged`, `Assign` |
| `Close`: test, `Shutdown`/`Close`, announcement | `Close`, `Shutdown`, `NetworkStateChanged` |
| `Connected`: test, `EndConnect`, announcement, new thread | `Connected`, `EndConnect`, .., `StartReceiver` |
| `ReceiveData`: test, `Poll`, `Receive` and what follows | `ReceiveData`, `Poll`, `Receive` |
| `NetworkManager.Update`, `Release`, `AddMsgCallback` | `Update`, `Release` and `ClearMessages`, `AddMsgCallback` |
| `Send`: `Encode`, length, message, `BeginSend` | `Send`, `WriteMessage`, `BeginSend` (`NetSend`) |
| `Sended`, after the socket has read the array | `Sended` |

The socket, the server and time are the environment: `ConnectEnds`,
`ServerSends`, `ServerCloses`, `TimePasses`. Sockets throw where the library
says they do: `Poll`, `EndConnect` and `Shutdown` on a closed socket, `Receive`
on a closed or reset one. What follows `Receive` is one step: it touches
`tempBuffer`, `receiveBuffer` and `readState`, which only the receiver uses once
it runs, and `lstMessage`. An attempt is made once, since a second
`BeginConnect` on the socket of the first is refused. One callback stands for
all of them.

A send in flight shares the array of `sendBuffer`: the socket reads it when it
gets to it, and by then the main thread may have refilled it, or given
`sendBuffer` a larger array and left the old one behind (`Refill`). The
Coder's buffer, which `Decode` uses on the receiver's thread, is not shared with
it in the model: no message gets as far as `Decode`.

### A frame of the game

Unity's main thread runs scripts, `Timer.Update` among them, and then the
coroutine of `EventDispatcher`. A call into code of the game, a handler of a
timer or of a message, is a state of its own: `executing` is the timer whose
handler runs, `dispatches` the stack of the loops of `DispatchMessage` under
way. While one of them waits, its code may make any call of either service
(`CallDispatcher`, `CallTimer`), come back (`HandlerReturns`, `TimerReturns`) or
throw (`Throw`), which unwinds every loop, ends the coroutine when it was under
it, and leaves `Update` in the middle when it was there.

| Code | Action |
|---|---|
| `Timer.Update` up to its loop, one round, its end | `UpdateBegins`, `Visit` (and `TimerReturns`), `UpdateEnds` |
| `AddTimer` (six overloads), `RemoveTimer`, `Release` | `AddTimer`, `AddTimerFor`, `RemoveTimer`, `TimerRelease` |
| `DispatchMessage`: the call, `++i` and the next call | `DispatchMessage`, `HandlerReturns` |
| the coroutine: resume, one message, yield | `Resume`, `Take`, `Yield` |
| `GameRoot.OnApplicationQuit` | `OnApplicationQuit`, `Release` in `UIManager` and `CardZones` |

The lock of the queue lets the main thread in again and keeps others out while
the coroutine drains (`ThreadDispatchesAsync`). The loop of `Update` comes to
timers in any order, as a dictionary gives none. Times are whole, and no frame
is shorter than one unit. What a timer was asked for, its age and how often it
has fired, and which handlers a loop has called, are history the properties
need; they are named as such where they are declared.

### Windows

`Open` and `CloseTop` are cut where they call code of a window
(`PrepareData`, `Open`, `Close`): that code may call the manager again before
the first call goes on, or throw. `running` is the stack of the calls that wait.
The fields are read again after the call, as the code reads them again:
`CloseTop` peeks at the stack its own `Close` may have changed. A window without
a view stays in `dicWnds`; every later `Open` of it throws.

### Cards on the table

`SetData` is one step, the despawning, sorting and spawning it does included.
`List.Sort` may lay equal cards either way: `Sorted` is some order of the places
in which no card comes before a smaller one. The cards a player plays are those
of the selected places (`GetSelectedPokes`), in an order left open since the
zone they go to sorts them.
`Spawn` hands out the last object of the pool and leaves it there, so that the
cards of a hand may all be given the same object: it then shows the last of
them (`ItemsSet`). An item caches the first zone it finds (`zoneView`), and
keeps `clickedUp` through the pool, as `Reset` is called by nobody.

### Dependency tables

A table of dependencies is a function from assets to lists, since the code
depends on the order and the repetitions of the lists; of the lists of dependents
only the number of times each asset is in one matters. `addAsset`,
`parseToLineDepdencies`, `mergeAssetDep` and `addState` recurse while the tables
they walk change: the calls in progress are the stack `calls`, and one entry or
return of a call, or one turn of a loop, is an action. A call that walks a copy
(`ToArray`) has the copy in its record, one that walks the list itself has only
an index. An asset without a list in `dicDep` (not in `entries`) fails where the
code throws. `AssetDatabase.GetDependencies` is all that can be reached in the
project's graph, in any order; the graph is one of the constant `Graphs`, each
without a cycle, for on a cycle the code recurses without end.

## 3. What TLC checks

| Run | Shows | Instance |
|---|---|---|
| `combo_order` | the order is antisymmetric and transitive, and only bombs beat other shapes | every three combinations out of all types, of two lengths where runs and bombs have one, led by 3, A, 2 (the leads the comparison tells apart) or a joker |
| `card_rules` | groups and bombs are named exactly, low runs have no gap, K, A, 2, 3 is no run, short runs are recognised, the main card of a wrapping run leads it | every hand of up to six cards of every rank, one suit with one card of a second, both jokers; and of up to twelve cards of 3, 4, K, A, 2 and a joker: runs of triples over the wrap |
| `card_gaps` (violation) | {3, 4, 5, 6, Q} is taken for a straight | every rank, five cards |
| `buffers` | the buffers implement queues, indices stay ordered, ints survive | two buffers of up to two bytes, ints of two bytes of base 3, of either sign |
| `net_events` | an event cleared away is handed over again only when an `Add` was replacing the array, none is lost without a race or a lack of listeners | three threads, three events, a first array of one place, a subscriber that comes and goes |
| `net_connection` | CLOSED means closed, an attempt and a receiver end; a send arrives as a frame that begins with its message unless the next one overtakes it, and then it still is a frame | buffers of four bytes, one message of three received, two sent: one that fits, fills or grows the buffer |
| `net_data` (violation) | a message of the server never reaches the game | without sends |
| `net_stale` (violation) | CONNECTED stays for ever with a closed socket | the same |
| `game_loop` | queued messages keep their order and are all taken unless the coroutine is killed; a handler hears a message once and is not skipped; timers end, keep time, fire as often as asked and stay removed | one event, two handlers, two messages inside one another, two queued; two timers of two calls or of a duration of zero, with and without a delay; four calls, one exception, frames of one or two units |
| `windows` | at rest the top window is shown and tops the stack; windows come back with their data; `CloseTop` finds a window; a window without a view never gets on top | three normal windows, one of them without a view, two popups, two values of data, a stack of three, two calls inside one another |
| `card_zone` | the screen shows cards of the last hand; selection and display agree for the first; clicks reach their zone; nobody plays more of a card than he holds | three deals out of hands of one, two and three cards, two of them equal; a pool of six |
| `bundle_deps` | the tables agree and are the transitive reduction; merging keeps dependencies, packs nothing twice and loses nothing that is looked up; ids fit | every acyclic graph of four assets up to their names, every set and order of files, every order of dependencies: 294575 states |

Why the bounds are enough. The comparison reads two combinations and its
properties relate at most three. A hand of six holds every mixture of counts
the branches distinguish up to a pair of trips; longer hands differ by the
length of a run, which the second half of `card_rules` extends where the
indices wrap. Two buffers are what a move needs; two bytes hold an int or a growth in
the middle of one, and a base of 3 has bytes that are neither zero nor the sign.
Three threads are all the program has. Three events fill an array of one place
and make it grow twice (the library's first array has four places, which would
take five events); an event comes back with two already, one that was cleared
away and one whose `Add` copied it. One message suffices for the connection
since its bytes arrive in every possible cut; the capacity of the buffers only
has to exceed it. Two sends are an overlap, and the three lengths are the ones
that reallocate an array, or do not.

Two handlers are one that disturbs and one that is disturbed; a third adds only
handlers after them. Two timers are one whose handler acts on the other, two
calls a first and a last one, and frames of two units are longer than an
interval of one, so that calls fall behind. Four calls make one timer and let
its handler make three more. A stack of three holds a window twice with another
between. Four assets are what a diamond of dependencies needs, three hands what
it takes to come back to an object through the pool of the other zone.

Deadlock is checked where the system runs for ever: buffers and events. Hands,
tables of cards and the build of bundles stop at their end. A connection that
has been released and has no thread left stops, and so does a game that quits.

**Fairness** is weak. Of the connection: the scheduler runs every thread that
can go on, Unity calls `Update` every frame, the network stack answers a
connect, time passes. Nothing forces the game to connect or quit, nor the server
to send or close. `AttemptIsResolved` and `ReceiverEnds` need no more. Of the
frame: Unity goes on with its frames and a handler comes back (`WF_vars(Frame)`),
without which `QueueIsDrained` and `TimersEnd` could not hold; scripts and
threads need not call anything. That a handler may send for ever is cut off by
the bound on calls, so `QueueIsDrained` speaks of handlers that send finitely
many messages: one that sends itself a message each time never lets the frame
end.

Every property is falsified by a mutant of the code beside it in its module: a
definition named for what it gets wrong, and marked `Mutant:`. Type invariants
that say nothing more are left to the proofs.

## 4. What is proved

TLAPS checks the theorems for every value of the constants, from the assumptions
named in the modules (bounds are naturals, a base is at least two, cards are
cards).

- **The order of combinations** (`PokeProofs`): `CompareIsAntisymmetric`,
  `BeatsIsTransitive` and `OnlyBombsBeatOtherShapes` hold of whatever
  combinations meet, in any number. The proofs reduce the state to members of
  `ClassifiedCombos`, which knows the shapes the classifier can produce: the
  comparison is no order on arbitrary records. A case split on the types does
  the rest.
- **The classifier of hands** (`PokeProofs`): all five invariants of
  `card_rules`, for every deck and hands of any length. What a hand needs is
  `HandInv`: it is a list of cards in the order of `Poke.CompareTo`. Everything
  else is counting in such a list. Numbers that are found fill different places
  (`CountingApart`, `CountingMany`), so numbers found k times each, m of them, fill
  k * m places, and all of the list only if there are no others; the first card
  of a number stands behind those of the smaller numbers (`FirstOf`), which is
  why `maxSamePos` finds the main card, and twos and aces come last
  (`LastPlaces`). `MaxSameIs` says what step three computes, in spite of its
  exception for four jokers; then one lemma per value of the most frequent count
  says what the branch answers (`OfOneEach`, `OfTwoEach`, `OfThreeEach`,
  `OfFourEachOrMore`). For runs, `LoopsFind` turns the two loops into two sets of
  offsets, each moved by a constant round the sixteen (`ShiftCount`):
  `TakenForARun` reads the sum from right to left (what is taken for a run),
  `ShortRunContinues` from left to right (up to seven groups the loops find every
  number, once). The two loops look at one number twice for longer runs, and
  the proof finds where this matters: see 11 below.
- **Buffers** (`NetBuffersProofs`): `TypeOK` and `IndicesInOrder`. Neither is
  inductive alone: a write stays inside the array only if the writer was, and a
  read leaves the indices ordered only because of the test before it. Their
  conjunction (`Sound`, of every buffer) is, and lemmas about `Store`, `Capacity`, `Write` and `Advance`
  carry each action. `BuffersAreQueues` is the refinement of `ByteQueue`: the
  queue of a buffer is its readable bytes (`Content`, from reader to writer),
  and under `Sound` every method is a step of the queue (`WriteSteps`,
  `ReadSteps`, `MoveSteps`, `OverwriteStep`) or one that gives nothing. The lemmas say what storing behind the
  writer, growing the array and advancing an index do to the readable bytes.
  `WrittenIsRead` is `IntsSurvive`: after i bytes of a number, the reader has
  `(value \div Power[size - i]) % Power[i]` (`BytesAddUp`), which for all of them
  is the number up to its sign (`NumberSurvives`). What `Power` and the sum of the
  bytes are is recursion over data; it is argued by the least counterexample
  (`LeastNumber`, `RecursionExists`).
- **State changes** (`NetworkProofs`, part three), for any number of threads and
  events and any first length of the array: `HandedOverOnce` follows from
  `OnePlace` (an event is with the thread that adds it, gone, or in one place,
  the same in the list's array and in every copy about to replace it),
  `HandedIsBehind` (what this Update has handed over lies behind its cursor) and
  `ClearedIsGone` (what was cleared away is in no array unless it is in
  `overtaken`). `NothingLostAlone` needs what nobody disturbs: `AloneAdds` (an
  `Add` finds the room it looked for, its place is empty, its copy is the list)
  and `AloneUpdates` (what the loop has passed is handed over; what is handed
  over stays in the list until it is cleared). Each step of `Add` and of
  `Update` has a lemma.
- **The connection** (`NetworkProofs`): `ClosedIsClosed`. The property looks at
  one step and its reason lies earlier, in the thread that closed the socket;
  the invariant `ClosedIsDue` carries it: a thread that still has to announce or
  assign CLOSED has a closed socket, and nothing opens a socket again.
- **What arrives of a send** (`NetworkProofs`, part two):
  `UndisturbedBeginsAsGiven` (a whole frame, and its message at the beginning of
  it; what follows is open, see 12 below) and `FramesSurviveOverlap` look at the bytes the
  socket transmits, several steps and possibly another `Send` after they were
  written. `Stage` says how far `sendBuffer` is for each step of `Send` the main
  thread has left; `Undisturbed`, that it still holds what a send stands for
  that no later one has refilled; `OneLength`, that as long as the Coder's array
  has its first size all sends in flight have one length, `sendBuffer` begins
  with that length and is never replaced by a larger one. The other threads
  touch neither buffer (`OthersKeepInv`).
- **A frame** (`GameLoopProofs`): `TypeOK`, `AsyncInOrder`,
  `RemovedIsGone`, `FiresAtMostItsTimes` and `KeepsTime`. The last two are not
  inductive. `Exact` carries them: for every timer, running or to be added,
  `Accounts` says what its countdown, its age and its calls add up to, and
  a timer that has used up its calls (not `MayFire`) is the one being executed
  or is listed for removal, so that the loop never comes to it again. `Collections` says that ids are fresh and
  the loop walks over timers that exist. Each operation of `Timer` keeps their
  conjunction by a lemma of its own; the last part composes them with the
  dispatcher, whose handlers leave the timers alone. A delay that counts down is
  compared with frames of any length up to `MaxDelta`.
- **Loops over live lists** (`GameLoopProofs`):
  `HeardOnce` and `NobodyIsSkipped`. That the handlers called so far are
  different says nothing of the next one. `Follows` does, for every loop under
  way: each handler it has called stands in the list no farther than its place,
  so the next stands behind them all, and no list has a handler twice
  (`LoopsInv`). Removing a handler closes the gap in the list and in what has
  been called at once (`RemovedFollows`, on `RemoveFirstEffect`).
- **Windows** (`UIManagerProofs`): all four invariants of the run. The inductive
  invariant adds that calls wait with the data they were made with
  (`CallsWait`), that undisturbed at most one call waits and what is shown
  meanwhile (`OneCall`), and that the windows of the stack are prepared with
  their data unless reopened (`StackIsPrepared`).

- **Cards on the table** (`CardZonesProofs`): all four properties of the run. The
  inductive invariant says what the zones share: a zone has an object for every
  card (`ObjectForEveryCard`), an object caches no zone but the hand's and is
  clickable nowhere else (`ItemsClickedInTheHand`), a place is selected once
  (`SelectedOnce`), and with a single hand its cards have an object each, which
  neither the pool nor the cards played refer to (`FirstHandKeepsItsObjects`).
  `PlayedIsHeld` is an action property and needs a count: since a place is
  selected once and sorting rearranges (`SortedEffect`), the places of the cards
  played inject into the places of the hand, card by card (`NoMoreThanHeld`).
  That sorting finds an order at all is `OrderExists` in `SequenceLemmas`.
- **Dependency tables** (`AssetDepdenceProofs`): all five invariants of
  `bundle_deps`. None is inductive, for each looks at the tables where a walk has
  ended; the inductive invariant says how far each call on the stack has come,
  and is one conjunction per stage of the build. While files are added, each call
  is for an asset that its callers lead to (`Descends`), the list it walks names
  all that its asset leads to (`LineLists`), what the part of the list it is past
  leads to has left its asset's dependencies (`MovedSoFar`), and an asset
  without a call has the reduction (`AtRest`). What is moved must go away with one
  `Remove`, although files added late list dependencies twice: only what the
  reduction keeps is ever listed twice (`ListedOnce`), and the counts of
  dependents follow (`CountsAgree`). While dependencies are merged, an asset
  merged away may still be in a list, but only in its owner's, in a part that a
  call will come to (`LeftOvers`); the others lead to each other as before
  (`Kept`) and each asset without a bundle has an owner that any other way to it
  leads through (`Owned`). That merging an asset into its only dependent keeps
  both is reachability in a graph that loses a vertex, argued from the least
  closed set that `Below` is. While bundles are numbered, an asset with an id
  is listed or lies ahead of a call (`AllAhead`), so that every id has a bundle in
  the end, and what a bundle needs are the ids of its list so far (`NeedsSoFar`).
  That projects have no cycle and finitely many assets is all that is assumed.

Every invariant and every action property that a passing run checks is the
subject of a theorem. Only model-checked is what the provers cannot reach:
`AttemptIsResolved` and `ReceiverEnds` of the connection, `QueueIsDrained` and
`TimersEnd` of the frame. They are liveness under fairness.

## 5. Where the code and its documentation disagree

Three runs end in a counterexample; `PROJECT.json` quotes the line that says
otherwise.

1. The index that lets a run wrap also closes gaps (`Core.cs:549`, run
   `card_gaps`).
2. Received bytes never reach `receiveBuffer` (`Connection.cs:195`), and
   `ReadData` asks for a state that `ReceiveData` has just left (`net_data`).
3. A late callback leaves a closed connection CONNECTED (`Connection.cs:174`,
   `net_stale`).

More came up while the code was modelled. The models behave as the code does;
no run is spent on them:

4. Straights of eight and more are not recognised: the two loops of
   `Core.cs:547` overlap. `ShortRunsAreRecognised` stops at seven.
5. `ReadByteArray` refuses the last readable bytes (`Buffer.cs:186`); for the
   same reason `Coder.Decode` never decodes a message.
6. `Connect` does not wait for its timeout: `timeoutEvent` is created set
   (`Connection.cs:71`, `:84`).
7. `DispatchMessageAsync` promises the next frame (`EventDispatcher.cs:110`), but
   a message sent by a script, or by a handler of the draining coroutine, is
   handled in the same one.
8. A second hand of two or more cards is shown on one object, since `Spawn`
   leaves in the pool what it hands out (`GameObjectPool.cs:33`), and the
   selection of the first is kept (`PokeCardsnZoneView.cs:35`): hence the
   premises of `ScreenShowsTheHand` and `SelectionIsWhatSticksOut`.
9. A file that was a dependency of an earlier file has its dependencies listed
   twice (`AssetDepdenceTable.cs:91`); an asset only it needs is then not
   merged, contrary to the comment at line 226. `PackedOnce` holds all the same.
   A cycle of assets recurses without end.
10. A handler that throws under the coroutine ends it for good
    (`EventDispatcher.cs:146`): hence the last premise of `QueueIsDrained`.
11. Big hands are misjudged in three ways that the proofs brought up; TLC agrees
    on each hand. {3,3,3, 4,4,4, 5,5,5, 6,6,6, 7,7,7, 8, 9,9,9,9} is a bomb of
    jokers, since the position `maxSamePos` is compared with the number of a
    joker (`Core.cs:756`): hence `Len(mine) < MAX + 4` in `GroupsMatchRules`. From
    sixteen cards on, the loops of `Core.cs:535` can count a pair twice in place
    of single cards: {3,3, 4,4, 5,5, 6,6, 7, 10,10, K,K, A,A, 2} is a run of
    pairs in spite of K, A, 2 and 3, and {3, 4,4, 5,5, 6,6, 7,7, 8,8, 9, 10,10,
    A,A, 2,2} is one that is led by 4 rather than A. Hence `LoopsApart` in
    `RunsFollowTheRules` and `MainPokeLeadsTheRun`. These need a hand of sixteen
    cards or more, all selected at once.
12. Frames are longer than their messages: `Coder.Encode` returns the whole array
    of its buffer (`Coder.cs:33`) instead of what it wrote, and `Send` puts its
    length in front. A frame ends with zeros or with bytes of earlier messages,
    and is as long as the buffer has become. Hence `UndisturbedBeginsAsGiven`
    says how a frame begins, not how it ends.
13. Four jokers alone are no bomb of jokers. `Testers.cs:155` draws the hand as
    王炸, and `Core.cs:756` means to answer `JOKER_QUADS`; but the place of the
    jokers in the list, 0, is compared with the number 16, and the answer is
    `QUADS`. Hence `~FourJokersAlone` in `GroupsMatchRules`: without it `card_rules`
    ends with that hand. It is the opposite of the first misjudgement of 11.
14. "Use update to invoke callback" (`NetworkManager.cs:97`) does not reach every
    callback. Without a subscriber `Update` clears the list unheard (`:109`), and
    the repository has none. Without a lock (`:88`), an `Add` that is replacing
    the full array while `Update` clears the list installs the old states again;
    if another `Add` has raised the size and not stored yet, a state that was
    settled is handed over once more. And two `Add`s that find one last place leave
    a size beyond the array: while somebody listens, every `Update` then throws
    before its `Clear`, and every later `Add` throws as well. `HandedOverOnce`
    names the second by `overtaken`; without that premise TLC finds it with two
    states.

## 6. What could come next

The states a listener of the network manager hears,
once the game has one; the loading of bundles, once its coroutine is written;
`PokeItemView.Reset` and the removal from the pool, once they are called.

## 7. What is not modelled

Asset loading: nothing calls it and no load could end. The coroutine that loads
a bundle is commented out (`BundleLoader.cs:386`, `:430`),
`KillerGlobal.useDynamicUpdate`, which would select it, is false and set
nowhere, and the game loads its prefabs with `Common/ResourceManager.cs`. A model
would be of code yet to be written. The server's socket classes: no program uses
them, and they do not compile as they stand. The battle system (empty handlers);
the creation of the singletons (a fixed sequence); versions, paths and global
objects (input and output); of the build tools, packs, files without
dependencies, XML and the Unity editor;
protobuf-net, the protobuf headers, scenes and textures (third party, or no
logic). Inside the parts modelled: names and printing of cards, logging, the
contents of messages beyond their length and id.
