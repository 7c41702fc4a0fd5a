----------------------------- MODULE NetworkProofs -----------------------------
(***************************************************************************)
(* Whatever the buffers, the messages and the interleaving of the threads,  *)
(* the connection is CLOSED only when its socket is (part one), and what     *)
(* arrives of a send is a frame, begun by its own message unless the next    *)
(* send overtook it (part two). However the threads race on lstChangedState, a    *)
(* state that is cleared away comes back only with an array that replaces    *)
(* the list's, and only a race or the lack of a listener loses one (part     *)
(* three).                                                                  *)
(***************************************************************************)
EXTENDS NetSend, NetEvents, SequenceLemmas

Steps == [op : Operations, state : ConnectionState \cup {NoState}]

\* Closed steps are due only when the socket is closed.
DueWhenClosed(steps, s) == \A i \in DOMAIN steps : steps[i].state = "CLOSED" => s = "closed"

\* Only the step that closes the socket makes a thread announce CLOSED.
ClosedIsDue ==
  /\ todo \in [Threads -> Seq(Steps)]
  /\ \A t \in Threads : DueWhenClosed(todo[t], socket)

-----------------------------------------------------------------------------
LEMMA StepsOfCode ==
  /\ \A op \in Operations : Do(op) \in Steps /\ Do(op).state # "CLOSED"
  /\ \A s \in ConnectionState : Announce(s) \in Steps /\ Announce(s).state = s
                             /\ Op("assign", s) \in Steps /\ Op("assign", s).state = s
BY DEF Steps, Operations, ConnectionState, Do, Op, NoState, Announce

LEMMA NoSteps ==
  ASSUME NEW s
  PROVE  <<>> \in Seq(Steps) /\ DueWhenClosed(<<>>, s)
BY DEF DueWhenClosed

\* A thread goes on with the rest of its steps, behind new ones.
LEMMA ThenKeeps ==
  ASSUME ClosedIsDue, NEW t \in Threads, todo[t] # <<>>,
         NEW next \in Seq(Steps), DueWhenClosed(next, socket'),
         socket = "closed" => socket' = "closed", Then(t, next)
  PROVE  ClosedIsDue'
<1> DEFINE rest == Tail(todo[t])
           all  == next \o rest
<1>1. todo[t] \in Seq(Steps) /\ rest \in Seq(Steps) /\ all \in Seq(Steps)
  BY DEF ClosedIsDue
<1>2. todo' = [todo EXCEPT ![t] = all]
  BY DEF Then
<1>3. DueWhenClosed(rest, socket')
  <2>1. \A i \in DOMAIN rest : i + 1 \in DOMAIN todo[t] /\ rest[i] = todo[t][i + 1]
    BY <1>1
  <2> QED
    BY <2>1 DEF DueWhenClosed, ClosedIsDue
<1>4. DueWhenClosed(all, socket')
  <2>1. SUFFICES ASSUME NEW i \in DOMAIN all, all[i].state = "CLOSED"
                 PROVE  socket' = "closed"
    BY DEF DueWhenClosed
  <2>2. CASE i <= Len(next)
    BY <1>1, <2>1, <2>2 DEF DueWhenClosed
  <2>3. CASE ~(i <= Len(next))
    <3>1. i - Len(next) \in DOMAIN rest /\ all[i] = rest[i - Len(next)]
      BY <1>1, <2>1, <2>3
    <3> QED
      BY <1>3, <2>1, <3>1 DEF DueWhenClosed
  <2> QED
    BY <2>2, <2>3
<1>5. \A u \in Threads : DueWhenClosed(todo'[u], socket')
  BY <1>2, <1>4 DEF ClosedIsDue, DueWhenClosed
<1> QED
  BY <1>1, <1>2, <1>5 DEF ClosedIsDue

\* Threads that had nothing to do, or stop, do what the code lets them begin.
LEMMA BeginKeeps ==
  ASSUME ClosedIsDue, NEW t \in Threads, NEW next \in Seq(Steps),
         DueWhenClosed(next, socket'),
         socket = "closed" => socket' = "closed", todo' = [todo EXCEPT ![t] = next]
  PROVE  ClosedIsDue'
BY DEF ClosedIsDue, DueWhenClosed

LEMMA SameKeeps ==
  ASSUME ClosedIsDue, socket = "closed" => socket' = "closed", UNCHANGED todo
  PROVE  ClosedIsDue'
BY DEF ClosedIsDue, DueWhenClosed

-----------------------------------------------------------------------------
LEMMA InitDue == ClientInit => ClosedIsDue
BY DEF ClientInit, Init, ClosedIsDue, DueWhenClosed

\* The steps every thread may take.
LEMMA ThreadStepKeeps ==
  ASSUME ClosedIsDue, NEW t \in Threads, ThreadStep(t)
  PROVE  ClosedIsDue'
<1>1. CASE NetworkStateChanged(t)
  <2> DEFINE new == Head(todo[t]).state
             next == IF new # networkState THEN <<Op("assign", new)>> ELSE <<>>
  <2>1. todo[t] # <<>> /\ Then(t, next) /\ socket' = socket
    BY <1>1 DEF NetworkStateChanged, Runs, world
  <2>2. todo[t] \in Seq(Steps) /\ DueWhenClosed(todo[t], socket)
    BY DEF ClosedIsDue
  <2>3. new \in ConnectionState \cup {NoState} /\ (new = "CLOSED" => socket = "closed")
    <3>1. 1 \in DOMAIN todo[t] /\ Head(todo[t]) = todo[t][1] /\ todo[t][1] \in Steps
      BY <2>1, <2>2
    <3> QED
      BY <2>2, <3>1 DEF Steps, DueWhenClosed
  <2>4. next \in Seq(Steps) /\ DueWhenClosed(next, socket')
    <3> DEFINE assign == Op("assign", new)
    <3>1. assign \in Steps /\ assign.state = new
      BY <2>3 DEF Steps, Operations, Op
    <3>2. <<assign>> \in Seq(Steps) /\ DueWhenClosed(<<assign>>, socket')
      BY <2>1, <2>3, <3>1 DEF DueWhenClosed
    <3> QED
      BY <3>2, NoSteps
  <2> QED
    BY <2>1, <2>4, ThenKeeps
<1>2. CASE Assign(t)
  <2>1. todo[t] # <<>> /\ Then(t, <<>>) /\ socket' = socket
    BY <1>2 DEF Assign, Runs, world
  <2> QED
    BY <2>1, ThenKeeps, NoSteps
<1>3. CASE Close(t)
  <2> DEFINE next == IF SocketConnected THEN <<Do("Shutdown")>> ELSE <<>>
  <2>1. next \in Seq(Steps) /\ DueWhenClosed(next, socket')
    BY StepsOfCode DEF Operations, DueWhenClosed
  <2>2. todo[t] # <<>> /\ Then(t, next) /\ socket' = socket
    BY <1>3 DEF Close, Runs, world
  <2> QED
    BY <2>1, <2>2, ThenKeeps
<1>4. CASE Shutdown(t)
  <2> DEFINE announced == <<Announce("CLOSED")>>
  <2>1. todo[t] # <<>>
    BY <1>4 DEF Shutdown, Runs
  <2>2. CASE Then(t, announced) /\ socket' = "closed"
    <3>1. announced \in Seq(Steps) /\ DueWhenClosed(announced, socket')
      BY <2>2, StepsOfCode DEF ConnectionState, DueWhenClosed
    <3> QED
      BY <2>1, <2>2, <3>1, ThenKeeps
  <2>3. CASE Then(t, <<>>) /\ UNCHANGED socket
    BY <2>1, <2>3, ThenKeeps, NoSteps
  <2> QED
    BY <1>4, <2>2, <2>3 DEF Shutdown
<1> QED
  BY <1>1, <1>2, <1>3, <1>4 DEF ThreadStep

LEMMA MainStepKeeps ==
  ASSUME ClosedIsDue, MainStep
  PROVE  ClosedIsDue'
<1>1. "main" \in Threads
  BY DEF Threads
<1>2. CASE ThreadStep("main")
  BY <1>1, <1>2, ThreadStepKeeps
<1>3. CASE ReadHead("main")
  <2>1. todo["main"] # <<>> /\ Then("main", <<>>) /\ socket' = socket
    BY <1>3 DEF ReadHead, Runs, world
  <2> QED
    BY <1>1, <2>1, ThenKeeps, NoSteps
<1>4. CASE WaitOne("main")
  <2> DEFINE gaveUp == <<Announce("TIMEOUT"), Do("Close")>>
  <2>1. gaveUp \in Seq(Steps) /\ DueWhenClosed(gaveUp, socket')
    BY StepsOfCode DEF Operations, ConnectionState, DueWhenClosed
  <2>2. todo["main"] # <<>> /\ socket' = socket /\ (Then("main", gaveUp) \/ Then("main", <<>>))
    BY <1>4 DEF WaitOne, Runs
  <2> QED
    BY <1>1, <2>1, <2>2, ThenKeeps, NoSteps
<1>5. CASE ClearMessages
  <2>1. todo["main"] # <<>> /\ Then("main", <<>>) /\ socket' = socket
    BY <1>5 DEF ClearMessages, Runs, world
  <2> QED
    BY <1>1, <2>1, ThenKeeps, NoSteps
<1> QED
  BY <1>2, <1>3, <1>4, <1>5 DEF MainStep

LEMMA CallbackStepKeeps ==
  ASSUME ClosedIsDue, CallbackStep
  PROVE  ClosedIsDue'
<1>1. "callback" \in Threads /\ "receiver" \in Threads
  BY DEF Threads
<1>2. CASE ThreadStep("callback")
  BY <1>1, <1>2, ThreadStepKeeps
<1>3. CASE Connected
  <2> DEFINE next == IF SocketConnected THEN <<Do("EndConnect")>>
                     ELSE <<Announce("DISCONNECTED")>>
  <2>1. next \in Seq(Steps) /\ DueWhenClosed(next, socket')
    BY StepsOfCode DEF Operations, ConnectionState, DueWhenClosed
  <2>2. todo["callback"] # <<>> /\ Then("callback", next) /\ socket' = socket
    BY <1>3 DEF Connected, Runs, world
  <2> QED
    BY <1>1, <2>1, <2>2, ThenKeeps
<1>4. CASE EndConnect
  <2> DEFINE next == <<Announce("CONNECTED"), Do("Start")>>
  <2>1. next \in Seq(Steps) /\ DueWhenClosed(next, socket')
    BY StepsOfCode DEF Operations, ConnectionState, DueWhenClosed
  <2>2. todo["callback"] # <<>> /\ socket' = socket
        /\ (Then("callback", next) \/ Ends("callback"))
    BY <1>4 DEF EndConnect, Runs, world
  <2> QED
    BY <1>1, <2>1, <2>2, ThenKeeps, BeginKeeps, NoSteps DEF Ends
<1>5. CASE StartReceiver
  <2> DEFINE next == <<Do("ReceiveData")>>
  <2>1. next \in Seq(Steps) /\ DueWhenClosed(next, socket')
    BY StepsOfCode DEF Operations, DueWhenClosed
  <2>2. socket' = socket
        /\ todo' = [todo EXCEPT !["callback"] = <<>>, !["receiver"] = next]
    BY <1>5 DEF StartReceiver, world
  <2> HIDE DEF next
  <2>3. todo' \in [Threads -> Seq(Steps)]
    BY <1>1, <2>1, <2>2, NoSteps DEF ClosedIsDue
  <2>4. \A t \in Threads : todo'[t] = todo[t] \/ todo'[t] = <<>> \/ todo'[t] = next
    BY <1>1, <2>2 DEF ClosedIsDue
  <2>5. \A t \in Threads : DueWhenClosed(todo'[t], socket')
    BY <2>1, <2>2, <2>4, NoSteps DEF ClosedIsDue
  <2> QED
    BY <2>3, <2>5 DEF ClosedIsDue
<1> QED
  BY <1>2, <1>3, <1>4, <1>5 DEF CallbackStep

LEMMA ReceiverStepKeeps ==
  ASSUME ClosedIsDue, ReceiverStep
  PROVE  ClosedIsDue'
<1>1. "receiver" \in Threads
  BY DEF Threads
<1>2. \A op \in {"Poll", "Receive", "ReceiveData"} :
        <<Do(op)>> \in Seq(Steps) /\ DueWhenClosed(<<Do(op)>>, socket')
  BY StepsOfCode DEF Operations, DueWhenClosed
<1>3. CASE ThreadStep("receiver")
  BY <1>1, <1>3, ThreadStepKeeps
<1>4. CASE ReceiveData
  <2>1. todo["receiver"] # <<>> /\ socket' = socket
        /\ (Then("receiver", <<Do("Poll")>>) \/ Ends("receiver"))
    BY <1>4 DEF ReceiveData, Runs, world
  <2> QED
    BY <1>1, <1>2, <2>1, ThenKeeps, BeginKeeps, NoSteps DEF Ends
<1>5. CASE Poll
  <2>1. todo["receiver"] # <<>> /\ socket' = socket
        /\ (Then("receiver", <<Do("Receive")>>) \/ Ends("receiver"))
    BY <1>5 DEF Poll, Runs, world
  <2> QED
    BY <1>1, <1>2, <2>1, ThenKeeps, BeginKeeps, NoSteps DEF Ends
<1>6. CASE Receive
  <2> DEFINE failed == <<Announce("ERROR"), Do("ReceiveData")>>
  <2>1. failed \in Seq(Steps) /\ DueWhenClosed(failed, socket')
    BY StepsOfCode DEF Operations, ConnectionState, DueWhenClosed
  <2>2. EndOfStream \in Seq(Steps) /\ DueWhenClosed(EndOfStream, socket')
    BY StepsOfCode DEF Operations, EndOfStream, DueWhenClosed
  <2>3. todo["receiver"] # <<>> /\ (socket = "closed" => socket' = "closed")
        /\ \/ Then("receiver", failed) \/ Then("receiver", <<Do("ReceiveData")>>)
           \/ Then("receiver", EndOfStream)
    BY <1>6 DEF Receive, Runs
  <2> QED
    BY <1>1, <1>2, <2>1, <2>2, <2>3, ThenKeeps
<1> QED
  BY <1>3, <1>4, <1>5, <1>6 DEF ReceiverStep

\* What the game, the network and the server do.
LEMMA GameStepKeeps ==
  ASSUME ClosedIsDue,
         Connect \/ AddMsgCallback \/ Update \/ Release \/ ConnectEnds \/ TimePasses
           \/ ServerSends \/ ServerCloses
  PROVE  ClosedIsDue'
<1>1. "main" \in Threads /\ "callback" \in Threads
  BY DEF Threads
<1>2. CASE Connect
  <2>1. ConnectSteps \in Seq(Steps) /\ DueWhenClosed(ConnectSteps, socket')
    BY StepsOfCode DEF ConnectSteps, Operations, ConnectionState, DueWhenClosed
  <2> QED
    BY <1>1, <1>2, <2>1, BeginKeeps DEF Connect
<1>3. CASE Release
  <2> DEFINE next == <<Do("Close"), Do("clear")>>
  <2>1. next \in Seq(Steps) /\ DueWhenClosed(next, socket')
    BY StepsOfCode DEF Operations, DueWhenClosed
  <2> QED
    BY <1>1, <1>3, <2>1, BeginKeeps DEF Release, world
<1>4. CASE ConnectEnds
  <2>1. <<Do("Connected")>> \in Seq(Steps) /\ DueWhenClosed(<<Do("Connected")>>, socket')
    BY StepsOfCode DEF Operations, DueWhenClosed
  <2> QED
    BY <1>1, <1>4, <2>1, BeginKeeps DEF ConnectEnds
<1>5. CASE AddMsgCallback \/ Update \/ TimePasses \/ ServerSends \/ ServerCloses
  BY <1>5, SameKeeps DEF AddMsgCallback, Update, TimePasses, ServerSends, ServerCloses, world
<1> QED
  BY <1>2, <1>3, <1>4, <1>5

\* What sending adds.
LEMMA SendKeeps ==
  ASSUME ClosedIsDue, (\E message \in Messages : Send(message)) \/ SendStep \/ Sended
  PROVE  ClosedIsDue'
<1>1. "main" \in Threads
  BY DEF Threads
<1>2. CASE \E message \in Messages : Send(message)
  <2> DEFINE next == <<Do("WriteBytes"), Do("BeginSend")>>
  <2>1. next \in Seq(Steps) /\ DueWhenClosed(next, socket')
    BY StepsOfCode DEF Operations, DueWhenClosed
  <2> QED
    BY <1>1, <1>2, <2>1, BeginKeeps DEF Send, world
<1>3. CASE WriteMessage
  <2>1. todo["main"] # <<>> /\ Then("main", <<>>) /\ socket' = socket
    BY <1>3 DEF WriteMessage, Runs, world
  <2> QED
    BY <1>1, <2>1, ThenKeeps, NoSteps
<1>4. CASE BeginSend
  <2>1. <<Announce("ERROR")>> \in Seq(Steps) /\ DueWhenClosed(<<Announce("ERROR")>>, socket')
    BY StepsOfCode DEF ConnectionState, DueWhenClosed
  <2>2. todo["main"] # <<>> /\ socket' = socket
        /\ (Then("main", <<>>) \/ Then("main", <<Announce("ERROR")>>))
    BY <1>4 DEF BeginSend, Runs, world
  <2> QED
    BY <1>1, <2>1, <2>2, ThenKeeps, NoSteps
<1>5. CASE Sended
  BY <1>5, SameKeeps DEF Sended, vars, world
<1> QED
  BY <1>2, <1>3, <1>4, <1>5 DEF SendStep

LEMMA ClientStepKeeps == ClosedIsDue /\ [ClientNext]_clientVars => ClosedIsDue'
<1>1. SUFFICES ASSUME ClosedIsDue, [ClientNext]_clientVars PROVE ClosedIsDue'
  OBVIOUS
<1>2. CASE Next
  BY <1>1, <1>2, MainStepKeeps, CallbackStepKeeps, ReceiverStepKeeps, GameStepKeeps DEF Next
<1>3. CASE (\E message \in Messages : Send(message)) \/ SendStep \/ Sended
  BY <1>1, <1>3, SendKeeps
<1>4. CASE UNCHANGED clientVars
  BY <1>1, <1>4, SameKeeps DEF clientVars, vars, world
<1> QED
  BY <1>1, <1>2, <1>3, <1>4 DEF ClientNext

-----------------------------------------------------------------------------
(* CLOSED is announced when the socket is closed, and never before, by        *)
(* whichever thread closes it and whatever else the threads are doing.        *)
THEOREM ClosedMeansClosed == ClientSpec => ClosedIsClosed
<1>1. ASSUME ClosedIsDue, [ClientNext]_clientVars, networkState' = "CLOSED",
             networkState # "CLOSED"
      PROVE  socket = "closed"
  <2>1. PICK t \in Threads : Assign(t)
    <3>1. networkState' # networkState
      BY <1>1
    <3>2. CASE ClientNext
      BY <3>1, <3>2 DEF ClientNext, Next, MainStep, CallbackStep, ReceiverStep, ThreadStep,
         Threads, Connect, AddMsgCallback, Update, Release, ReadHead, WaitOne,
         ClearMessages, NetworkStateChanged, Close, Shutdown, Connected, EndConnect,
         StartReceiver, ReceiveData, Poll, Receive, ConnectEnds, TimePasses,
         ServerSends, ServerCloses, Send, SendStep, WriteMessage, BeginSend, Sended,
         connection, vars
    <3>3. CASE UNCHANGED clientVars
      BY <3>1, <3>3 DEF clientVars, vars, connection
    <3> QED
      BY <1>1, <3>2, <3>3
  <2>2. todo[t] \in Seq(Steps) /\ todo[t] # <<>> /\ DueWhenClosed(todo[t], socket)
    BY <1>1, <2>1 DEF ClosedIsDue, Assign, Runs
  <2>3. 1 \in DOMAIN todo[t] /\ todo[t][1].state = "CLOSED"
    BY <1>1, <2>1, <2>2 DEF Assign
  <2> QED
    BY <2>2, <2>3 DEF DueWhenClosed
<1>2. ClosedIsDue /\ [ClientNext]_clientVars
        => [networkState' = "CLOSED" /\ networkState # "CLOSED" => socket = "closed"]_vars
  BY <1>1
<1> QED
  BY <1>2, InitDue, ClientStepKeeps, PTL DEF ClientSpec, ClosedIsClosed

-----------------------------------------------------------------------------
(* Part two: the bytes that are sent.                                        *)
Sends == [own : BOOLEAN, array : Seq(Byte), length : Nat, message : Seq(Byte), refilled : BOOLEAN]

\* The buffers of the sender are cleared and written, never read.
Sound(b) ==
  /\ IsBuffer(b) /\ b.readerIndex = 0 /\ b.writerIndex <= b.len /\ b.len >= BufferSize

NoSending(steps) == \A i \in DOMAIN steps : steps[i].op \notin {"WriteBytes", "BeginSend"}

\* The array of sendBuffer begins with a length, ..
Prefixed(n) == \A i \in 1..IntSize : sendBuffer.data[i - 1] = ToBytes(n, IntSize)[i]

\* .. and behind the length of the Coder's array it holds that array.
Filled ==
  /\ sendBuffer.writerIndex = IntSize + coderBuffer.len /\ Prefixed(coderBuffer.len)
  /\ \A i \in 1..coderBuffer.len : sendBuffer.data[IntSize + i - 1] = coderBuffer.data[i - 1]

\* What the main thread has still to run of Send says how far sendBuffer is.
Stage ==
  \/ /\ todo["main"] = <<Do("WriteBytes"), Do("BeginSend")>>
     /\ sendBuffer.writerIndex = IntSize /\ Prefixed(coderBuffer.len)
  \/ todo["main"] = <<Do("BeginSend")>> /\ Filled
  \/ NoSending(todo["main"])

\* Until sendBuffer is refilled, it holds what a send in flight stands for.
Undisturbed ==
  \A i \in DOMAIN inFlight : ~inFlight[i].refilled =>
    /\ ~inFlight[i].own /\ Filled
    /\ inFlight[i].length = IntSize + coderBuffer.len
    /\ inFlight[i].message = Content(coderBuffer)

\* As long as the Coder's array has not grown, all sends in flight are of one
\* length, and sendBuffer, which has room for it, begins with it.
OneLength ==
  coderBuffer.len = BufferSize =>
    \A i \in DOMAIN inFlight :
      /\ ~inFlight[i].own /\ inFlight[i].length = IntSize + BufferSize
      /\ sendBuffer.len >= IntSize + BufferSize /\ Prefixed(BufferSize)

Inv ==
  /\ ClosedIsDue /\ Sound(coderBuffer) /\ Sound(sendBuffer) /\ inFlight \in Seq(Sends)
  /\ Stage /\ Undisturbed /\ OneLength
  /\ UndisturbedBeginsAsGiven /\ FramesSurviveOverlap

-----------------------------------------------------------------------------
LEMMA BytesOfNumber ==
  ASSUME NEW value \in Int, NEW width \in Nat
  PROVE  ToBytes(value, width) \in Seq(Byte) /\ Len(ToBytes(value, width)) = width
<1>1. \A i \in 1..width : (value \div Power[width - i]) % Base \in Byte
  <2>1. TAKE i \in 1..width
  <2>2. Base \in Nat \ {0} /\ width - i \in Nat
    BY BaseAssumption
  <2>3. Power \in [Nat -> Nat \ {0}]
    BY <2>2, PowersExist DEF Power
  <2>4. value \div Power[width - i] \in Int
    BY <2>2, <2>3, QuotientHas
  <2> QED
    BY <2>2, <2>4, QuotientHas DEF Byte
<1> QED
  BY <1>1 DEF ToBytes

LEMMA RawOf ==
  ASSUME NEW b, Sound(b)
  PROVE  /\ GetRaw(b) \in Seq(Byte) /\ Len(GetRaw(b)) = b.len /\ b.len \in Nat
         /\ \A i \in 1..b.len : GetRaw(b)[i] = b.data[i - 1]
<1>1. b.len \in Nat /\ b.data \in [0..(b.len - 1) -> Byte]
  BY DEF Sound, IsBuffer
<1>2. \A i \in 1..b.len : b.data[i - 1] \in Byte /\ 0 + i - 1 = i - 1
  BY <1>1
<1>3. GetRaw(b) = [i \in 1..b.len |-> b.data[i - 1]]
  BY <1>2 DEF GetRaw, Slice
<1>4. [i \in 1..b.len |-> b.data[i - 1]] \in Seq(Byte)
  BY <1>1, <1>2, IsASeq
<1> QED
  BY <1>1, <1>3, <1>4, LenProperties

LEMMA ClearEffect ==
  ASSUME NEW b, Sound(b)
  PROVE  Sound(Clear(b)) /\ Clear(b).writerIndex = 0 /\ Clear(b).len = b.len
<1>1. Clear(b) = [len |-> b.len, data |-> b.data, readerIndex |-> 0, writerIndex |-> 0]
  <2> DEFINE rewound == [b EXCEPT !.readerIndex = 0]
  <2>1. rewound = [len |-> b.len, data |-> b.data, readerIndex |-> 0, writerIndex |-> b.writerIndex]
    BY DEF Sound, IsBuffer
  <2>2. Clear(b) = [rewound EXCEPT !.writerIndex = 0]
    BY DEF Clear
  <2> HIDE DEF rewound
  <2> QED
    BY <2>1, <2>2
<1> QED
  BY <1>1 DEF Sound, IsBuffer

(* What is written goes behind the other bytes, into an array that grows to   *)
(* the room needed and no further.                                            *)
LEMMA WriteEffect ==
  ASSUME NEW b, Sound(b), NEW bytes \in Seq(Byte)
  PROVE  LET w == Write(b, bytes)
             need == b.writerIndex + Len(bytes)
         IN /\ Sound(w) /\ w.writerIndex = need
            /\ w.len = IF need > b.len THEN need ELSE b.len
            /\ \A i \in 0..(b.writerIndex - 1) : w.data[i] = b.data[i]
            /\ \A i \in 1..Len(bytes) : w.data[b.writerIndex + i - 1] = bytes[i]
<1> DEFINE at == b.writerIndex
           need == at + Len(bytes)
           w == Write(b, bytes)
           roomy == Capacity(b, need)
           len == IF need > b.len THEN need ELSE b.len
           data == [i \in 0..(len - 1) |->
                      IF at <= i /\ i < at + Len(bytes)
                      THEN bytes[i - at + 1] ELSE roomy.data[i]]
<1>1. /\ Len(bytes) \in Nat /\ at \in Nat /\ need \in Nat /\ b.len \in Nat /\ at <= b.len
      /\ need = at + Len(bytes) /\ b.len >= BufferSize /\ b.readerIndex = 0
      /\ b.data \in [0..(b.len - 1) -> Byte]
  BY LenProperties DEF Sound, IsBuffer
<1>2. /\ roomy = [len |-> len, data |-> roomy.data, readerIndex |-> 0, writerIndex |-> at]
      /\ roomy.data \in [0..(len - 1) -> Byte]
      /\ \A i \in 0..(b.len - 1) : roomy.data[i] = b.data[i]
  <2>1. CASE need > b.len
    <3> DEFINE grown == [i \in 0..(need - 1) |-> IF i < b.len THEN b.data[i] ELSE 0]
    <3>1. grown \in [0..(need - 1) -> Byte] /\ \A i \in 0..(b.len - 1) : grown[i] = b.data[i]
      BY <1>1, <2>1, BaseAssumption, SMTT(30) DEF Byte
    <3>2. roomy = [b EXCEPT !.len = need, !.data = grown]
      BY <2>1 DEF Capacity
    <3> HIDE DEF grown, need
    <3>3. roomy = [len |-> need, data |-> grown, readerIndex |-> 0, writerIndex |-> at]
      BY <3>2 DEF Sound, IsBuffer
    <3> QED
      BY <2>1, <3>1, <3>3
  <2>2. CASE ~(need > b.len)
    <3>1. roomy = b
      BY <2>2 DEF Capacity
    <3> QED
      BY <1>1, <2>2, <3>1 DEF Sound, IsBuffer
  <2> QED
    BY <2>1, <2>2
<1>3. w = [len |-> len, data |-> data, readerIndex |-> 0, writerIndex |-> need]
  <2>1. w = [Store(roomy, at, bytes) EXCEPT !.writerIndex = need]
    BY DEF Write
  <2>4. roomy.len = len
    BY <1>2
  <2>2. Store(roomy, at, bytes) = [roomy EXCEPT !.data = data]
    BY <2>4, Zenon DEF Store
  <2> HIDE DEF roomy, data, len, need, w
  <2>3. Store(roomy, at, bytes) = [len |-> len, data |-> data, readerIndex |-> 0, writerIndex |-> at]
    BY <1>2, <2>2
  <2> QED
    BY <2>1, <2>3
<1>4. len \in Nat /\ need <= len /\ b.len <= len
  BY <1>1
<1> HIDE DEF roomy, len, need
<1>5. data \in [0..(len - 1) -> Byte]
  <2>1. \A i \in 0..(len - 1) : at <= i /\ i < at + Len(bytes) => bytes[i - at + 1] \in Byte
    BY <1>1, LenProperties
  <2> QED
    BY <1>2, <2>1
<1>6. \A i \in 0..(at - 1) : data[i] = b.data[i]
  <2>1. TAKE i \in 0..(at - 1)
  <2>2. i \in 0..(len - 1) /\ i \in 0..(b.len - 1) /\ ~(at <= i)
    BY <1>1, <1>4
  <2> QED
    BY <1>2, <2>2
<1>7. \A i \in 1..Len(bytes) : data[at + i - 1] = bytes[i]
  <2>1. TAKE i \in 1..Len(bytes)
  <2>2. /\ at + i - 1 \in 0..(len - 1)
        /\ at <= at + i - 1 /\ at + i - 1 < at + Len(bytes) /\ (at + i - 1) - at + 1 = i
    BY <1>1, <1>4
  <2> QED
    BY <2>2
<1> HIDE DEF data, w
<1>8. Sound(w) /\ w.writerIndex = need
  <2>1. len >= BufferSize
    BY <1>1, <1>4, NetAssumption
  <2> QED
    BY <1>1, <1>3, <1>4, <1>5, <2>1 DEF Sound, IsBuffer
<1>9. w.len = len /\ w.data = data
  BY <1>3
<1> QED
  BY <1>6, <1>7, <1>8, <1>9 DEF w, need, len

(* A frame that is cut from an array which begins with the length of what is   *)
(* sent behind it is a frame.                                                 *)
LEMMA CutIsFrame ==
  ASSUME NEW array \in Seq(Byte), NEW n \in Nat, IntSize + n <= Len(array),
         \A i \in 1..IntSize : array[i] = ToBytes(n, IntSize)[i],
         NEW frame, frame.bytes = SubSeq(array, 1, IntSize + n)
  PROVE  /\ IsFrame(frame)
         /\ Body(frame) \in Seq(Byte) /\ Len(Body(frame)) = n
         /\ \A i \in 1..n : Body(frame)[i] = array[IntSize + i]
<1> DEFINE width == IntSize
           bytes == SubSeq(array, 1, width + n)
           body == SubSeq(bytes, width + 1, width + n)
           prefix == SubSeq(bytes, 1, width)
<1>0. width \in Nat /\ Len(array) \in Nat
  BY SizeAssumption, LenProperties
<1> HIDE DEF width
<1>1. bytes \in Seq(Byte) /\ Len(bytes) = width + n /\ \A i \in 1..(width + n) : bytes[i] = array[i]
  <2>1. \A i \in 1..(width + n) : array[i] \in Byte /\ 1 + i - 1 = i
    BY <1>0, LenProperties DEF width
  <2>2. (width + n) - 1 + 1 = width + n
    BY <1>0
  <2> QED
    BY <1>0, <2>1, <2>2, SubSeqProperties
<1> HIDE DEF bytes
<1>2. body \in Seq(Byte) /\ Len(body) = n /\ \A i \in 1..n : body[i] = array[width + i]
  <2>1. \A i \in (width + 1)..(width + n) : bytes[i] \in Byte
    BY <1>0, <1>1, LenProperties
  <2>2. \A i \in 1..n : /\ (width + 1) + i - 1 = width + i /\ width + i \in 1..(width + n)
                        /\ i \in 1..((width + n) - (width + 1) + 1)
    BY <1>0
  <2>3. CASE n = 0
    <3>1. body = <<>>
      BY <1>0, <2>3, SubSeqEmpty
    <3>2. <<>> \in Seq(Byte) /\ Len(<<>>) = 0
      BY EmptySeq
    <3> HIDE DEF body
    <3> QED
      BY <2>3, <3>1, <3>2
  <2>4. CASE n # 0
    <3>1. /\ body \in Seq(Byte)
          /\ Len(body) = IF width + 1 <= width + n THEN (width + n) - (width + 1) + 1 ELSE 0
          /\ \A i \in 1..((width + n) - (width + 1) + 1) : body[i] = bytes[(width + 1) + i - 1]
      BY <1>0, <1>1, <2>1, SubSeqProperties
    <3> HIDE DEF body
    <3>2. Len(body) = n
      BY <1>0, <2>4, <3>1
    <3>3. ASSUME NEW i \in 1..n PROVE body[i] = array[width + i]
      <4>1. body[i] = bytes[(width + 1) + i - 1]
        BY <2>2, <3>1
      <4>2. bytes[width + i] = array[width + i]
        BY <1>1, <2>2
      <4> QED
        BY <2>2, <4>1, <4>2
    <3> QED
      BY <3>1, <3>2, <3>3
  <2> QED
    BY <2>3, <2>4
<1>3. prefix \in Seq(Byte) /\ Len(prefix) = width /\ \A i \in 1..width : prefix[i] = array[i]
  <2>1. \A i \in 1..width : bytes[i] \in Byte /\ 1 + i - 1 = i /\ i \in 1..(width + n)
    BY <1>0, <1>1, LenProperties
  <2>2. width - 1 + 1 = width
    BY <1>0
  <2> QED
    BY <1>0, <1>1, <2>1, <2>2, SubSeqProperties
<1>4. Body(frame) = body /\ Prefix(frame) = prefix
  BY <1>1 DEF Body, Prefix, bytes, width
<1> HIDE DEF body, prefix
<1>5. prefix = ToBytes(n, width)
  <2>1. ToBytes(n, width) \in Seq(Byte) /\ Len(ToBytes(n, width)) = width
    BY <1>0, BytesOfNumber
  <2> QED
    BY <1>3, <2>1, SeqEqual DEF width
<1> QED
  BY <1>2, <1>4, <1>5 DEF IsFrame, width

-----------------------------------------------------------------------------
(* The main thread is at Send's steps only when it runs Send.                 *)
LEMMA MainIsElsewhere ==
  ASSUME ClosedIsDue, Stage, NEW op, op \notin {"WriteBytes", "BeginSend"}, Runs("main", op)
  PROVE  NoSending(todo["main"])
<1>1. Head(<<Do("WriteBytes"), Do("BeginSend")>>).op = "WriteBytes"
      /\ Head(<<Do("BeginSend")>>).op = "BeginSend"
  BY DEF Do, Op
<1> QED
  BY <1>1 DEF Stage, Runs

LEMMA ThenElsewhere ==
  ASSUME ClosedIsDue, NoSending(todo["main"]), todo["main"] # <<>>,
         NEW next \in Seq(Steps), NoSending(next), Then("main", next)
  PROVE  NoSending(todo'["main"])
<1> DEFINE steps == todo["main"]
           rest == Tail(steps)
           all  == next \o rest
<1>0. "main" \in Threads
  BY DEF Threads
<1>1. steps \in Seq(Steps) /\ rest \in Seq(Steps) /\ all \in Seq(Steps)
  BY <1>0 DEF ClosedIsDue
<1>2. todo'["main"] = all
  BY <1>0 DEF Then, ClosedIsDue
<1>3. NoSending(rest)
  <2>1. \A i \in DOMAIN rest : i + 1 \in DOMAIN steps /\ rest[i] = steps[i + 1]
    BY <1>1
  <2> QED
    BY <2>1 DEF NoSending
<1>4. ASSUME NEW i \in DOMAIN all PROVE all[i].op \notin {"WriteBytes", "BeginSend"}
  <2>1. CASE i <= Len(next)
    BY <1>1, <2>1 DEF NoSending
  <2>2. CASE ~(i <= Len(next))
    <3>1. i - Len(next) \in DOMAIN rest /\ all[i] = rest[i - Len(next)]
      BY <1>1, <2>2
    <3> QED
      BY <1>3, <3>1 DEF NoSending
  <2> QED
    BY <2>1, <2>2
<1> HIDE DEF all
<1> QED
  BY <1>2, <1>4 DEF NoSending

LEMMA StepsElsewhere ==
  /\ <<>> \in Seq(Steps) /\ NoSending(<<>>)
  /\ \A op \in Operations \ {"WriteBytes", "BeginSend"} :
       <<Do(op)>> \in Seq(Steps) /\ NoSending(<<Do(op)>>)
  /\ \A s \in ConnectionState \cup {NoState} :
       /\ <<Announce(s)>> \in Seq(Steps) /\ NoSending(<<Announce(s)>>)
       /\ <<Op("assign", s)>> \in Seq(Steps) /\ NoSending(<<Op("assign", s)>>)
BY DEF NoSending, Steps, Operations, Do, Op, Announce, NoState

(* No other step of the connection gives the main thread one of Send's steps, *)
(* or takes one from it.                                                      *)
LEMMA MainGoesOn ==
  ASSUME ClosedIsDue, Stage, Next
  PROVE  todo'["main"] = todo["main"] \/ NoSending(todo'["main"])
<1>0. /\ "main" \in Threads /\ "callback" \in Threads /\ "receiver" \in Threads
      /\ todo \in [Threads -> Seq(Steps)]
  BY DEF Threads, ClosedIsDue
<1>1. ASSUME NEW t \in {"callback", "receiver"}, NEW next,
             Then(t, next) \/ Ends(t) \/ todo' = [todo EXCEPT ![t] = next]
      PROVE  todo'["main"] = todo["main"]
  BY <1>0, <1>1 DEF Then, Ends
<1>2. ASSUME NEW op, op \notin {"WriteBytes", "BeginSend"}, Runs("main", op),
             NEW next \in Seq(Steps), NoSending(next), Then("main", next)
      PROVE  NoSending(todo'["main"])
  <2>1. NoSending(todo["main"]) /\ todo["main"] # <<>>
    BY <1>2, MainIsElsewhere DEF Runs
  <2> QED
    BY <1>2, <2>1, ThenElsewhere
<1>3. CASE Connect
  <2>1. NoSending(ConnectSteps)
    BY DEF NoSending, ConnectSteps, Do, Announce, Op
  <2> QED
    BY <1>0, <1>3, <2>1 DEF Connect
<1>4. CASE Release
  <2>1. NoSending(<<Do("Close"), Do("clear")>>)
    BY DEF NoSending, Do, Op
  <2> QED
    BY <1>0, <1>4, <2>1 DEF Release
<1>5. CASE AddMsgCallback \/ Update \/ TimePasses \/ ServerSends \/ ServerCloses
  BY <1>5 DEF AddMsgCallback, Update, TimePasses, ServerSends, ServerCloses
<1>6. CASE ConnectEnds
  BY <1>1, <1>6 DEF ConnectEnds
<1>7. CASE MainStep
  <2>1. CASE NetworkStateChanged("main")
    <3> DEFINE new == Head(todo["main"]).state
               next == IF new # networkState THEN <<Op("assign", new)>> ELSE <<>>
    <3>1. Runs("main", "NetworkStateChanged") /\ Then("main", next)
      BY <2>1 DEF NetworkStateChanged
    <3>2. new \in ConnectionState \cup {NoState}
      <4>1. todo["main"] \in Seq(Steps) /\ todo["main"] # <<>>
        BY <1>0, <3>1 DEF Runs
      <4>2. Head(todo["main"]) \in Steps
        BY <4>1, HeadTailProperties
      <4> QED
        BY <4>2 DEF Steps
    <3>3. next \in Seq(Steps) /\ NoSending(next)
      BY <3>2, StepsElsewhere
    <3> HIDE DEF next
    <3> QED
      BY <1>2, <3>1, <3>3
  <2>2. CASE Assign("main")
    BY <1>2, <2>2, StepsElsewhere DEF Assign
  <2>3. CASE Close("main")
    <3> DEFINE next == IF SocketConnected THEN <<Do("Shutdown")>> ELSE <<>>
    <3>1. Runs("main", "Close") /\ Then("main", next)
      BY <2>3 DEF Close
    <3>2. next \in Seq(Steps) /\ NoSending(next)
      BY StepsElsewhere DEF Operations
    <3> HIDE DEF next
    <3> QED
      BY <1>2, <3>1, <3>2
  <2>4. CASE Shutdown("main")
    <3>1. <<Announce("CLOSED")>> \in Seq(Steps) /\ NoSending(<<Announce("CLOSED")>>)
      BY StepsElsewhere DEF ConnectionState
    <3>2. Runs("main", "Shutdown") /\ (Then("main", <<Announce("CLOSED")>>) \/ Then("main", <<>>))
      BY <2>4 DEF Shutdown
    <3> QED
      BY <1>2, <3>1, <3>2, StepsElsewhere
  <2>5. CASE ReadHead("main")
    BY <1>2, <2>5, StepsElsewhere DEF ReadHead
  <2>6. CASE WaitOne("main")
    <3> DEFINE gaveUp == <<Announce("TIMEOUT"), Do("Close")>>
    <3>1. gaveUp \in Seq(Steps) /\ NoSending(gaveUp)
      BY DEF NoSending, Steps, Operations, ConnectionState, Do, Op, Announce, NoState
    <3>2. Runs("main", "WaitOne") /\ (Then("main", gaveUp) \/ Then("main", <<>>))
      BY <2>6 DEF WaitOne
    <3> HIDE DEF gaveUp
    <3> QED
      BY <1>2, <3>1, <3>2, StepsElsewhere
  <2>7. CASE ClearMessages
    BY <1>2, <2>7, StepsElsewhere DEF ClearMessages
  <2> QED
    BY <1>7, <2>1, <2>2, <2>3, <2>4, <2>5, <2>6, <2>7 DEF MainStep, ThreadStep
<1>8. ASSUME NEW t \in {"callback", "receiver"}, ThreadStep(t)
      PROVE  todo'["main"] = todo["main"]
  <2>1. \E next : Then(t, next)
    BY <1>8 DEF ThreadStep, NetworkStateChanged, Assign, Close, Shutdown
  <2> QED
    BY <1>1, <2>1
<1>9. CASE CallbackStep
  <2>1. CASE Connected \/ EndConnect
    <3>1. (\E next : Then("callback", next)) \/ Ends("callback")
      BY <2>1 DEF Connected, EndConnect
    <3> QED
      BY <1>1, <3>1
  <2>2. CASE StartReceiver
    BY <1>0, <2>2 DEF StartReceiver
  <2> QED
    BY <1>8, <1>9, <2>1, <2>2 DEF CallbackStep
<1>10. CASE ReceiverStep
  <2>1. CASE ReceiveData \/ Poll \/ Receive
    <3>1. (\E next : Then("receiver", next)) \/ Ends("receiver")
      BY <2>1 DEF ReceiveData, Poll, Receive
    <3> QED
      BY <1>1, <3>1
  <2> QED
    BY <1>8, <1>10, <2>1 DEF ReceiverStep
<1> QED
  BY <1>3, <1>4, <1>5, <1>6, <1>7, <1>9, <1>10 DEF Next

(* The steps that send nothing.                                               *)
LEMMA OthersKeepInv ==
  ASSUME Inv, ClosedIsDue', UNCHANGED sending,
         todo'["main"] = todo["main"] \/ NoSending(todo'["main"])
  PROVE  Inv'
<1>1. UNCHANGED <<coderBuffer, sendBuffer, inFlight, arrived>>
  BY DEF sending
<1>2. Stage'
  BY <1>1 DEF Inv, Stage, Filled, Prefixed
<1>3. Undisturbed' /\ OneLength'
  BY <1>1 DEF Inv, Undisturbed, OneLength, Filled, Prefixed, Content, Slice, ReadableBytes
<1>4. UndisturbedBeginsAsGiven' /\ FramesSurviveOverlap'
  BY <1>1 DEF Inv, UndisturbedBeginsAsGiven, FramesSurviveOverlap
<1> QED
  BY <1>1, <1>2, <1>3, <1>4 DEF Inv, Sound, IsBuffer

(* sendBuffer is refilled under the sends in flight.                          *)
LEMMA RefillEffect ==
  ASSUME inFlight \in Seq(Sends), Sound(sendBuffer), NEW b, Refill(b)
  PROVE  /\ sendBuffer' = b /\ inFlight' \in Seq(Sends)
         /\ DOMAIN inFlight' = DOMAIN inFlight
         /\ \A i \in DOMAIN inFlight :
              /\ inFlight'[i].refilled
              /\ inFlight'[i].length = inFlight[i].length
              /\ ~inFlight[i].own /\ ~(b.len > sendBuffer.len) => ~inFlight'[i].own
<1> DEFINE raw == GetRaw(sendBuffer)
           moved(i) == LET s == inFlight[i]
                           grows == ~s.own /\ b.len > sendBuffer.len
                       IN [s EXCEPT !.refilled = TRUE, !.own = s.own \/ grows,
                                    !.array = IF grows THEN raw ELSE s.array]
<1>1. sendBuffer' = b /\ inFlight' = [i \in DOMAIN inFlight |-> moved(i)]
  BY DEF Refill
<1>2. Len(inFlight) \in Nat /\ DOMAIN inFlight = 1..Len(inFlight)
      /\ \A i \in DOMAIN inFlight : inFlight[i] \in Sends
  BY LenProperties
<1>3. raw \in Seq(Byte)
  BY RawOf
<1>4. ASSUME NEW i \in DOMAIN inFlight
      PROVE  /\ moved(i) \in Sends
             /\ moved(i).refilled /\ moved(i).length = inFlight[i].length
             /\ ~inFlight[i].own /\ ~(b.len > sendBuffer.len) => ~moved(i).own
  <2> DEFINE s == inFlight[i]
             more == b.len > sendBuffer.len
             grows == ~s.own /\ more
             own == s.own \/ grows
             array == IF grows THEN raw ELSE s.array
             yes == TRUE
  <2>1. s \in Sends
    BY <1>2
  <2>2. own \in BOOLEAN /\ (~s.own /\ ~more => own = FALSE)
    <3>1. s.own \in BOOLEAN
      BY <2>1 DEF Sends
    <3>2. more \in BOOLEAN
      OBVIOUS
    <3> HIDE DEF s, more
    <3> QED
      BY <3>1, <3>2
  <2>3. array \in Seq(Byte)
    BY <1>3, <2>1 DEF Sends
  <2>4. moved(i) = [s EXCEPT !.refilled = yes, !.own = own, !.array = array]
    OBVIOUS
  <2> HIDE DEF s, own, array, moved, more, yes
  <2>5. moved(i) = [own |-> own, array |-> array, length |-> s.length, message |-> s.message,
                    refilled |-> yes]
    <3> DEFINE once == [s EXCEPT !.refilled = yes]
               twice == [once EXCEPT !.own = own]
    <3>1. s = [own |-> s.own, array |-> s.array, length |-> s.length, message |-> s.message,
               refilled |-> s.refilled]
      BY <2>1 DEF Sends
    <3>2. once = [own |-> s.own, array |-> s.array, length |-> s.length, message |-> s.message,
                  refilled |-> yes]
      BY <3>1
    <3>3. moved(i) = [twice EXCEPT !.array = array]
      BY <2>4
    <3> HIDE DEF once
    <3>4. twice = [own |-> own, array |-> s.array, length |-> s.length, message |-> s.message,
                   refilled |-> yes]
      BY <3>2
    <3> HIDE DEF twice
    <3> QED
      BY <3>3, <3>4
  <2>6. moved(i) \in Sends
    BY <2>1, <2>2, <2>3, <2>5 DEF Sends, yes
  <2>7. moved(i).refilled /\ moved(i).length = inFlight[i].length
    BY <2>5 DEF s, yes
  <2>8. ~inFlight[i].own /\ ~(b.len > sendBuffer.len) => ~moved(i).own
    BY <2>2, <2>5 DEF s, more
  <2> QED
    BY <2>6, <2>7, <2>8
<1> HIDE DEF moved
<1>5. inFlight' \in Seq(Sends)
  <2>1. [i \in 1..Len(inFlight) |-> moved(i)] \in Seq(Sends)
    BY <1>2, <1>4, IsASeq
  <2> QED
    BY <1>1, <1>2, <2>1
<1> QED
  BY <1>1, <1>4, <1>5

(* A message is encoded and its length begins a new frame.                    *)
LEMMA SendKeepsInv ==
  ASSUME Inv, ClosedIsDue', NEW message \in Messages, Send(message)
  PROVE  Inv'
<1> DEFINE withId == Write(Clear(coderBuffer), ToBytes(MessageId, IntSize))
           encoded == Write(withId, message)
           length == ToBytes(Len(Encoded(encoded)), IntSize)
           begun == Write(Clear(sendBuffer), length)
<1>1. /\ coderBuffer' = encoded /\ Refill(begun) /\ arrived' = arrived
      /\ todo' = [todo EXCEPT !["main"] = <<Do("WriteBytes"), Do("BeginSend")>>]
  BY DEF Send
<1>2. IntSize \in Nat /\ BufferSize \in Nat /\ IntSize <= BufferSize /\ message \in Seq(Byte)
      /\ MessageId \in Int
  BY SizeAssumption, NetAssumption, SendAssumption
<1>3. Sound(encoded) /\ encoded.len >= coderBuffer.len /\ coderBuffer.len \in Nat
      /\ coderBuffer.len >= BufferSize
  <2>1. Sound(Clear(coderBuffer)) /\ Clear(coderBuffer).len = coderBuffer.len
        /\ coderBuffer.len \in Nat /\ coderBuffer.len >= BufferSize
    BY ClearEffect DEF Inv, Sound, IsBuffer
  <2>2. ToBytes(MessageId, IntSize) \in Seq(Byte)
    BY <1>2, BytesOfNumber
  <2>3. /\ Sound(withId)
        /\ withId.len = IF Clear(coderBuffer).writerIndex + Len(ToBytes(MessageId, IntSize))
                             > Clear(coderBuffer).len
                        THEN Clear(coderBuffer).writerIndex + Len(ToBytes(MessageId, IntSize))
                        ELSE Clear(coderBuffer).len
    BY <2>1, <2>2, WriteEffect
  <2>4. withId.len \in Nat /\ withId.len >= coderBuffer.len
    <3>1. withId.len \in Nat
      BY <2>3 DEF Sound, IsBuffer
    <3> HIDE DEF withId
    <3> QED
      BY <2>1, <2>3, <3>1
  <2> HIDE DEF withId
  <2>5. /\ Sound(encoded)
        /\ encoded.len = IF withId.writerIndex + Len(message) > withId.len
                         THEN withId.writerIndex + Len(message) ELSE withId.len
    BY <1>2, <2>3, WriteEffect
  <2>6. encoded.len \in Nat /\ encoded.len >= withId.len
    <3>1. encoded.len \in Nat
      BY <2>5 DEF Sound, IsBuffer
    <3> HIDE DEF encoded
    <3> QED
      BY <2>4, <2>5, <3>1
  <2> HIDE DEF encoded
  <2> QED
    BY <2>1, <2>4, <2>5, <2>6
<1> HIDE DEF encoded
<1>4. /\ Len(Encoded(encoded)) = encoded.len /\ encoded.len \in Nat
      /\ length = ToBytes(encoded.len, IntSize)
      /\ length \in Seq(Byte) /\ Len(length) = IntSize
  <2>1. Len(GetRaw(encoded)) = encoded.len /\ encoded.len \in Nat
    BY <1>3, RawOf
  <2>2. Len(Encoded(encoded)) = encoded.len
    BY <2>1 DEF Encoded
  <2>3. length = ToBytes(encoded.len, IntSize)
    BY <2>2
  <2>4. ToBytes(encoded.len, IntSize) \in Seq(Byte) /\ Len(ToBytes(encoded.len, IntSize)) = IntSize
    BY <1>2, <2>1, BytesOfNumber
  <2> HIDE DEF length
  <2> QED
    BY <2>1, <2>2, <2>3, <2>4
<1> HIDE DEF length
<1>5. /\ Sound(begun) /\ begun.writerIndex = IntSize /\ begun.len = sendBuffer.len
      /\ \A i \in 1..IntSize : begun.data[i - 1] = length[i]
  <2> DEFINE clear == Clear(sendBuffer)
  <2>1. /\ Sound(clear) /\ clear.writerIndex = 0 /\ clear.len = sendBuffer.len
        /\ sendBuffer.len \in Nat /\ sendBuffer.len >= BufferSize
    BY ClearEffect DEF Inv, Sound, IsBuffer
  <2> HIDE DEF clear
  <2> DEFINE w == Write(clear, length)
  <2>2. Sound(w) /\ w.writerIndex = clear.writerIndex + Len(length)
    BY <1>4, <2>1, WriteEffect
  <2>3. w.len = IF clear.writerIndex + Len(length) > clear.len
                THEN clear.writerIndex + Len(length) ELSE clear.len
    BY <1>4, <2>1, WriteEffect
  <2>4. \A i \in 1..Len(length) : w.data[clear.writerIndex + i - 1] = length[i]
    BY <1>4, <2>1, WriteEffect
  <2>5. begun = w
    BY DEF clear
  <2> HIDE DEF w, begun
  <2>6. w.writerIndex = IntSize /\ w.len = sendBuffer.len
    BY <1>2, <1>4, <2>1, <2>2, <2>3
  <2>7. ASSUME NEW i \in 1..IntSize PROVE w.data[i - 1] = length[i]
    <3>1. clear.writerIndex + i - 1 = i - 1
      BY <1>2, <2>1
    <3> QED
      BY <1>4, <2>4, <3>1
  <2> QED
    BY <2>2, <2>5, <2>6, <2>7
<1> HIDE DEF begun
<1>6. /\ sendBuffer' = begun /\ inFlight' \in Seq(Sends) /\ DOMAIN inFlight' = DOMAIN inFlight
      /\ \A i \in DOMAIN inFlight :
           /\ inFlight'[i].refilled
           /\ inFlight'[i].length = inFlight[i].length
           /\ ~inFlight[i].own /\ ~(begun.len > sendBuffer.len) => ~inFlight'[i].own
  BY <1>1, RefillEffect DEF Inv
<1>7. (\A i \in 1..IntSize : sendBuffer'.data[i - 1] = ToBytes(coderBuffer'.len, IntSize)[i])
      /\ coderBuffer'.len = encoded.len
  BY <1>1, <1>4, <1>5, <1>6
<1>8. Stage'
  <2>1. todo'["main"] = <<Do("WriteBytes"), Do("BeginSend")>>
    BY <1>1 DEF Inv, ClosedIsDue, Threads
  <2>2. sendBuffer'.writerIndex = IntSize
    BY <1>5, <1>6
  <2> QED
    BY <1>7, <2>1, <2>2 DEF Stage, Prefixed
<1>9. Undisturbed'
  BY <1>6 DEF Undisturbed
<1>10. coderBuffer'.len = BufferSize => coderBuffer.len = BufferSize
  BY <1>2, <1>3, <1>4, <1>7
<1>11. OneLength'
  <2>1. SUFFICES ASSUME coderBuffer'.len = BufferSize, NEW i \in DOMAIN inFlight'
                 PROVE  /\ ~inFlight'[i].own /\ inFlight'[i].length = IntSize + BufferSize
                        /\ sendBuffer'.len >= IntSize + BufferSize /\ Prefixed(BufferSize)'
    BY DEF OneLength
  <2>2. /\ ~inFlight[i].own /\ inFlight[i].length = IntSize + BufferSize
        /\ sendBuffer.len >= IntSize + BufferSize /\ i \in DOMAIN inFlight
    BY <1>6, <1>10, <2>1 DEF Inv, OneLength
  <2>3. begun.len = sendBuffer.len /\ sendBuffer.len \in Nat
    BY <1>5 DEF Inv, Sound, IsBuffer
  <2>4. Prefixed(BufferSize)'
    BY <1>7, <2>1 DEF Prefixed
  <2> QED
    BY <1>6, <2>2, <2>3, <2>4
<1>12. UndisturbedBeginsAsGiven' /\ FramesSurviveOverlap'
  BY <1>1, <1>10 DEF Inv, UndisturbedBeginsAsGiven, FramesSurviveOverlap
<1>13. Sound(coderBuffer') /\ Sound(sendBuffer')
  BY <1>1, <1>3, <1>5, <1>6
<1> QED
  BY <1>6, <1>8, <1>9, <1>11, <1>12, <1>13 DEF Inv, Sound, IsBuffer

(* What the main thread does at Send's steps.                                 *)
LEMMA MainIsSending ==
  ASSUME Inv, NEW op \in {"WriteBytes", "BeginSend"}, Runs("main", op)
  PROVE  /\ op = "WriteBytes" => /\ todo["main"] = <<Do("WriteBytes"), Do("BeginSend")>>
                                 /\ sendBuffer.writerIndex = IntSize /\ Prefixed(coderBuffer.len)
         /\ op = "BeginSend" => todo["main"] = <<Do("BeginSend")>> /\ Filled
<1>1. Head(<<Do("WriteBytes"), Do("BeginSend")>>).op = "WriteBytes"
      /\ Head(<<Do("BeginSend")>>).op = "BeginSend"
  BY DEF Do, Op
<1>2. ~NoSending(todo["main"])
  <2>1. todo["main"] \in Seq(Steps) /\ todo["main"] # <<>>
    BY DEF Inv, ClosedIsDue, Threads, Runs
  <2>2. 1 \in DOMAIN todo["main"] /\ todo["main"][1].op = op
    BY <2>1 DEF Runs
  <2> QED
    BY <2>2 DEF NoSending
<1> QED
  BY <1>1, <1>2 DEF Inv, Stage, Runs

(* The Coder's whole array is put behind its length.                          *)
LEMMA WriteMessageKeepsInv ==
  ASSUME Inv, ClosedIsDue', WriteMessage
  PROVE  Inv'
<1> DEFINE raw == GetRaw(coderBuffer)
           full == Write(sendBuffer, raw)
<1>1. Refill(full) /\ Then("main", <<>>) /\ UNCHANGED <<coderBuffer, arrived>>
  BY DEF WriteMessage, Encoded
<1>2. /\ todo["main"] = <<Do("WriteBytes"), Do("BeginSend")>>
      /\ sendBuffer.writerIndex = IntSize /\ Prefixed(coderBuffer.len)
  BY MainIsSending DEF WriteMessage
<1>3. IntSize \in Nat /\ BufferSize \in Nat
  BY SizeAssumption, NetAssumption
<1>4. /\ raw \in Seq(Byte) /\ Len(raw) = coderBuffer.len /\ coderBuffer.len \in Nat
      /\ \A i \in 1..coderBuffer.len : raw[i] = coderBuffer.data[i - 1]
  BY RawOf DEF Inv
<1> HIDE DEF raw
<1>5. /\ Sound(full) /\ full.writerIndex = IntSize + coderBuffer.len
      /\ full.len = IF IntSize + coderBuffer.len > sendBuffer.len
                    THEN IntSize + coderBuffer.len ELSE sendBuffer.len
      /\ \A i \in 0..(IntSize - 1) : full.data[i] = sendBuffer.data[i]
      /\ \A i \in 1..coderBuffer.len : full.data[IntSize + i - 1] = raw[i]
  <2>1. Sound(full) /\ full.writerIndex = sendBuffer.writerIndex + Len(raw)
    BY <1>4, WriteEffect DEF Inv
  <2>2. full.len = IF sendBuffer.writerIndex + Len(raw) > sendBuffer.len
                   THEN sendBuffer.writerIndex + Len(raw) ELSE sendBuffer.len
    BY <1>4, WriteEffect DEF Inv
  <2>3. \A i \in 0..(sendBuffer.writerIndex - 1) : full.data[i] = sendBuffer.data[i]
    BY <1>4, WriteEffect DEF Inv
  <2>4. \A i \in 1..Len(raw) : full.data[sendBuffer.writerIndex + i - 1] = raw[i]
    BY <1>4, WriteEffect DEF Inv
  <2> HIDE DEF full
  <2> QED
    BY <1>2, <1>4, <2>1, <2>2, <2>3, <2>4
<1> HIDE DEF full
<1>6. /\ sendBuffer' = full /\ inFlight' \in Seq(Sends) /\ DOMAIN inFlight' = DOMAIN inFlight
      /\ \A i \in DOMAIN inFlight :
           /\ inFlight'[i].refilled
           /\ inFlight'[i].length = inFlight[i].length
           /\ ~inFlight[i].own /\ ~(full.len > sendBuffer.len) => ~inFlight'[i].own
  BY <1>1, RefillEffect DEF Inv
<1>7. \A n : Prefixed(n) => \A i \in 1..IntSize : sendBuffer'.data[i - 1] = ToBytes(n, IntSize)[i]
  <2>1. \A i \in 1..IntSize : i - 1 \in 0..(IntSize - 1)
    BY <1>3
  <2> QED
    BY <1>5, <1>6, <2>1 DEF Prefixed
<1>8. Filled'
  <2>1. Prefixed(coderBuffer.len)'
    BY <1>1, <1>2, <1>7 DEF Prefixed
  <2>2. \A i \in 1..coderBuffer.len :
          sendBuffer'.data[IntSize + i - 1] = coderBuffer.data[i - 1]
    BY <1>4, <1>5, <1>6
  <2> QED
    BY <1>1, <1>5, <1>6, <2>1, <2>2 DEF Filled
<1>9. Stage'
  <2>1. Tail(<<Do("WriteBytes"), Do("BeginSend")>>) = <<Do("BeginSend")>>
    OBVIOUS
  <2>2. <<>> \o <<Do("BeginSend")>> = <<Do("BeginSend")>>
    OBVIOUS
  <2>3. todo'["main"] = <<Do("BeginSend")>>
    BY <1>1, <1>2, <2>1, <2>2 DEF Then, Inv, ClosedIsDue, Threads
  <2> QED
    BY <1>8, <2>3 DEF Stage
<1>10. Undisturbed'
  BY <1>6 DEF Undisturbed
<1>11. OneLength'
  <2>1. SUFFICES ASSUME coderBuffer.len = BufferSize, NEW i \in DOMAIN inFlight
                 PROVE  /\ ~inFlight'[i].own /\ inFlight'[i].length = IntSize + BufferSize
                        /\ sendBuffer'.len >= IntSize + BufferSize /\ Prefixed(BufferSize)'
    BY <1>1, <1>6 DEF OneLength
  <2>2. /\ ~inFlight[i].own /\ inFlight[i].length = IntSize + BufferSize
        /\ sendBuffer.len >= IntSize + BufferSize /\ Prefixed(BufferSize)
    BY <2>1 DEF Inv, OneLength
  <2>3. full.len = sendBuffer.len /\ sendBuffer.len \in Nat
    <3>1. sendBuffer.len \in Nat
      BY DEF Inv, Sound, IsBuffer
    <3> QED
      BY <1>3, <1>5, <2>1, <2>2, <3>1
  <2>4. Prefixed(BufferSize)'
    BY <1>7, <2>2 DEF Prefixed
  <2> QED
    BY <1>6, <2>2, <2>3, <2>4
<1>12. UndisturbedBeginsAsGiven' /\ FramesSurviveOverlap'
  BY <1>1 DEF Inv, UndisturbedBeginsAsGiven, FramesSurviveOverlap
<1>13. Sound(coderBuffer') /\ Sound(sendBuffer')
  BY <1>1, <1>5, <1>6 DEF Inv
<1> QED
  BY <1>6, <1>9, <1>10, <1>11, <1>12, <1>13 DEF Inv, Sound, IsBuffer

LEMMA ContentOf ==
  ASSUME NEW b, Sound(b)
  PROVE  /\ ReadableBytes(b) = b.writerIndex /\ b.writerIndex \in Nat
         /\ Content(b) \in Seq(Byte) /\ Len(Content(b)) = b.writerIndex
         /\ \A i \in 1..b.writerIndex : Content(b)[i] = b.data[i - 1]
<1> DEFINE n == b.writerIndex
<1>1. /\ n \in Nat /\ b.len \in Nat /\ n <= b.len /\ b.readerIndex = 0
      /\ b.data \in [0..(b.len - 1) -> Byte]
  BY DEF Sound, IsBuffer
<1>2. ReadableBytes(b) = n
  BY <1>1 DEF ReadableBytes
<1>3. \A i \in 1..n : b.data[i - 1] \in Byte /\ 0 + i - 1 = i - 1
  BY <1>1
<1>4. Content(b) = [i \in 1..n |-> b.data[i - 1]]
  <2>1. Content(b) = [i \in 1..n |-> b.data[0 + i - 1]]
    BY <1>1, <1>2 DEF Content, Slice
  <2> HIDE DEF n
  <2> QED
    BY <1>3, <2>1
<1> HIDE DEF n
<1>5. [i \in 1..n |-> b.data[i - 1]] \in Seq(Byte)
  BY <1>1, <1>3, IsASeq
<1>6. Content(b) \in Seq(Byte) /\ Len(Content(b)) = n /\ \A i \in 1..n : Content(b)[i] = b.data[i - 1]
  BY <1>1, <1>4, <1>5, LenProperties
<1> QED
  BY <1>1, <1>2, <1>6 DEF n

(* The socket is given the array.                                             *)
LEMMA BeginSendKeepsInv ==
  ASSUME Inv, ClosedIsDue', BeginSend
  PROVE  Inv'
<1> DEFINE new == Begun(ReadableBytes(sendBuffer), Content(coderBuffer))
<1>1. /\ UNCHANGED <<coderBuffer, sendBuffer, arrived>>
      /\ \/ inFlight' = Append(inFlight, new) /\ Then("main", <<>>)
         \/ inFlight' = inFlight /\ Then("main", <<Announce("ERROR")>>)
  BY DEF BeginSend
<1>2. todo["main"] = <<Do("BeginSend")>> /\ Filled
  BY MainIsSending DEF BeginSend
<1>3. IntSize \in Nat /\ BufferSize \in Nat
  BY SizeAssumption, NetAssumption
<1>4. /\ ReadableBytes(sendBuffer) = IntSize + coderBuffer.len
      /\ Content(coderBuffer) \in Seq(Byte)
      /\ coderBuffer.len \in Nat /\ sendBuffer.len \in Nat
      /\ IntSize + coderBuffer.len <= sendBuffer.len
  <2>1. ReadableBytes(sendBuffer) = sendBuffer.writerIndex
    BY ContentOf DEF Inv
  <2>2. Content(coderBuffer) \in Seq(Byte)
    BY ContentOf DEF Inv
  <2>3. coderBuffer.len \in Nat /\ sendBuffer.len \in Nat /\ sendBuffer.writerIndex <= sendBuffer.len
    BY DEF Inv, Sound, IsBuffer
  <2> QED
    BY <1>2, <2>1, <2>2, <2>3 DEF Filled
<1>5. /\ new \in Sends /\ ~new.own /\ new.length = IntSize + coderBuffer.len
      /\ new.message = Content(coderBuffer)
  <2>1. <<>> \in Seq(Byte)
    BY EmptySeq
  <2> QED
    BY <1>3, <1>4, <2>1 DEF Begun, Sends
<1> HIDE DEF new
<1>6. /\ inFlight' \in Seq(Sends)
      /\ \A i \in DOMAIN inFlight' :
           (i \in DOMAIN inFlight /\ inFlight'[i] = inFlight[i]) \/ inFlight'[i] = new
  <2>1. inFlight \in Seq(Sends) /\ Len(inFlight) \in Nat /\ DOMAIN inFlight = 1..Len(inFlight)
    BY LenProperties DEF Inv
  <2>2. CASE inFlight' = Append(inFlight, new)
    <3>1. /\ inFlight' \in Seq(Sends) /\ Len(inFlight') = Len(inFlight) + 1
          /\ \A i \in 1..Len(inFlight) : inFlight'[i] = inFlight[i]
          /\ inFlight'[Len(inFlight) + 1] = new
      BY <1>5, <2>1, <2>2, AppendProperties
    <3>2. \A i \in DOMAIN inFlight' : i \in 1..Len(inFlight) \/ i = Len(inFlight) + 1
      BY <2>1, <3>1, LenProperties
    <3> QED
      BY <2>1, <3>1, <3>2
  <2>3. CASE inFlight' = inFlight
    BY <2>1, <2>3
  <2> QED
    BY <1>1, <2>2, <2>3
<1>7. Stage'
  <2>1. Tail(<<Do("BeginSend")>>) = <<>> /\ <<>> \o <<>> = <<>>
        /\ <<Announce("ERROR")>> \o <<>> = <<Announce("ERROR")>>
    OBVIOUS
  <2>2. todo'["main"] = <<>> \/ todo'["main"] = <<Announce("ERROR")>>
    BY <1>1, <1>2, <2>1 DEF Then, Inv, ClosedIsDue, Threads
  <2>3. NoSending(<<>>) /\ NoSending(<<Announce("ERROR")>>)
    BY DEF NoSending, Announce, Op
  <2> QED
    BY <2>2, <2>3 DEF Stage
<1>8. Filled'
  BY <1>1, <1>2 DEF Filled, Prefixed
<1>9. Undisturbed'
  <2>1. Content(coderBuffer)' = Content(coderBuffer)
    BY <1>1
  <2>2. ASSUME NEW i \in DOMAIN inFlight', ~inFlight'[i].refilled
        PROVE  /\ ~inFlight'[i].own
               /\ inFlight'[i].length = IntSize + coderBuffer.len
               /\ inFlight'[i].message = Content(coderBuffer)
    BY <1>5, <1>6, <2>2 DEF Inv, Undisturbed
  <2> QED
    BY <1>1, <1>8, <2>1, <2>2 DEF Undisturbed
<1>10. OneLength'
  <2>1. ASSUME coderBuffer.len = BufferSize, NEW i \in DOMAIN inFlight'
        PROVE  ~inFlight'[i].own /\ inFlight'[i].length = IntSize + BufferSize
    BY <1>5, <1>6, <2>1 DEF Inv, OneLength
  <2>2. ASSUME coderBuffer.len = BufferSize
        PROVE  sendBuffer.len >= IntSize + BufferSize /\ Prefixed(BufferSize)
    BY <1>2, <1>3, <1>4, <2>2 DEF Filled
  <2> QED
    BY <1>1, <2>1, <2>2 DEF OneLength, Prefixed
<1>11. UndisturbedBeginsAsGiven' /\ FramesSurviveOverlap'
  BY <1>1 DEF Inv, UndisturbedBeginsAsGiven, FramesSurviveOverlap
<1> QED
  BY <1>1, <1>6, <1>7, <1>9, <1>10, <1>11 DEF Inv, Sound, IsBuffer

(* The socket transmits what the array holds by then.                         *)
LEMMA SendedKeepsInv ==
  ASSUME Inv, ClosedIsDue', Sended
  PROVE  Inv'
<1> DEFINE s == inFlight[1]
           raw == GetRaw(sendBuffer)
           array == IF s.own THEN s.array ELSE raw
           new == [bytes |-> SubSeq(array, 1, s.length), message |-> s.message,
                   refilled |-> s.refilled]
<1>1. /\ UNCHANGED <<coderBuffer, sendBuffer, todo>> /\ inFlight # <<>>
      /\ inFlight' = Tail(inFlight) /\ (arrived' = new \/ arrived' = arrived)
  BY DEF Sended, vars
<1>2. IntSize \in Nat /\ BufferSize \in Nat
  BY SizeAssumption, NetAssumption
<1>3. /\ inFlight' \in Seq(Sends) /\ 1 \in DOMAIN inFlight
      /\ \A i \in DOMAIN inFlight' : i + 1 \in DOMAIN inFlight /\ inFlight'[i] = inFlight[i + 1]
  <2>1. inFlight \in Seq(Sends)
    BY DEF Inv
  <2> QED
    BY <1>1, <2>1
<1>4. /\ raw \in Seq(Byte) /\ Len(raw) = sendBuffer.len /\ sendBuffer.len \in Nat
      /\ \A i \in 1..sendBuffer.len : raw[i] = sendBuffer.data[i - 1]
  BY RawOf DEF Inv
<1> HIDE DEF raw
<1>5. ASSUME NEW n \in Nat, IntSize + n <= sendBuffer.len, Prefixed(n),
             ~s.own, s.length = IntSize + n
      PROVE  /\ IsFrame(new) /\ Body(new) \in Seq(Byte) /\ Len(Body(new)) = n
             /\ \A i \in 1..n : Body(new)[i] = sendBuffer.data[IntSize + i - 1]
  <2>1. new.bytes = SubSeq(raw, 1, IntSize + n)
    BY <1>5
  <2> HIDE DEF new
  <2>2. ASSUME NEW i \in 1..IntSize PROVE raw[i] = ToBytes(n, IntSize)[i]
    <3>1. i \in 1..sendBuffer.len
      BY <1>2, <1>4, <1>5
    <3> QED
      BY <1>4, <1>5, <3>1 DEF Prefixed
  <2>3. /\ IsFrame(new) /\ Body(new) \in Seq(Byte) /\ Len(Body(new)) = n
        /\ \A i \in 1..n : Body(new)[i] = raw[IntSize + i]
    BY <1>4, <1>5, <2>1, <2>2, CutIsFrame
  <2>4. ASSUME NEW i \in 1..n PROVE Body(new)[i] = sendBuffer.data[IntSize + i - 1]
    <3>1. IntSize + i \in 1..sendBuffer.len
      BY <1>2, <1>4, <1>5
    <3>2. Body(new)[i] = raw[IntSize + i]
      BY <2>3
    <3>3. raw[IntSize + i] = sendBuffer.data[IntSize + i - 1]
      <4> DEFINE k == IntSize + i
      <4> HIDE DEF k
      <4>1. k \in 1..sendBuffer.len
        BY <3>1 DEF k
      <4>2. raw[k] = sendBuffer.data[k - 1]
        BY <1>4, <4>1
      <4>3. k - 1 = IntSize + i - 1
        BY <1>2 DEF k
      <4> QED
        BY <4>2, <4>3 DEF k
    <3> QED
      BY <3>2, <3>3
  <2> QED
    BY <2>3, <2>4
<1>6. ASSUME ~s.refilled
      PROVE  IsFrame(new) /\ SubSeq(Body(new), 1, Len(new.message)) = new.message
  <2> DEFINE n == coderBuffer.len
             m == coderBuffer.writerIndex
             message == Content(coderBuffer)
             body == Body(new)
  <2>1. ~s.own /\ Filled /\ s.length = IntSize + n /\ s.message = message
    BY <1>3, <1>6 DEF Inv, Undisturbed
  <2>2. n \in Nat /\ m \in Nat /\ m <= n /\ sendBuffer.writerIndex <= sendBuffer.len
    BY DEF Inv, Sound, IsBuffer
  <2>3. IntSize + n <= sendBuffer.len /\ Prefixed(n)
    BY <1>4, <2>1, <2>2 DEF Filled
  <2>4. /\ IsFrame(new) /\ body \in Seq(Byte) /\ Len(body) = n
        /\ \A i \in 1..n : body[i] = sendBuffer.data[IntSize + i - 1]
    BY <1>5, <2>1, <2>2, <2>3
  <2>5. message \in Seq(Byte) /\ Len(message) = m
        /\ \A i \in 1..m : message[i] = coderBuffer.data[i - 1]
    BY ContentOf DEF Inv
  <2>6. \A i \in 1..n : sendBuffer.data[IntSize + i - 1] = coderBuffer.data[i - 1]
    BY <2>1 DEF Filled
  <2>7. new.message = message
    BY <2>1
  <2> HIDE DEF n, m, message, body, new
  <2>8. ASSUME NEW i \in 1..m PROVE body[i] \in Byte /\ 1 + i - 1 = i /\ body[i] = message[i]
    <3>1. i \in 1..n /\ 1 + i - 1 = i
      BY <2>2
    <3>2. body[i] \in Byte
      BY <2>4, <3>1, LenProperties
    <3>3. body[i] = sendBuffer.data[IntSize + i - 1]
      BY <2>4, <3>1
    <3>4. sendBuffer.data[IntSize + i - 1] = coderBuffer.data[i - 1]
      BY <2>6, <3>1
    <3>5. message[i] = coderBuffer.data[i - 1]
      BY <2>5
    <3> QED
      BY <3>1, <3>2, <3>3, <3>4, <3>5
  <2>9. SubSeq(body, 1, m) \in Seq(Byte) /\ Len(SubSeq(body, 1, m)) = m
        /\ \A i \in 1..m : SubSeq(body, 1, m)[i] = body[1 + i - 1]
    <3>1. m - 1 + 1 = m /\ (IF 1 <= m THEN m ELSE 0) = m
      BY <2>2
    <3> QED
      BY <2>2, <2>8, <3>1, SubSeqProperties
  <2>10. SubSeq(body, 1, m) = message
    BY <2>5, <2>8, <2>9, SeqEqual
  <2> QED
    BY <2>4, <2>5, <2>7, <2>10 DEF body
<1>7. ASSUME coderBuffer.len = BufferSize PROVE IsFrame(new)
  <2>1. /\ ~s.own /\ s.length = IntSize + BufferSize
        /\ sendBuffer.len >= IntSize + BufferSize /\ Prefixed(BufferSize)
    BY <1>3, <1>7 DEF Inv, OneLength
  <2>2. IntSize + BufferSize <= sendBuffer.len
    BY <1>2, <1>4, <2>1
  <2> HIDE DEF new, s
  <2> QED
    BY <1>2, <1>5, <2>1, <2>2
<1>8. new.refilled = s.refilled
  OBVIOUS
<1> HIDE DEF new
<1>9. UndisturbedBeginsAsGiven'
  <2>1. CASE arrived' = new
    BY <1>6, <1>8, <2>1 DEF UndisturbedBeginsAsGiven, IsFrame, Prefix, Body
  <2>2. CASE arrived' = arrived
    BY <2>2 DEF Inv, UndisturbedBeginsAsGiven
  <2> QED
    BY <1>1, <2>1, <2>2
<1>10. FramesSurviveOverlap'
  <2>1. CASE arrived' = new
    BY <1>1, <1>7, <2>1 DEF FramesSurviveOverlap, IsFrame, Prefix, Body
  <2>2. CASE arrived' = arrived
    BY <1>1, <2>2 DEF Inv, FramesSurviveOverlap
  <2> QED
    BY <1>1, <2>1, <2>2
<1>11. Stage'
  BY <1>1 DEF Inv, Stage, Filled, Prefixed
<1>12. Undisturbed' /\ OneLength'
  BY <1>1, <1>3 DEF Inv, Undisturbed, OneLength, Filled, Prefixed, Content, Slice, ReadableBytes
<1> QED
  BY <1>1, <1>3, <1>9, <1>10, <1>11, <1>12 DEF Inv, Sound, IsBuffer

-----------------------------------------------------------------------------
LEMMA InitInv == ClientInit => Inv
<1> SUFFICES ASSUME ClientInit PROVE Inv
  OBVIOUS
<1>1. /\ coderBuffer = NewBuffer(BufferSize) /\ sendBuffer = NewBuffer(BufferSize)
      /\ inFlight = <<>> /\ arrived = Nothing /\ todo["main"] = <<>>
  BY DEF ClientInit, Init, Threads
<1>2. Sound(NewBuffer(BufferSize))
  BY BaseAssumption, NetAssumption DEF Sound, IsBuffer, NewBuffer, Byte
<1>3. Stage
  BY <1>1 DEF Stage, NoSending
<1>4. inFlight \in Seq(Sends) /\ Undisturbed /\ OneLength
  BY <1>1 DEF Undisturbed, OneLength
<1>5. UndisturbedBeginsAsGiven /\ FramesSurviveOverlap
  BY <1>1 DEF UndisturbedBeginsAsGiven, FramesSurviveOverlap
<1> QED
  BY <1>1, <1>2, <1>3, <1>4, <1>5, InitDue DEF Inv

LEMMA StepInv == Inv /\ [ClientNext]_clientVars => Inv'
<1> SUFFICES ASSUME Inv, [ClientNext]_clientVars PROVE Inv'
  OBVIOUS
<1>1. ClosedIsDue'
  BY ClientStepKeeps DEF Inv
<1>2. CASE Next /\ UNCHANGED sending
  <2>1. todo'["main"] = todo["main"] \/ NoSending(todo'["main"])
    BY <1>2, MainGoesOn DEF Inv
  <2> QED
    BY <1>1, <1>2, <2>1, OthersKeepInv
<1>3. ASSUME NEW message \in Messages, Send(message) PROVE Inv'
  BY <1>1, <1>3, SendKeepsInv
<1>4. CASE SendStep
  BY <1>1, <1>4, WriteMessageKeepsInv, BeginSendKeepsInv DEF SendStep
<1>5. CASE Sended
  BY <1>1, <1>5, SendedKeepsInv
<1>6. CASE UNCHANGED clientVars
  <2>1. UNCHANGED sending /\ todo' = todo
    BY <1>6 DEF clientVars, vars
  <2> QED
    BY <1>1, <2>1, OthersKeepInv
<1> QED
  BY <1>2, <1>3, <1>4, <1>5, <1>6 DEF ClientNext

LEMMA InvHolds == ClientSpec => []Inv
<1> QED
  BY InitInv, StepInv, PTL DEF ClientSpec

(* What the socket reads before the next Send is a whole frame that begins with *)
(* the message given, whatever the other threads do meanwhile.                *)
THEOREM BeginsAsGiven == ClientSpec => []UndisturbedBeginsAsGiven
  BY InvHolds, PTL DEF Inv

(* As long as no message has outgrown the Coder's array, also a send that the  *)
(* next one overtakes is a whole frame.                                       *)
THEOREM OverlapKeepsFrames == ClientSpec => []FramesSurviveOverlap
  BY InvHolds, PTL DEF Inv

-----------------------------------------------------------------------------
(* Part three: the list of the state changes.                                 *)

\* The event is in the k-th place of the list's array or of one that is to
\* replace it.
Stands(k, e) ==
  \/ k \in DOMAIN items /\ items[k] = e
  \/ \E t \in Raisers : k \in DOMAIN adding[t].copy /\ adding[t].copy[k] = e

\* An event is with the thread that adds it, or gone, or in one place, the same
\* of all arrays.
OnePlace ==
  /\ \A e \in Nat \ {0} : \A k \in Nat : Stands(k, e) =>
       /\ e <= raised
       /\ \A j \in Nat : Stands(j, e) => j = k
       /\ \A t \in Raisers : Adds(t) => adding[t].event # e
  /\ handed \cup settled \cup unheard \subseteq 1..raised
  /\ \A t \in Raisers : Adds(t) =>
       /\ adding[t].event \in 1..raised
       /\ adding[t].event \notin handed \cup settled \cup unheard
       /\ \A u \in Raisers \ {t} : Adds(u) => adding[u].event # adding[t].event

\* What has been cleared away is in no array, unless it was being copied.
ClearedIsGone ==
  \A e \in (settled \cup unheard) \ overtaken : \A k \in Nat : ~Stands(k, e)

\* While an Update runs, what it has handed over lies behind its cursor.
Behind == IF updating = "handler" THEN cursor + 1 ELSE cursor
HandedIsBehind ==
  updating \in {"loop", "get", "read", "handler"} =>
    \A e \in handed : \A k \in Nat : Stands(k, e) => k <= Behind

\* An Add that nobody meets finds room where it looked for it, and its place
\* empty.
AloneAdds ==
  ~raced =>
    /\ size <= Len(items) /\ \A k \in DOMAIN items : k > size => items[k] = 0
    /\ \A t \in Raisers : Adds(t) =>
         /\ updating = "no" \/ (t = Main /\ updating = "handler")
         /\ \A u \in Raisers \ {t} : ~Adds(u)
         /\ adding[t].at = "install" =>
              /\ size < Len(adding[t].copy)
              /\ \A k \in 1..size : adding[t].copy[k] = items[k]
              /\ \A k \in DOMAIN adding[t].copy : k > size => adding[t].copy[k] = 0
         /\ adding[t].at \in {"take", "read", "count"} => size < Len(items)
         /\ adding[t].at \in {"read", "count", "store"} => adding[t].current
         /\ adding[t].at = "count" => adding[t].slot = size
         /\ adding[t].at = "store" =>
              /\ size = adding[t].slot + 1 /\ items[size] = 0
              /\ updating = "handler" => cursor + 1 < size

\* An Update that nobody meets has handed over what it has passed, and all of
\* it is in the list until it is cleared.
AloneUpdates ==
  ~raced =>
    /\ \A e \in handed : e \in settled \/ Listed(e)
    /\ updating \in {"get", "read", "handler"} => cursor < size
    /\ updating \in {"loop", "get", "read", "handler"} =>
         \A k \in DOMAIN items : k <= Behind => items[k] \in handed \cup {0}
    /\ updating = "clear" => \A k \in DOMAIN items : items[k] \in handed \cup {0}
    /\ updating = "reset" => \A k \in DOMAIN items : items[k] = 0

EventsInv ==
  /\ EventsTypeOK /\ OnePlace /\ ClearedIsGone /\ HandedIsBehind
  /\ AloneAdds /\ AloneUpdates /\ NothingLostAlone
  /\ updating = "skip" => handed = {}

-----------------------------------------------------------------------------
LEMMA ResizedArray ==
  ASSUME NEW array \in Seq(Nat), NEW length \in Nat
  PROVE  /\ Resized(array, length) \in Seq(Nat)
         /\ Len(Resized(array, length)) = length
         /\ DOMAIN Resized(array, length) = 1..length
         /\ \A k \in 1..length : Resized(array, length)[k] = IF k <= Len(array) THEN array[k] ELSE 0
<1>1. \A k \in 1..length : (IF k <= Len(array) THEN array[k] ELSE 0) \in Nat
  OBVIOUS
<1>2. Resized(array, length) \in [1..length -> Nat]
  BY <1>1 DEF Resized
<1>3. Resized(array, length) \in Seq(Nat) /\ Len(Resized(array, length)) = length
  BY <1>2
<1> QED
  BY <1>2, <1>3 DEF Resized

LEMMA NewLengthIs ==
  ASSUME EventsTypeOK
  PROVE  NewLength \in Nat /\ size < NewLength /\ Len(items) <= NewLength
<1>1. size \in Nat /\ Len(items) \in Nat /\ FirstCapacity \in Nat
  BY EventsAssumption DEF EventsTypeOK
<1> QED
  BY <1>1 DEF NewLength, Larger

\* A step of Add or of Update changes neither the places nor the adders.
LEMMA FewerPlaces ==
  ASSUME EventsTypeOK, OnePlace, ClearedIsGone,
         \A e \in Nat \ {0} : \A k \in Nat : Stands(k, e)' => Stands(k, e),
         \A t \in Raisers : Adds(t)' => Adds(t) /\ adding'[t].event = adding[t].event,
         handed' \subseteq handed,
         UNCHANGED <<raised, settled, unheard, overtaken>>
  PROVE  OnePlace' /\ ClearedIsGone'
<1>1. OnePlace'
  <2>1. ASSUME NEW e \in Nat \ {0}, NEW k \in Nat, Stands(k, e)'
        PROVE  /\ e <= raised'
               /\ \A j \in Nat : Stands(j, e)' => j = k
               /\ \A t \in Raisers : Adds(t)' => adding'[t].event # e
    BY <2>1 DEF OnePlace
  <2>2. (handed \cup settled \cup unheard)' \subseteq 1..raised'
    BY DEF OnePlace
  <2>3. ASSUME NEW t \in Raisers, Adds(t)'
        PROVE  /\ adding'[t].event \in 1..raised'
               /\ adding'[t].event \notin (handed \cup settled \cup unheard)'
               /\ \A u \in Raisers \ {t} : Adds(u)' => adding'[u].event # adding'[t].event
    BY <2>3 DEF OnePlace
  <2> QED
    BY <2>1, <2>2, <2>3 DEF OnePlace
<1>2. ClearedIsGone'
  BY DEF ClearedIsGone, OnePlace, EventsTypeOK
<1> QED
  BY <1>1, <1>2

-----------------------------------------------------------------------------
LEMMA EventsInitInv == EventsInit => EventsInv
<1>1. SUFFICES ASSUME EventsInit PROVE EventsInv
  OBVIOUS
<1>2. Idle.at = "idle" /\ Idle.copy = <<>> /\ <<>> \in Seq(Nat) /\ DOMAIN <<>> = {} /\ Len(<<>>) = 0
  BY DEF Idle
<1>3. EventsTypeOK
  BY <1>1, <1>2 DEF EventsInit, EventsTypeOK, Idle
<1>4. \A t \in Raisers : ~Adds(t) /\ adding[t].copy = <<>>
  BY <1>1, <1>2 DEF EventsInit, Adds
<1>5. \A e, k : ~Stands(k, e)
  BY <1>1, <1>2, <1>4 DEF EventsInit, Stands
<1>6. OnePlace /\ ClearedIsGone /\ HandedIsBehind
  BY <1>1, <1>4, <1>5 DEF EventsInit, OnePlace, ClearedIsGone, HandedIsBehind
<1>7. AloneAdds /\ AloneUpdates /\ NothingLostAlone
  BY <1>1, <1>2, <1>4 DEF EventsInit, AloneAdds, AloneUpdates, NothingLostAlone
<1> QED
  BY <1>1, <1>3, <1>6, <1>7 DEF EventsInit, EventsInv

-----------------------------------------------------------------------------
(* The steps of Add.                                                          *)

\* What a step of Add leaves alone, when it brings no event to a new place.
LEMMA AddFewer ==
  ASSUME EventsInv,
         \A e \in Nat \ {0} : \A k \in Nat : Stands(k, e)' => Stands(k, e),
         \A t \in Raisers : Adds(t)' => Adds(t) /\ adding'[t].event = adding[t].event,
         UNCHANGED <<updating, cursor, history>>
  PROVE  OnePlace' /\ ClearedIsGone' /\ HandedIsBehind' /\ (updating = "skip" => handed = {})'
<1>1. UNCHANGED <<updating, cursor, raised, handed, settled, unheard, overtaken>>
  BY DEF history
<1>2. OnePlace' /\ ClearedIsGone'
  BY <1>1, FewerPlaces DEF EventsInv
<1>3. \A e \in handed : e \in Nat \ {0}
  BY DEF EventsInv, OnePlace, EventsTypeOK
<1>4. HandedIsBehind'
  BY <1>1, <1>3 DEF EventsInv, HandedIsBehind, Behind
<1> QED
  BY <1>1, <1>2, <1>4 DEF EventsInv

\* A thread alone in the list is not met by an Update either.
LEMMA AddsAlone ==
  ASSUME EventsInv, NEW t \in Raisers, Adds(t), Meets(t), ~raced'
  PROVE  /\ ~raced /\ \A u \in Raisers \ {t} : ~Adds(u)
         /\ updating = "no" \/ (t = Main /\ updating = "handler")
BY DEF Meets, EventsInv, AloneAdds

\* A step that leaves the threads' events in Add, or in the list.
LEMMA AddLosesNothing ==
  ASSUME EventsInv, ~raced,
         \A e \in Nat : Listed(e) => Listed(e)',
         \A t \in Raisers : Adds(t) => Adds(t)' /\ adding'[t].event = adding[t].event,
         UNCHANGED history
  PROVE  NothingLostAlone'
<1>1. UNCHANGED <<raised, handed, settled, unheard>> /\ \A e \in 1..raised : e \in Nat
  BY DEF history, EventsInv, EventsTypeOK
<1> QED
  BY <1>1 DEF EventsInv, NothingLostAlone

LEMMA AddTestsKeeps == ASSUME EventsInv, NEW t \in Raisers, AddTests(t) PROVE EventsInv'
<1> USE DEF history, theList
<1> DEFINE place == IF size = Len(items) THEN "copy" ELSE "take"
<1>1. /\ EventsTypeOK /\ OnePlace /\ ClearedIsGone /\ HandedIsBehind
      /\ AloneAdds /\ AloneUpdates /\ NothingLostAlone
  BY DEF EventsInv
<1>2. UNCHANGED <<size, items, listening, updating, cursor, handed, settled, unheard, overtaken>>
  BY DEF AddTests
<1>3. /\ raised' = raised + 1 /\ raised \in Nat
      /\ adding[t] = Idle /\ adding \in [Raisers -> [at :
           {"idle", "copy", "install", "take", "read", "count", "store"},
           slot : Nat, event : Nat, copy : Seq(Nat), current : BOOLEAN]]
  BY <1>1 DEF AddTests, EventsTypeOK
<1>4. /\ adding' = [adding EXCEPT ![t] =
           [at |-> place, slot |-> 0, event |-> raised + 1, copy |-> <<>>, current |-> FALSE]]
      /\ place \in {"copy", "take"} /\ <<>> \in Seq(Nat) /\ ~Adds(t)
  BY <1>3 DEF AddTests, Idle, Adds
<1> HIDE DEF place
<1>5. /\ adding'[t] = [at |-> place, slot |-> 0, event |-> raised + 1, copy |-> <<>>, current |-> FALSE]
      /\ \A u \in Raisers \ {t} : adding'[u] = adding[u]
  BY <1>3, <1>4
<1>6. /\ Adds(t)' /\ adding'[t].event = raised + 1 /\ adding'[t].copy = <<>>
      /\ adding'[t].at = place
      /\ \A u \in Raisers \ {t} : Adds(u)' <=> Adds(u)
  BY <1>4, <1>5 DEF Adds
<1>7. EventsTypeOK'
  <2>1. adding' \in [Raisers -> [at :
           {"idle", "copy", "install", "take", "read", "count", "store"},
           slot : Nat, event : Nat, copy : Seq(Nat), current : BOOLEAN]]
    BY <1>3, <1>4
  <2>2. raced' \in BOOLEAN
    BY DEF AddTests, Meets
  <2> QED
    BY <1>1, <1>2, <1>3, <2>1, <2>2 DEF EventsTypeOK
<1>8. \A e, k : Stands(k, e)' => Stands(k, e)
  BY <1>2, <1>5, <1>6 DEF Stands
<1>9. OnePlace'
  <2>1. ASSUME NEW e \in Nat \ {0}, NEW k \in Nat, Stands(k, e)'
        PROVE  /\ e <= raised'
               /\ \A j \in Nat : Stands(j, e)' => j = k
               /\ \A u \in Raisers : Adds(u)' => adding'[u].event # e
    <3>1. e <= raised /\ \A j \in Nat : Stands(j, e)' => j = k
      BY <1>1, <1>8, <2>1 DEF OnePlace
    <3>2. ASSUME NEW u \in Raisers, Adds(u)' PROVE adding'[u].event # e
      <4>1. CASE u = t
        BY <1>3, <1>6, <3>1, <4>1
      <4>2. CASE u # t
        <5>1. Adds(u) /\ adding'[u].event = adding[u].event
          BY <1>5, <1>6, <3>2, <4>2
        <5> QED
          BY <1>1, <1>8, <2>1, <5>1 DEF OnePlace
      <4> QED
        BY <4>1, <4>2
    <3> QED
      BY <1>3, <3>1, <3>2
  <2>2. (handed \cup settled \cup unheard)' \subseteq 1..raised'
    BY <1>1, <1>2, <1>3 DEF OnePlace
  <2>3. ASSUME NEW u \in Raisers, Adds(u)'
        PROVE  /\ adding'[u].event \in 1..raised'
               /\ adding'[u].event \notin (handed \cup settled \cup unheard)'
               /\ \A v \in Raisers \ {u} : Adds(v)' => adding'[v].event # adding'[u].event
    BY <1>1, <1>2, <1>3, <1>5, <1>6, <2>3 DEF OnePlace
  <2> QED
    BY <2>1, <2>2, <2>3 DEF OnePlace
<1>10. ClearedIsGone'
  BY <1>1, <1>2, <1>8 DEF ClearedIsGone
<1>11. HandedIsBehind' /\ (updating = "skip" => handed = {})'
  BY <1>1, <1>2, <1>8 DEF HandedIsBehind, Behind, EventsInv
<1>12. ASSUME ~raced'
       PROVE  /\ ~raced /\ \A u \in Raisers \ {t} : ~Adds(u)
              /\ updating = "no" \/ (t = Main /\ updating = "handler")
  BY <1>12 DEF AddTests, Meets
<1>13. AloneAdds'
  <2>1. SUFFICES ASSUME ~raced' PROVE AloneAdds'
    BY DEF AloneAdds
  <2>2. size \in Nat /\ Len(items) \in Nat /\ size <= Len(items)
        /\ \A k \in DOMAIN items : k > size => items[k] = 0
    BY <1>1, <1>12, <2>1 DEF AloneAdds, EventsTypeOK
  <2>3. place = "take" => size < Len(items)
    BY <2>2 DEF place
  <2>4. \A u \in Raisers : Adds(u)' => u = t
    BY <1>6, <1>12, <2>1
  <2> QED
    BY <1>2, <1>4, <1>6, <1>12, <2>1, <2>2, <2>3, <2>4 DEF AloneAdds
<1>14. AloneUpdates'
  BY <1>1, <1>2, <1>12 DEF AloneUpdates, Behind, Listed
<1>15. NothingLostAlone'
  <2>1. SUFFICES ASSUME ~raced', NEW e \in 1..raised + 1
                 PROVE  \/ \E u \in Raisers : Adds(u)' /\ adding'[u].event = e
                        \/ Listed(e)
                        \/ e \in handed \cup settled \cup unheard
    BY <1>2, <1>3 DEF NothingLostAlone, Listed
  <2>2. CASE e = raised + 1
    BY <1>6, <2>2
  <2>3. CASE e # raised + 1
    <3>1. e \in 1..raised
      BY <1>3, <2>1, <2>3
    <3> QED
      BY <1>1, <1>4, <1>5, <1>6, <1>12, <2>1, <3>1 DEF NothingLostAlone
  <2> QED
    BY <2>2, <2>3
<1> QED
  BY <1>7, <1>9, <1>10, <1>11, <1>13, <1>14, <1>15 DEF EventsInv

\* What a step of Add that waits in the list does to the thread's record.
LEMMA AddMoves ==
  ASSUME EventsTypeOK, NEW t \in Raisers, Adds(t),
         NEW r \in [at : {"copy", "install", "take", "read", "count", "store"},
                    slot : Nat, event : Nat, copy : Seq(Nat), current : BOOLEAN],
         adding' = [adding EXCEPT ![t] = r], r.event = adding[t].event
  PROVE  /\ adding' \in [Raisers -> [at :
              {"idle", "copy", "install", "take", "read", "count", "store"},
              slot : Nat, event : Nat, copy : Seq(Nat), current : BOOLEAN]]
         /\ adding'[t] = r /\ \A u \in Raisers \ {t} : adding'[u] = adding[u]
         /\ \A u \in Raisers : (Adds(u)' <=> Adds(u)) /\ adding'[u].event = adding[u].event
<1>1. adding \in [Raisers -> [at :
        {"idle", "copy", "install", "take", "read", "count", "store"},
        slot : Nat, event : Nat, copy : Seq(Nat), current : BOOLEAN]]
  BY DEF EventsTypeOK
<1>2. adding'[t] = r /\ \A u \in Raisers \ {t} : adding'[u] = adding[u]
  BY <1>1
<1>3. r.at # "idle"
  OBVIOUS
<1> QED
  BY <1>1, <1>2, <1>3 DEF Adds

LEMMA AddCopiesKeeps == ASSUME EventsInv, NEW t \in Raisers, AddCopies(t) PROVE EventsInv'
<1> DEFINE fits == size < Len(items)
           r == IF fits THEN [adding[t] EXCEPT !.at = "take"]
                ELSE [adding[t] EXCEPT !.at = "install", !.copy = Resized(items, NewLength)]
<1>1. /\ EventsTypeOK /\ OnePlace /\ ClearedIsGone /\ HandedIsBehind
      /\ AloneAdds /\ AloneUpdates /\ NothingLostAlone
  BY DEF EventsInv
<1>2. UNCHANGED <<size, items, listening, updating, cursor, history>> /\ Meets(t)
      /\ UNCHANGED <<raised, handed, settled, unheard, overtaken>>
  BY DEF AddCopies, theList, history
<1>3. Adds(t) /\ adding[t].at = "copy" /\ adding' = [adding EXCEPT ![t] = r]
  BY DEF AddCopies, Adds
<1>4. /\ adding[t] \in [at : {"idle", "copy", "install", "take", "read", "count", "store"},
                       slot : Nat, event : Nat, copy : Seq(Nat), current : BOOLEAN]
      /\ size \in Nat /\ items \in Seq(Nat) /\ Len(items) \in Nat /\ DOMAIN items = 1..Len(items)
  BY <1>1 DEF EventsTypeOK
<1> DEFINE new == Resized(items, NewLength)
<1>5. /\ new \in Seq(Nat) /\ Len(new) > size /\ DOMAIN new = 1..Len(new)
      /\ \A k \in DOMAIN new : k <= Len(items) => new[k] = items[k]
      /\ \A k \in DOMAIN new : ~(k <= Len(items)) => new[k] = 0
  BY <1>1, <1>4, NewLengthIs, ResizedArray
<1>6. /\ r \in [at : {"copy", "install", "take", "read", "count", "store"},
                slot : Nat, event : Nat, copy : Seq(Nat), current : BOOLEAN]
      /\ r.event = adding[t].event
      /\ \/ r.at = "take" /\ fits /\ r.copy = adding[t].copy
         \/ r.at = "install" /\ ~fits /\ r.copy = new
  <2>1. CASE fits
    <3>1. r = [adding[t] EXCEPT !.at = "take"]
      BY <2>1
    <3> QED
      BY <1>4, <2>1, <3>1
  <2>2. CASE ~fits
    BY <1>3, <1>4, <1>5, <2>2
  <2> QED
    BY <2>1, <2>2
<1> HIDE DEF r, new
<1>7. /\ adding' \in [Raisers -> [at :
           {"idle", "copy", "install", "take", "read", "count", "store"},
           slot : Nat, event : Nat, copy : Seq(Nat), current : BOOLEAN]]
      /\ adding'[t] = r /\ \A u \in Raisers \ {t} : adding'[u] = adding[u]
      /\ \A u \in Raisers : (Adds(u)' <=> Adds(u)) /\ adding'[u].event = adding[u].event
  BY <1>1, <1>3, <1>6, AddMoves
<1>8. EventsTypeOK'
  BY <1>1, <1>2, <1>7 DEF EventsTypeOK, Meets
<1>9. \A e \in Nat \ {0} : \A k \in Nat : Stands(k, e)' => Stands(k, e)
  <2>1. SUFFICES ASSUME NEW e \in Nat \ {0}, NEW k \in Nat, Stands(k, e)' PROVE Stands(k, e)
    OBVIOUS
  <2>2. CASE k \in DOMAIN items /\ items[k] = e
    BY <2>2 DEF Stands
  <2>3. ASSUME NEW u \in Raisers, k \in DOMAIN adding'[u].copy, adding'[u].copy[k] = e
        PROVE  Stands(k, e)
    <3>1. CASE u # t \/ fits
      BY <1>6, <1>7, <2>3, <3>1 DEF Stands
    <3>2. CASE u = t /\ ~fits
      <4>1. k \in DOMAIN new /\ new[k] = e
        BY <1>6, <1>7, <2>3, <3>2
      <4>2. k <= Len(items)
        BY <1>5, <2>1, <4>1
      <4>3. k \in DOMAIN items /\ items[k] = e
        BY <1>4, <1>5, <4>1, <4>2
      <4> QED
        BY <4>3 DEF Stands
    <3> QED
      BY <3>1, <3>2
  <2> QED
    BY <1>2, <2>1, <2>2, <2>3 DEF Stands
<1>10. OnePlace' /\ ClearedIsGone' /\ HandedIsBehind' /\ (updating = "skip" => handed = {})'
  BY <1>2, <1>7, <1>9, AddFewer
<1>11. ASSUME ~raced'
       PROVE  /\ ~raced /\ \A u \in Raisers \ {t} : ~Adds(u)
              /\ updating = "no" \/ (t = Main /\ updating = "handler")
  BY <1>2, <1>3, <1>11, AddsAlone
<1>12. AloneAdds'
  <2>1. SUFFICES ASSUME ~raced' PROVE AloneAdds'
    BY DEF AloneAdds
  <2>2. size <= Len(items) /\ \A k \in DOMAIN items : k > size => items[k] = 0
    BY <1>1, <1>11, <2>1 DEF AloneAdds
  <2>3. \A u \in Raisers : Adds(u)' => u = t
    BY <1>7, <1>11, <2>1
  <2>4. ~fits => /\ \A k \in 1..size : new[k] = items[k]
                 /\ \A k \in DOMAIN new : k > size => new[k] = 0
    <3>1. SUFFICES ASSUME ~fits
                   PROVE  /\ \A k \in 1..size : new[k] = items[k]
                          /\ \A k \in DOMAIN new : k > size => new[k] = 0
      OBVIOUS
    <3>2. size = Len(items)
      <4>1. size <= Len(items) /\ ~(size < Len(items))
        BY <2>2, <3>1
      <4>2. size \in Nat /\ Len(items) \in Nat
        BY <1>4
      <4> QED
        BY <4>1, <4>2
    <3>3. new \in Seq(Nat) /\ Len(new) \in Nat
      BY <1>5
    <3>4. size \in Nat /\ DOMAIN new = 1..Len(new) /\ size < Len(new)
      BY <1>4, <1>5
    <3>5. ASSUME NEW k \in 1..size PROVE new[k] = items[k]
      <4>1. k \in DOMAIN new /\ k <= Len(items)
        BY <3>2, <3>3, <3>4
      <4> QED
        BY <1>5, <4>1
    <3>6. ASSUME NEW k \in DOMAIN new, k > size PROVE new[k] = 0
      <4>1. ~(k <= Len(items))
        BY <3>2, <3>3, <3>4, <3>6
      <4> QED
        BY <1>5, <4>1
    <3> QED
      BY <3>5, <3>6
  <2> QED
    <3>1. CASE fits
      BY <1>2, <1>6, <1>7, <1>11, <2>1, <2>2, <2>3, <3>1 DEF AloneAdds
    <3>2. CASE ~fits
      <4>1. adding'[t].at = "install" /\ adding'[t].copy = new /\ size < Len(new)
        BY <1>5, <1>6, <1>7, <3>2
      <4>2. size' = size /\ items' = items /\ updating' = updating
        BY <1>2
      <4> QED
        BY <1>11, <2>1, <2>2, <2>3, <2>4, <3>2, <4>1, <4>2 DEF AloneAdds
    <3> QED
      BY <3>1, <3>2
<1>13. AloneUpdates'
  BY <1>1, <1>2, <1>11 DEF AloneUpdates, Behind, Listed
<1>14. NothingLostAlone'
  <2>1. SUFFICES ASSUME ~raced' PROVE NothingLostAlone'
    BY DEF NothingLostAlone
  <2> QED
    BY <1>2, <1>7, <1>11, <2>1, AddLosesNothing DEF Listed
<1> QED
  BY <1>8, <1>10, <1>12, <1>13, <1>14 DEF EventsInv

LEMMA AddInstallsKeeps == ASSUME EventsInv, NEW t \in Raisers, AddInstalls(t) PROVE EventsInv'
<1> DEFINE new == adding[t].copy
<1>1. /\ EventsTypeOK /\ OnePlace /\ ClearedIsGone /\ HandedIsBehind
      /\ AloneAdds /\ AloneUpdates /\ NothingLostAlone
  BY DEF EventsInv
<1>2. /\ UNCHANGED <<size, listening, updating, cursor, history>> /\ Meets(t)
      /\ UNCHANGED <<raised, handed, settled, unheard, overtaken>> /\ items' = new
  BY DEF AddInstalls, history
<1>3. /\ Adds(t) /\ adding[t].at = "install"
      /\ adding' = [u \in Raisers |->
           IF u = t THEN [adding[t] EXCEPT !.at = "take", !.copy = <<>>]
           ELSE [adding[u] EXCEPT !.current = FALSE]]
  BY DEF AddInstalls, Adds
<1>4. /\ \A u \in Raisers : adding[u] \in
           [at : {"idle", "copy", "install", "take", "read", "count", "store"},
            slot : Nat, event : Nat, copy : Seq(Nat), current : BOOLEAN]
      /\ size \in Nat /\ items \in Seq(Nat) /\ Len(items) \in Nat /\ DOMAIN items = 1..Len(items)
      /\ new \in Seq(Nat) /\ Len(new) \in Nat /\ DOMAIN new = 1..Len(new)
  BY <1>1 DEF EventsTypeOK
<1>5. <<>> \in Seq(Nat) /\ DOMAIN <<>> = {}
  OBVIOUS
<1>6. /\ adding' \in [Raisers -> [at :
           {"idle", "copy", "install", "take", "read", "count", "store"},
           slot : Nat, event : Nat, copy : Seq(Nat), current : BOOLEAN]]
      /\ adding'[t].at = "take" /\ adding'[t].event = adding[t].event /\ adding'[t].copy = <<>>
      /\ \A u \in Raisers \ {t} : /\ adding'[u].at = adding[u].at
                                  /\ adding'[u].event = adding[u].event
                                  /\ adding'[u].copy = adding[u].copy
  BY <1>3, <1>4, <1>5
<1>7. \A u \in Raisers : (Adds(u)' <=> Adds(u)) /\ adding'[u].event = adding[u].event
  BY <1>3, <1>6 DEF Adds
<1> HIDE DEF new
<1>8. EventsTypeOK'
  BY <1>1, <1>2, <1>4, <1>6 DEF EventsTypeOK, Meets
<1>9. \A e \in Nat \ {0} : \A k \in Nat : Stands(k, e)' => Stands(k, e)
  BY <1>2, <1>5, <1>6 DEF Stands, new
<1>10. OnePlace' /\ ClearedIsGone' /\ HandedIsBehind' /\ (updating = "skip" => handed = {})'
  BY <1>2, <1>7, <1>9, AddFewer
<1>11. ASSUME ~raced'
       PROVE  /\ ~raced /\ \A u \in Raisers \ {t} : ~Adds(u)
              /\ updating = "no" \/ (t = Main /\ updating = "handler")
              /\ size < Len(new)
              /\ \A k \in 1..size : new[k] = items[k]
              /\ \A k \in DOMAIN new : k > size => new[k] = 0
              /\ size <= Len(items)
  <2>1. /\ ~raced /\ \A u \in Raisers \ {t} : ~Adds(u)
        /\ updating = "no" \/ (t = Main /\ updating = "handler")
    BY <1>2, <1>3, <1>11, AddsAlone
  <2> QED
    BY <1>1, <1>3, <2>1 DEF AloneAdds, new
<1>12. AloneAdds'
  <2>1. SUFFICES ASSUME ~raced' PROVE AloneAdds'
    BY DEF AloneAdds
  <2>2. \A u \in Raisers : Adds(u)' => u = t
    BY <1>7, <1>11, <2>1
  <2> QED
    BY <1>2, <1>4, <1>6, <1>11, <2>1, <2>2 DEF AloneAdds
<1>13. ASSUME ~raced' PROVE \A e : Listed(e) <=> Listed(e)'
  BY <1>2, <1>4, <1>11, <1>13 DEF Listed
<1>14. AloneUpdates'
  <2>1. SUFFICES ASSUME ~raced' PROVE AloneUpdates'
    BY DEF AloneUpdates
  <2>2. ASSUME updating = "handler", NEW k \in DOMAIN new, k <= cursor + 1
        PROVE  new[k] \in handed \cup {0}
    <3>1. cursor < size /\ cursor \in Nat /\ k \in 1..Len(new)
      BY <1>1, <1>4, <1>11, <2>1, <2>2 DEF AloneUpdates, EventsTypeOK
    <3>2. k \in 1..size /\ k \in DOMAIN items /\ new[k] = items[k]
      BY <1>4, <1>11, <2>1, <2>2, <3>1
    <3>3. k <= Behind
      BY <2>2 DEF Behind
    <3> QED
      BY <1>1, <1>11, <2>1, <2>2, <3>2, <3>3 DEF AloneUpdates
  <2>3. updating \notin {"loop", "get", "read", "clear", "reset"}
    BY <1>11, <2>1
  <2>4. updating' = updating /\ handed' = handed /\ settled' = settled /\ cursor' = cursor
    BY <1>2
  <2>5. updating = "handler" => cursor < size
    BY <1>1, <1>11, <2>1 DEF AloneUpdates
  <2>6. \A e \in handed : e \in settled \/ Listed(e)'
    BY <1>1, <1>11, <1>13, <2>1 DEF AloneUpdates
  <2>7. updating = "handler" => Behind' = cursor + 1
    BY <2>4 DEF Behind
  <2> QED
    BY <1>2, <2>2, <2>3, <2>4, <2>5, <2>6, <2>7 DEF AloneUpdates
<1>15. NothingLostAlone'
  <2>1. SUFFICES ASSUME ~raced' PROVE NothingLostAlone'
    BY DEF NothingLostAlone
  <2> QED
    BY <1>2, <1>7, <1>11, <1>13, <2>1, AddLosesNothing
<1> QED
  BY <1>8, <1>10, <1>12, <1>14, <1>15 DEF EventsInv

\* A step of Add that changes only the thread's own place in it.
LEMMA AddGoesOn ==
  ASSUME EventsInv, NEW t \in Raisers, Adds(t), Meets(t),
         NEW r \in [at : {"copy", "install", "take", "read", "count", "store"},
                    slot : Nat, event : Nat, copy : Seq(Nat), current : BOOLEAN],
         adding' = [adding EXCEPT ![t] = r], r.event = adding[t].event, r.copy = adding[t].copy,
         UNCHANGED <<size, items, listening, updating, cursor, history>>
  PROVE  /\ EventsTypeOK' /\ OnePlace' /\ ClearedIsGone' /\ HandedIsBehind'
         /\ AloneUpdates' /\ NothingLostAlone' /\ (updating = "skip" => handed = {})'
         /\ adding'[t] = r
         /\ ~raced' => \A u \in Raisers : Adds(u)' => u = t
<1>1. EventsTypeOK /\ AloneUpdates
  BY DEF EventsInv
<1>2. /\ adding' \in [Raisers -> [at :
           {"idle", "copy", "install", "take", "read", "count", "store"},
           slot : Nat, event : Nat, copy : Seq(Nat), current : BOOLEAN]]
      /\ adding'[t] = r /\ \A u \in Raisers \ {t} : adding'[u] = adding[u]
      /\ \A u \in Raisers : (Adds(u)' <=> Adds(u)) /\ adding'[u].event = adding[u].event
  BY <1>1, AddMoves
<1>3. UNCHANGED <<raised, handed, settled, unheard, overtaken>>
  BY DEF history
<1>4. EventsTypeOK'
  BY <1>1, <1>2, <1>3 DEF EventsTypeOK, Meets
<1>5. \A e \in Nat \ {0} : \A k \in Nat : Stands(k, e)' => Stands(k, e)
  <2>1. \A u \in Raisers : adding'[u].copy = adding[u].copy
    BY <1>2
  <2> QED
    BY <2>1 DEF Stands
<1>6. OnePlace' /\ ClearedIsGone' /\ HandedIsBehind' /\ (updating = "skip" => handed = {})'
  BY <1>2, <1>5, AddFewer
<1>7. ASSUME ~raced'
      PROVE  ~raced /\ \A u \in Raisers : Adds(u)' => u = t
  BY <1>2, <1>7, AddsAlone
<1>8. AloneUpdates'
  BY <1>1, <1>3, <1>7 DEF AloneUpdates, Behind, Listed
<1>9. NothingLostAlone'
  <2>1. SUFFICES ASSUME ~raced' PROVE NothingLostAlone'
    BY DEF NothingLostAlone
  <2> QED
    BY <1>2, <1>7, <2>1, AddLosesNothing DEF Listed
<1> QED
  BY <1>2, <1>4, <1>6, <1>7, <1>8, <1>9

LEMMA AddTakesKeeps == ASSUME EventsInv, NEW t \in Raisers, AddTakes(t) PROVE EventsInv'
<1> DEFINE r == [adding[t] EXCEPT !.at = "read", !.current = TRUE]
<1>1. /\ Adds(t) /\ adding[t].at = "take" /\ Meets(t) /\ adding' = [adding EXCEPT ![t] = r]
      /\ UNCHANGED <<size, items, listening, updating, cursor, history>>
  BY DEF AddTakes, Adds, theList
<1>2. adding[t] \in [at : {"idle", "copy", "install", "take", "read", "count", "store"},
                     slot : Nat, event : Nat, copy : Seq(Nat), current : BOOLEAN]
  BY DEF EventsInv, EventsTypeOK
<1>3. /\ r \in [at : {"copy", "install", "take", "read", "count", "store"},
                slot : Nat, event : Nat, copy : Seq(Nat), current : BOOLEAN]
      /\ r.event = adding[t].event /\ r.copy = adding[t].copy
      /\ r.at = "read" /\ r.current = TRUE
  BY <1>2
<1> HIDE DEF r
<1>4. /\ EventsTypeOK' /\ OnePlace' /\ ClearedIsGone' /\ HandedIsBehind'
      /\ AloneUpdates' /\ NothingLostAlone' /\ (updating = "skip" => handed = {})'
      /\ adding'[t] = r
      /\ ~raced' => \A u \in Raisers : Adds(u)' => u = t
  BY <1>1, <1>3, AddGoesOn
<1>5. ASSUME ~raced'
      PROVE  /\ ~raced
             /\ updating = "no" \/ (t = Main /\ updating = "handler")
  BY <1>1, <1>5, AddsAlone
<1>6. AloneAdds'
  BY <1>1, <1>3, <1>4, <1>5 DEF EventsInv, AloneAdds
<1> QED
  BY <1>4, <1>6 DEF EventsInv

LEMMA AddReadsKeeps == ASSUME EventsInv, NEW t \in Raisers, AddReads(t) PROVE EventsInv'
<1> DEFINE r == [adding[t] EXCEPT !.at = "count", !.slot = size]
<1>1. /\ Adds(t) /\ adding[t].at = "read" /\ Meets(t) /\ adding' = [adding EXCEPT ![t] = r]
      /\ UNCHANGED <<size, items, listening, updating, cursor, history>>
  BY DEF AddReads, Adds, theList
<1>2. /\ adding[t] \in [at : {"idle", "copy", "install", "take", "read", "count", "store"},
                        slot : Nat, event : Nat, copy : Seq(Nat), current : BOOLEAN]
      /\ size \in Nat
  BY DEF EventsInv, EventsTypeOK
<1>3. /\ r \in [at : {"copy", "install", "take", "read", "count", "store"},
                slot : Nat, event : Nat, copy : Seq(Nat), current : BOOLEAN]
      /\ r.event = adding[t].event /\ r.copy = adding[t].copy
      /\ r.at = "count" /\ r.current = adding[t].current /\ r.slot = size
  BY <1>2
<1> HIDE DEF r
<1>4. /\ EventsTypeOK' /\ OnePlace' /\ ClearedIsGone' /\ HandedIsBehind'
      /\ AloneUpdates' /\ NothingLostAlone' /\ (updating = "skip" => handed = {})'
      /\ adding'[t] = r
      /\ ~raced' => \A u \in Raisers : Adds(u)' => u = t
  BY <1>1, <1>3, AddGoesOn
<1>5. ASSUME ~raced'
      PROVE  /\ ~raced
             /\ updating = "no" \/ (t = Main /\ updating = "handler")
  BY <1>1, <1>5, AddsAlone
<1>6. AloneAdds'
  BY <1>1, <1>3, <1>4, <1>5 DEF EventsInv, AloneAdds
<1> QED
  BY <1>4, <1>6 DEF EventsInv

LEMMA AddCountsKeeps == ASSUME EventsInv, NEW t \in Raisers, AddCounts(t) PROVE EventsInv'
<1> DEFINE r == [adding[t] EXCEPT !.at = "store"]
<1>1. /\ EventsTypeOK /\ AloneAdds /\ AloneUpdates
      /\ Adds(t) /\ adding[t].at = "count" /\ Meets(t) /\ adding' = [adding EXCEPT ![t] = r]
      /\ UNCHANGED <<items, listening, updating, cursor, history>>
      /\ size' = adding[t].slot + 1
  BY DEF AddCounts, Adds, EventsInv
<1>2. /\ adding[t] \in [at : {"idle", "copy", "install", "take", "read", "count", "store"},
                        slot : Nat, event : Nat, copy : Seq(Nat), current : BOOLEAN]
      /\ size \in Nat /\ cursor \in Nat
      /\ items \in Seq(Nat) /\ Len(items) \in Nat /\ DOMAIN items = 1..Len(items)
  BY <1>1 DEF EventsTypeOK
<1>3. /\ r \in [at : {"copy", "install", "take", "read", "count", "store"},
                slot : Nat, event : Nat, copy : Seq(Nat), current : BOOLEAN]
      /\ r.event = adding[t].event /\ r.copy = adding[t].copy
      /\ r.at = "store" /\ r.current = adding[t].current /\ r.slot = adding[t].slot
  BY <1>2
<1> HIDE DEF r
<1>4. /\ adding' \in [Raisers -> [at :
           {"idle", "copy", "install", "take", "read", "count", "store"},
           slot : Nat, event : Nat, copy : Seq(Nat), current : BOOLEAN]]
      /\ adding'[t] = r /\ \A u \in Raisers \ {t} : adding'[u] = adding[u]
      /\ \A u \in Raisers : (Adds(u)' <=> Adds(u)) /\ adding'[u].event = adding[u].event
  BY <1>1, <1>3, AddMoves
<1>5. UNCHANGED <<raised, handed, settled, unheard, overtaken>>
  BY <1>1 DEF history
<1>6. EventsTypeOK'
  <2>1. size' \in Nat
    BY <1>1, <1>2
  <2> QED
    BY <1>1, <1>4, <1>5, <2>1 DEF EventsTypeOK, Meets
<1>7. \A e \in Nat \ {0} : \A k \in Nat : Stands(k, e)' => Stands(k, e)
  <2>1. \A u \in Raisers : adding'[u].copy = adding[u].copy
    BY <1>3, <1>4
  <2> QED
    BY <1>1, <2>1 DEF Stands
<1>8. OnePlace' /\ ClearedIsGone' /\ HandedIsBehind' /\ (updating = "skip" => handed = {})'
  BY <1>1, <1>4, <1>7, AddFewer
<1>9. ASSUME ~raced'
      PROVE  /\ ~raced /\ \A u \in Raisers : Adds(u)' => u = t
             /\ updating = "no" \/ (t = Main /\ updating = "handler")
             /\ adding[t].slot = size /\ size < Len(items) /\ adding[t].current
             /\ \A k \in DOMAIN items : k > size => items[k] = 0
  <2>1. /\ ~raced /\ \A u \in Raisers : Adds(u)' => u = t
        /\ updating = "no" \/ (t = Main /\ updating = "handler")
    BY <1>1, <1>4, <1>9, AddsAlone
  <2> QED
    BY <1>1, <2>1 DEF AloneAdds
<1>10. ASSUME ~raced'
       PROVE  /\ size' = size + 1 /\ size' <= Len(items) /\ items[size'] = 0
              /\ \A k \in DOMAIN items : k > size' => items[k] = 0
              /\ \A e : Listed(e) => Listed(e)'
  <2>1. size' = size + 1 /\ size' <= Len(items)
    BY <1>1, <1>2, <1>9, <1>10
  <2>2. items[size'] = 0
    BY <1>2, <1>9, <1>10, <2>1
  <2>3. \A k \in DOMAIN items : k > size' => k > size
    BY <1>2, <2>1
  <2>4. \A k \in DOMAIN items : k <= size => k <= size'
    BY <1>2, <2>1
  <2> QED
    BY <1>1, <1>9, <1>10, <2>1, <2>2, <2>3, <2>4 DEF Listed
<1>11. AloneAdds'
  <2>1. SUFFICES ASSUME ~raced' PROVE AloneAdds'
    BY DEF AloneAdds
  <2>2. updating = "handler" => cursor + 1 < size'
    BY <1>1, <1>2, <1>9, <1>10, <2>1 DEF AloneUpdates
  <2> QED
    BY <1>1, <1>3, <1>4, <1>9, <1>10, <2>1, <2>2 DEF AloneAdds
<1>12. AloneUpdates'
  <2>1. SUFFICES ASSUME ~raced' PROVE AloneUpdates'
    BY DEF AloneUpdates
  <2>2. updating \notin {"get", "read", "loop", "clear", "reset"}
    BY <1>9, <2>1
  <2>3. updating = "handler" => cursor < size'
    BY <1>1, <1>2, <1>9, <1>10, <2>1 DEF AloneUpdates
  <2>4. Behind' = Behind
    BY <1>1 DEF Behind
  <2> QED
    BY <1>1, <1>5, <1>9, <1>10, <2>1, <2>2, <2>3, <2>4 DEF AloneUpdates
<1>13. NothingLostAlone'
  <2>1. SUFFICES ASSUME ~raced' PROVE NothingLostAlone'
    BY DEF NothingLostAlone
  <2> QED
    BY <1>1, <1>4, <1>9, <1>10, <2>1, AddLosesNothing
<1> QED
  BY <1>6, <1>8, <1>11, <1>12, <1>13 DEF EventsInv

LEMMA AddStoresKeeps == ASSUME EventsInv, NEW t \in Raisers, AddStores(t) PROVE EventsInv'
<1> DEFINE event == adding[t].event
           place == adding[t].slot + 1
           room == adding[t].current /\ adding[t].slot < Len(items)
<1>1. /\ EventsTypeOK /\ OnePlace /\ ClearedIsGone /\ HandedIsBehind
      /\ AloneAdds /\ AloneUpdates /\ NothingLostAlone
  BY DEF EventsInv
<1>2. /\ Adds(t) /\ adding[t].at = "store" /\ Meets(t)
      /\ adding' = [adding EXCEPT ![t] = Idle]
      /\ UNCHANGED <<size, listening, updating, cursor, history>>
      /\ items' = IF room THEN [items EXCEPT ![place] = event] ELSE items
  BY DEF AddStores, Adds
<1>3. /\ adding \in [Raisers -> [at : {"idle", "copy", "install", "take", "read", "count", "store"},
                        slot : Nat, event : Nat, copy : Seq(Nat), current : BOOLEAN]]
      /\ size \in Nat /\ cursor \in Nat
      /\ items \in Seq(Nat) /\ Len(items) \in Nat /\ DOMAIN items = 1..Len(items)
  BY <1>1 DEF EventsTypeOK
<1>4. event \in Nat /\ place \in Nat /\ place > 0
  BY <1>3
<1>5. UNCHANGED <<raised, handed, settled, unheard, overtaken>>
  BY <1>2 DEF history
<1>6. /\ Idle \in [at : {"idle", "copy", "install", "take", "read", "count", "store"},
                   slot : Nat, event : Nat, copy : Seq(Nat), current : BOOLEAN]
      /\ Idle.at = "idle" /\ Idle.copy = <<>> /\ DOMAIN <<>> = {}
  BY DEF Idle
<1>7. /\ adding' \in [Raisers -> [at : {"idle", "copy", "install", "take", "read", "count", "store"},
                        slot : Nat, event : Nat, copy : Seq(Nat), current : BOOLEAN]]
      /\ adding'[t] = Idle /\ \A u \in Raisers \ {t} : adding'[u] = adding[u]
  BY <1>2, <1>3, <1>6
<1>8. ~Adds(t)' /\ \A u \in Raisers : Adds(u)' => u # t /\ Adds(u) /\ adding'[u].event = adding[u].event
  BY <1>6, <1>7 DEF Adds
<1>9. room => place \in DOMAIN items
  BY <1>3, <1>4
<1> HIDE DEF event, place, room
<1>10. /\ items' \in Seq(Nat) /\ DOMAIN items' = DOMAIN items /\ Len(items') = Len(items)
       /\ \A k \in DOMAIN items : items'[k] = IF room /\ k = place THEN event ELSE items[k]
  <2>1. CASE room
    <3>1. items' = [items EXCEPT ![place] = event]
      BY <1>2, <2>1
    <3> QED
      BY <1>3, <1>4, <1>9, <2>1, <3>1
  <2>2. CASE ~room
    BY <1>2, <1>3, <2>2
  <2> QED
    BY <2>1, <2>2
<1>11. EventsTypeOK'
  BY <1>1, <1>2, <1>5, <1>7, <1>10 DEF EventsTypeOK, Meets
<1>12. /\ event \in 1..raised /\ event \notin handed \cup settled \cup unheard
       /\ \A k \in Nat : ~Stands(k, event)
       /\ \A u \in Raisers : Adds(u)' => adding'[u].event # event
  BY <1>1, <1>2, <1>4, <1>8 DEF OnePlace, event
<1>13. \A e \in Nat : \A k \in Nat : Stands(k, e)' => Stands(k, e) \/ (e = event /\ k = place)
  <2>1. SUFFICES ASSUME NEW e \in Nat, NEW k \in Nat, Stands(k, e)'
                 PROVE  Stands(k, e) \/ (e = event /\ k = place)
    OBVIOUS
  <2>2. CASE k \in DOMAIN items' /\ items'[k] = e
    BY <1>10, <2>2 DEF Stands
  <2>3. ASSUME NEW u \in Raisers, k \in DOMAIN adding'[u].copy, adding'[u].copy[k] = e
        PROVE  Stands(k, e)
    BY <1>6, <1>7, <2>3 DEF Stands
  <2> QED
    BY <2>1, <2>2, <2>3 DEF Stands
<1>14. OnePlace'
  <2>1. ASSUME NEW e \in Nat \ {0}, NEW k \in Nat, Stands(k, e)'
        PROVE  /\ e <= raised'
               /\ \A j \in Nat : Stands(j, e)' => j = k
               /\ \A u \in Raisers : Adds(u)' => adding'[u].event # e
    <3>1. CASE e = event
      <4>1. \A j \in Nat : Stands(j, e)' => j = place
        BY <1>12, <1>13, <3>1
      <4>2. event <= raised'
        BY <1>1, <1>5, <1>12 DEF EventsTypeOK
      <4> QED
        BY <1>12, <2>1, <3>1, <4>1, <4>2
    <3>2. CASE e # event
      <4>1. \A j \in Nat : Stands(j, e)' => Stands(j, e)
        BY <1>13, <3>2
      <4>2. Stands(k, e)
        BY <2>1, <4>1
      <4> QED
        BY <1>1, <1>5, <1>8, <4>1, <4>2 DEF OnePlace
    <3> QED
      BY <3>1, <3>2
  <2>2. (handed \cup settled \cup unheard)' \subseteq 1..raised'
    BY <1>1, <1>5 DEF OnePlace
  <2>3. ASSUME NEW u \in Raisers, Adds(u)'
        PROVE  /\ adding'[u].event \in 1..raised'
               /\ adding'[u].event \notin (handed \cup settled \cup unheard)'
               /\ \A v \in Raisers \ {u} : Adds(v)' => adding'[v].event # adding'[u].event
    BY <1>1, <1>5, <1>8, <2>3 DEF OnePlace
  <2> QED
    BY <2>1, <2>2, <2>3 DEF OnePlace
<1>15. \A e \in handed \cup settled \cup unheard : e \in Nat /\ e # event
  BY <1>1, <1>12 DEF EventsTypeOK
<1>16. ClearedIsGone'
  BY <1>1, <1>5, <1>13, <1>15 DEF ClearedIsGone
<1>17. HandedIsBehind' /\ (updating = "skip" => handed = {})'
  <2>1. Behind' = Behind
    BY <1>2 DEF Behind
  <2> QED
    BY <1>1, <1>2, <1>5, <1>13, <1>15, <2>1 DEF HandedIsBehind, EventsInv
<1>18. ASSUME ~raced'
       PROVE  /\ ~raced /\ \A u \in Raisers : ~Adds(u)'
              /\ updating = "no" \/ (t = Main /\ updating = "handler")
              /\ room /\ place = size /\ items[size] = 0 /\ size <= Len(items)
              /\ updating = "handler" => cursor + 1 < size
              /\ \A k \in DOMAIN items : k > size => items[k] = 0
  <2>1. /\ ~raced /\ \A u \in Raisers \ {t} : ~Adds(u)
        /\ updating = "no" \/ (t = Main /\ updating = "handler")
    BY <1>2, <1>18, AddsAlone
  <2>2. /\ adding[t].current /\ size = adding[t].slot + 1 /\ items[size] = 0 /\ size <= Len(items)
        /\ updating = "handler" => cursor + 1 < size
        /\ \A k \in DOMAIN items : k > size => items[k] = 0
    BY <1>1, <1>2, <2>1 DEF AloneAdds
  <2>3. adding[t].slot < Len(items) /\ place = size
    BY <1>3, <2>2 DEF place
  <2> QED
    BY <1>8, <2>1, <2>2, <2>3 DEF room
<1>19. ASSUME ~raced'
       PROVE  /\ \A e : e = event => Listed(e)'
              /\ \A e \in Nat \ {0} : Listed(e) => Listed(e)'
  <2>1. size \in DOMAIN items
    BY <1>9, <1>18, <1>19
  <2>2. items'[size] = event
    BY <1>10, <1>18, <1>19, <2>1
  <2>3. size <= size
    BY <1>3
  <2>4. \A e : e = event => Listed(e)'
    BY <1>2, <1>10, <2>1, <2>2, <2>3 DEF Listed
  <2>5. ASSUME NEW e \in Nat \ {0}, NEW k \in DOMAIN items, k <= size, items[k] = e
        PROVE  Listed(e)'
    BY <1>2, <1>10, <1>18, <1>19, <2>5 DEF Listed
  <2> QED
    BY <2>4, <2>5 DEF Listed
<1>20. AloneAdds'
  <2>1. SUFFICES ASSUME ~raced' PROVE AloneAdds'
    BY DEF AloneAdds
  <2>2. ASSUME NEW k \in DOMAIN items, k > size PROVE items'[k] = 0
    BY <1>3, <1>10, <1>18, <2>1, <2>2
  <2> QED
    BY <1>2, <1>10, <1>18, <2>1, <2>2 DEF AloneAdds
<1>21. AloneUpdates'
  <2>1. SUFFICES ASSUME ~raced' PROVE AloneUpdates'
    BY DEF AloneUpdates
  <2>2. updating \notin {"get", "read", "loop", "clear", "reset"}
    BY <1>18, <2>1
  <2>3. updating = "handler" => cursor < size
    BY <1>1, <1>18, <2>1 DEF AloneUpdates
  <2>4. ASSUME updating = "handler", NEW k \in DOMAIN items, k <= cursor + 1
        PROVE  items'[k] \in handed \cup {0}
    <3>1. Behind = cursor + 1
      BY <2>4 DEF Behind
    <3>2. items[k] \in handed \cup {0}
      BY <1>1, <1>18, <2>1, <2>4, <3>1 DEF AloneUpdates
    <3>3. k # size
      BY <1>3, <1>18, <2>1, <2>4
    <3> QED
      BY <1>10, <1>18, <2>1, <3>2, <3>3
  <2>5. updating = "handler" => Behind' = cursor + 1
    BY <1>2 DEF Behind
  <2>6. \A e \in handed : e \in settled \/ Listed(e)'
    <3>1. \A e \in handed : e \in Nat \ {0}
      BY <1>1 DEF OnePlace, EventsTypeOK
    <3> QED
      BY <1>1, <1>18, <1>19, <2>1, <3>1 DEF AloneUpdates
  <2> QED
    BY <1>2, <1>5, <1>10, <2>1, <2>2, <2>3, <2>4, <2>5, <2>6 DEF AloneUpdates
<1>22. NothingLostAlone'
  <2>1. SUFFICES ASSUME ~raced', NEW e \in 1..raised
                 PROVE  Listed(e)' \/ e \in handed \cup settled \cup unheard
    BY <1>5 DEF NothingLostAlone
  <2>2. e \in Nat \ {0}
    BY <1>1, <2>1 DEF EventsTypeOK
  <2>3. \A u \in Raisers \ {t} : ~Adds(u)
    BY <1>2, <2>1, AddsAlone
  <2>4. e = event \/ Listed(e) \/ e \in handed \cup settled \cup unheard
    BY <1>1, <1>18, <2>1, <2>3 DEF NothingLostAlone, event
  <2> QED
    BY <1>19, <2>1, <2>2, <2>4
<1> QED
  BY <1>11, <1>14, <1>16, <1>17, <1>20, <1>21, <1>22 DEF EventsInv

-----------------------------------------------------------------------------
(* The steps of Update.                                                       *)

\* An Update that nobody meets finds no thread in Add.
LEMMA UpdatesAlone ==
  ASSUME EventsInv, Meets(Main), ~raced',
         updating \notin {"no", "handler"} \/ adding[Main] = Idle
  PROVE  ~raced /\ \A t \in Raisers : ~Adds(t)
<1>1. ~raced /\ \A t \in Raisers \ {Main} : ~Adds(t)
  BY DEF Meets
<1>2. ~Adds(Main)
  BY <1>1, RaisersAssumption DEF EventsInv, AloneAdds, Adds, Idle
<1> QED
  BY <1>1, <1>2

\* A step of Update from one place to another.
LEMMA GoesKeeps ==
  ASSUME EventsInv, NEW place \in {"no", "loop", "get", "read", "handler", "skip", "clear"},
         Goes(place), updating \notin {"no", "handler"} \/ adding[Main] = Idle,
         cursor' \in Nat, handed' \subseteq handed
  PROVE  /\ EventsTypeOK' /\ OnePlace' /\ ClearedIsGone' /\ AloneAdds'
         /\ \A e \in Nat \ {0} : \A k \in Nat : Stands(k, e)' => Stands(k, e)
<1>1. /\ updating' = place /\ Meets(Main)
      /\ UNCHANGED <<size, items, adding, listening, raised, settled, unheard, overtaken>>
  BY DEF Goes, theList
<1>2. EventsTypeOK'
  <2>1. EventsTypeOK
    BY DEF EventsInv
  <2> QED
    BY <1>1, <2>1 DEF EventsTypeOK, Meets
<1>3. \A e \in Nat \ {0} : \A k \in Nat : Stands(k, e)' => Stands(k, e)
  BY <1>1 DEF Stands
<1>4. \A t \in Raisers : Adds(t)' => Adds(t) /\ adding'[t].event = adding[t].event
  BY <1>1 DEF Adds
<1>5. OnePlace' /\ ClearedIsGone'
  BY <1>1, <1>3, <1>4, FewerPlaces DEF EventsInv
<1>6. AloneAdds'
  <2>1. SUFFICES ASSUME ~raced' PROVE AloneAdds'
    BY DEF AloneAdds
  <2>2. ~raced /\ \A t \in Raisers : ~Adds(t)
    BY <1>1, <2>1, UpdatesAlone
  <2> QED
    BY <1>1, <1>4, <2>1, <2>2 DEF EventsInv, AloneAdds
<1> QED
  BY <1>2, <1>3, <1>5, <1>6

\* .. that hands nothing over.
LEMMA GoesLosesNothing ==
  ASSUME EventsInv, NEW place, Goes(place), handed' = handed
  PROVE  /\ NothingLostAlone'
         /\ ~raced' => /\ ~raced
                       /\ \A e \in handed : e \in settled' \/ Listed(e)'
<1>1. /\ UNCHANGED <<size, items, adding, listening, raised, settled, unheard, handed>>
      /\ ~raced' => ~raced
  BY DEF Goes, theList, Meets
<1> QED
  BY <1>1 DEF EventsInv, NothingLostAlone, AloneUpdates, Listed, Adds

LEMMA UpdateBeginsKeeps == ASSUME EventsInv, UpdateBegins PROVE EventsInv'
<1> DEFINE place == IF listening THEN "loop" ELSE "skip"
<1>1. Goes(place) /\ cursor' = 0 /\ handed' = {} /\ adding[Main] = Idle /\ updating = "no"
  BY DEF UpdateBegins
<1>2. place \in {"loop", "skip"}
  OBVIOUS
<1> HIDE DEF place
<1>3. EventsTypeOK' /\ OnePlace' /\ ClearedIsGone' /\ AloneAdds'
  <2>1. place \in {"no", "loop", "get", "read", "handler", "skip", "clear"}
    BY <1>2
  <2> QED
    BY <1>1, <2>1, GoesKeeps
<1>4. /\ updating' = place /\ Meets(Main)
      /\ UNCHANGED <<size, items, adding, listening, raised, settled, unheard, overtaken>>
  BY <1>1 DEF Goes, theList
<1>5. HandedIsBehind' /\ (updating = "skip" => handed = {})'
  BY <1>1 DEF HandedIsBehind
<1>6. EventsTypeOK /\ AloneUpdates /\ NothingLostAlone
  BY DEF EventsInv
<1>7. AloneUpdates'
  <2>1. \A k \in DOMAIN items : ~(k <= 0)
    BY <1>6 DEF EventsTypeOK
  <2>2. Behind' = 0
    BY <1>1, <1>2, <1>4 DEF Behind
  <2> QED
    BY <1>1, <1>2, <1>4, <2>1, <2>2 DEF AloneUpdates
<1>8. NothingLostAlone'
  <2>1. SUFFICES ASSUME ~raced', NEW e \in 1..raised
                 PROVE  Listed(e)' \/ e \in settled \cup unheard
    BY <1>4 DEF NothingLostAlone
  <2>2. ~raced /\ \A t \in Raisers : ~Adds(t)
    BY <1>1, <1>4, <2>1, UpdatesAlone
  <2>3. Listed(e) \/ e \in handed \cup settled \cup unheard
    BY <1>6, <2>1, <2>2 DEF NothingLostAlone
  <2>4. e \in handed => e \in settled \/ Listed(e)
    BY <1>6, <2>2 DEF AloneUpdates
  <2>5. Listed(e) => Listed(e)'
    BY <1>4 DEF Listed
  <2> QED
    BY <2>3, <2>4, <2>5
<1> QED
  BY <1>3, <1>5, <1>7, <1>8 DEF EventsInv

LEMMA LoopKeeps == ASSUME EventsInv, Loop PROVE EventsInv'
<1> DEFINE place == IF cursor < size THEN "get" ELSE "clear"
<1>1. Goes(place) /\ UNCHANGED <<cursor, handed>> /\ updating = "loop"
  BY DEF Loop
<1>2. /\ EventsTypeOK /\ HandedIsBehind /\ AloneAdds /\ AloneUpdates
      /\ size \in Nat /\ cursor \in Nat /\ DOMAIN items = 1..Len(items) /\ Len(items) \in Nat
  BY DEF EventsInv, EventsTypeOK
<1>3. place \in {"get", "clear"} /\ (place = "get" <=> cursor < size)
  OBVIOUS
<1> HIDE DEF place
<1>4. EventsTypeOK' /\ OnePlace' /\ ClearedIsGone' /\ AloneAdds'
      /\ \A e \in Nat \ {0} : \A k \in Nat : Stands(k, e)' => Stands(k, e)
  <2>1. place \in {"no", "loop", "get", "read", "handler", "skip", "clear"}
    BY <1>3
  <2> QED
    BY <1>1, <1>2, <2>1, GoesKeeps
<1>5. /\ NothingLostAlone'
      /\ ~raced' => /\ ~raced
                    /\ \A e \in handed : e \in settled' \/ Listed(e)'
  BY <1>1, GoesLosesNothing
<1>6. updating' = place /\ UNCHANGED <<size, items, adding, settled, cursor, handed>>
  BY <1>1 DEF Goes, theList
<1>7. Behind = cursor /\ Behind' = cursor
  BY <1>1, <1>3, <1>6 DEF Behind
<1>8. HandedIsBehind' /\ (updating = "skip" => handed = {})'
  <2>1. \A e \in handed : e \in Nat \ {0}
    BY DEF EventsInv, OnePlace, EventsTypeOK
  <2> QED
    BY <1>1, <1>2, <1>3, <1>4, <1>6, <1>7, <2>1 DEF HandedIsBehind
<1>9. AloneUpdates'
  <2>1. SUFFICES ASSUME ~raced' PROVE AloneUpdates'
    BY DEF AloneUpdates
  <2>2. \A k \in DOMAIN items : k <= cursor => items[k] \in handed \cup {0}
    BY <1>1, <1>2, <1>5, <1>7, <2>1 DEF AloneUpdates
  <2>3. \A k \in DOMAIN items : k > size => items[k] = 0
    BY <1>2, <1>5, <2>1 DEF AloneAdds
  <2>4. place = "clear" => \A k \in DOMAIN items : items[k] \in handed \cup {0}
    <3>1. SUFFICES ASSUME ~(cursor < size), NEW k \in DOMAIN items
                   PROVE  items[k] \in handed \cup {0}
      BY <1>3
    <3>2. k <= cursor \/ k > size
      BY <1>2, <3>1
    <3> QED
      BY <2>2, <2>3, <3>2
  <2> QED
    BY <1>3, <1>5, <1>6, <1>7, <2>1, <2>2, <2>4 DEF AloneUpdates
<1> QED
  BY <1>4, <1>5, <1>8, <1>9 DEF EventsInv

LEMMA GetTestsKeeps == ASSUME EventsInv, GetTests PROVE EventsInv'
<1> DEFINE place == IF cursor < size THEN "read" ELSE "no"
<1>1. Goes(place) /\ UNCHANGED <<cursor, handed>> /\ updating = "get"
  BY DEF GetTests
<1>2. EventsTypeOK /\ HandedIsBehind /\ AloneUpdates /\ cursor \in Nat
  BY DEF EventsInv, EventsTypeOK
<1>3. place \in {"read", "no"} /\ (cursor < size => place = "read")
  OBVIOUS
<1> HIDE DEF place
<1>4. EventsTypeOK' /\ OnePlace' /\ ClearedIsGone' /\ AloneAdds'
      /\ \A e \in Nat \ {0} : \A k \in Nat : Stands(k, e)' => Stands(k, e)
  <2>1. place \in {"no", "loop", "get", "read", "handler", "skip", "clear"}
    BY <1>3
  <2> QED
    BY <1>1, <1>2, <2>1, GoesKeeps
<1>5. /\ NothingLostAlone'
      /\ ~raced' => /\ ~raced
                    /\ \A e \in handed : e \in settled' \/ Listed(e)'
  BY <1>1, GoesLosesNothing
<1>6. updating' = place /\ UNCHANGED <<size, items, adding, settled, cursor, handed>>
  BY <1>1 DEF Goes, theList
<1>7. Behind = cursor /\ Behind' = cursor
  BY <1>1, <1>3, <1>6 DEF Behind
<1>8. HandedIsBehind' /\ (updating = "skip" => handed = {})'
  <2>1. \A e \in handed : e \in Nat \ {0}
    BY DEF EventsInv, OnePlace, EventsTypeOK
  <2> QED
    BY <1>1, <1>2, <1>3, <1>4, <1>6, <1>7, <2>1 DEF HandedIsBehind
<1>9. AloneUpdates'
  BY <1>1, <1>2, <1>3, <1>5, <1>6, <1>7 DEF AloneUpdates
<1> QED
  BY <1>4, <1>5, <1>8, <1>9 DEF EventsInv

LEMMA DeliverKeeps == ASSUME EventsInv, Deliver PROVE EventsInv'
<1> DEFINE event == items[cursor + 1]
<1>1. /\ Goes("handler") /\ updating = "read" /\ UNCHANGED cursor
      /\ handed' = handed \cup ({event} \ {0}) /\ cursor < Len(items)
  BY DEF Deliver
<1>2. /\ EventsTypeOK /\ OnePlace /\ ClearedIsGone /\ HandedIsBehind
      /\ AloneAdds /\ AloneUpdates /\ NothingLostAlone
  BY DEF EventsInv
<1>3. /\ updating' = "handler" /\ Meets(Main)
      /\ UNCHANGED <<size, items, adding, listening, raised, settled, unheard, overtaken, cursor>>
  BY <1>1 DEF Goes, theList
<1>4. /\ cursor \in Nat /\ size \in Nat /\ items \in Seq(Nat)
      /\ Len(items) \in Nat /\ DOMAIN items = 1..Len(items)
  BY <1>2 DEF EventsTypeOK
<1>5. cursor + 1 \in DOMAIN items /\ event \in Nat
  BY <1>1, <1>4
<1> HIDE DEF event
<1>6. EventsTypeOK'
  <2>1. handed' \subseteq Nat
    BY <1>1, <1>2, <1>5 DEF EventsTypeOK
  <2> QED
    BY <1>2, <1>3, <2>1 DEF EventsTypeOK, Meets
<1>7. \A e, k : Stands(k, e)' <=> Stands(k, e)
  BY <1>3 DEF Stands
<1>8. \A t \in Raisers : Adds(t)' <=> Adds(t)
  BY <1>3 DEF Adds
<1>9. event # 0 => /\ Stands(cursor + 1, event) /\ event \in 1..raised
                   /\ \A k \in Nat : Stands(k, event) => k = cursor + 1
                   /\ \A t \in Raisers : Adds(t) => adding[t].event # event
  <2>1. SUFFICES ASSUME event # 0
                 PROVE  /\ Stands(cursor + 1, event) /\ event \in 1..raised
                        /\ \A k \in Nat : Stands(k, event) => k = cursor + 1
                        /\ \A t \in Raisers : Adds(t) => adding[t].event # event
    OBVIOUS
  <2>2. Stands(cursor + 1, event)
    BY <1>5 DEF Stands, event
  <2>3. cursor + 1 \in Nat /\ event \in Nat \ {0} /\ raised \in Nat
    BY <1>2, <1>4, <1>5, <2>1 DEF EventsTypeOK
  <2>4. event <= raised
    BY <1>2, <2>2, <2>3 DEF OnePlace
  <2> QED
    BY <1>2, <2>2, <2>3, <2>4 DEF OnePlace
<1>10. OnePlace'
  <2>1. (handed \cup settled \cup unheard)' \subseteq 1..raised'
    BY <1>1, <1>2, <1>3, <1>9 DEF OnePlace
  <2>2. ASSUME NEW t \in Raisers, Adds(t)'
        PROVE  adding'[t].event \notin (handed \cup settled \cup unheard)'
    BY <1>1, <1>2, <1>3, <1>8, <1>9, <2>2 DEF OnePlace
  <2> QED
    BY <1>2, <1>3, <1>7, <1>8, <2>1, <2>2 DEF OnePlace
<1>11. ClearedIsGone'
  BY <1>2, <1>3, <1>7 DEF ClearedIsGone
<1>12. Behind = cursor /\ Behind' = cursor + 1
  BY <1>1, <1>3 DEF Behind
<1>13. HandedIsBehind' /\ (updating = "skip" => handed = {})'
  <2>1. ASSUME NEW e \in handed', NEW k \in Nat, Stands(k, e) PROVE k <= cursor + 1
    <3>1. CASE e \in handed
      <4>1. k <= cursor
        BY <1>1, <1>2, <1>12, <2>1, <3>1 DEF HandedIsBehind
      <4> QED
        BY <1>4, <4>1
    <3>2. CASE e = event /\ event # 0
      BY <1>4, <1>9, <2>1, <3>2
    <3> QED
      BY <1>1, <2>1, <3>1, <3>2
  <2> QED
    BY <1>3, <1>7, <1>12, <2>1 DEF HandedIsBehind
<1>14. ~raced' => ~raced
  BY <1>3 DEF Meets
<1>15. AloneAdds'
  <2>1. SUFFICES ASSUME ~raced' PROVE AloneAdds'
    BY DEF AloneAdds
  <2>2. ~raced /\ \A t \in Raisers : ~Adds(t)
    BY <1>1, <1>3, <2>1, UpdatesAlone
  <2> QED
    BY <1>2, <1>3, <1>8, <2>1, <2>2 DEF AloneAdds
<1>16. AloneUpdates'
  <2>1. SUFFICES ASSUME ~raced' PROVE AloneUpdates'
    BY DEF AloneUpdates
  <2>2. cursor < size
    BY <1>1, <1>2, <1>14, <2>1 DEF AloneUpdates
  <2>3. ASSUME NEW k \in DOMAIN items, k <= cursor + 1 PROVE items[k] \in handed' \cup {0}
    <3>1. CASE k <= cursor
      BY <1>1, <1>2, <1>12, <1>14, <2>1, <3>1 DEF AloneUpdates
    <3>2. CASE k = cursor + 1
      BY <1>1, <3>2 DEF event
    <3> QED
      BY <1>4, <2>3, <3>1, <3>2
  <2>4. ASSUME NEW e \in handed' PROVE e \in settled \/ Listed(e)
    <3>1. CASE e \in handed
      BY <1>2, <1>14, <2>1, <3>1 DEF AloneUpdates
    <3>2. CASE e = event
      <4>1. cursor + 1 <= size
        BY <1>4, <2>2
      <4> QED
        BY <1>5, <3>2, <4>1 DEF Listed, event
    <3> QED
      BY <1>1, <2>4, <3>1, <3>2
  <2>5. \A e : Listed(e)' <=> Listed(e)
    BY <1>3 DEF Listed
  <2> QED
    BY <1>3, <1>12, <2>1, <2>2, <2>3, <2>4, <2>5 DEF AloneUpdates
<1>17. NothingLostAlone'
  <2>1. \A e : Listed(e)' <=> Listed(e)
    BY <1>3 DEF Listed
  <2> QED
    BY <1>1, <1>2, <1>3, <1>8, <1>14, <2>1 DEF NothingLostAlone
<1> QED
  BY <1>6, <1>10, <1>11, <1>13, <1>15, <1>16, <1>17 DEF EventsInv

LEMMA DeliverThrowsKeeps == ASSUME EventsInv, DeliverThrows PROVE EventsInv'
<1>1. Goes("no") /\ UNCHANGED <<cursor, handed>> /\ updating = "read"
  BY DEF DeliverThrows
<1>2. cursor \in Nat /\ AloneUpdates
  BY DEF EventsInv, EventsTypeOK
<1>3. EventsTypeOK' /\ OnePlace' /\ ClearedIsGone' /\ AloneAdds'
  BY <1>1, <1>2, GoesKeeps
<1>4. /\ NothingLostAlone'
      /\ ~raced' => /\ ~raced
                    /\ \A e \in handed : e \in settled' \/ Listed(e)'
  BY <1>1, GoesLosesNothing
<1>5. updating' = "no"
  BY <1>1 DEF Goes
<1>6. HandedIsBehind' /\ (updating = "skip" => handed = {})'
  BY <1>5 DEF HandedIsBehind
<1>7. AloneUpdates'
  BY <1>1, <1>4, <1>5 DEF AloneUpdates
<1> QED
  BY <1>3, <1>4, <1>6, <1>7 DEF EventsInv

LEMMA HandlerReturnsKeeps == ASSUME EventsInv, HandlerReturns PROVE EventsInv'
<1>1. /\ adding[Main] = Idle /\ updating = "handler" /\ handed' = handed
      /\ \/ Goes("loop") /\ cursor' = cursor + 1
         \/ Goes("no") /\ cursor' = cursor
  BY DEF HandlerReturns
<1>2. cursor \in Nat /\ HandedIsBehind /\ AloneUpdates
  BY DEF EventsInv, EventsTypeOK
<1>3. PICK place \in {"loop", "no"} : Goes(place) /\ (place = "loop" => cursor' = cursor + 1)
                                      /\ cursor' \in Nat
  BY <1>1, <1>2
<1>4. EventsTypeOK' /\ OnePlace' /\ ClearedIsGone' /\ AloneAdds'
      /\ \A e \in Nat \ {0} : \A k \in Nat : Stands(k, e)' => Stands(k, e)
  <2>1. place \in {"no", "loop", "get", "read", "handler", "skip", "clear"}
    BY <1>3
  <2> QED
    BY <1>1, <1>3, <2>1, GoesKeeps
<1>5. /\ NothingLostAlone'
      /\ ~raced' => /\ ~raced
                    /\ \A e \in handed : e \in settled' \/ Listed(e)'
  BY <1>1, <1>3, GoesLosesNothing
<1>6. updating' = place /\ UNCHANGED <<size, items, adding, settled>>
  BY <1>3 DEF Goes, theList
<1>7. Behind = cursor + 1 /\ (place = "loop" => Behind' = cursor + 1)
  BY <1>1, <1>3, <1>6 DEF Behind
<1>8. HandedIsBehind' /\ (updating = "skip" => handed = {})'
  <2>1. \A e \in handed : e \in Nat \ {0}
    BY DEF EventsInv, OnePlace, EventsTypeOK
  <2> QED
    BY <1>1, <1>2, <1>3, <1>4, <1>6, <1>7, <2>1 DEF HandedIsBehind
<1>9. AloneUpdates'
  BY <1>1, <1>2, <1>3, <1>5, <1>6, <1>7 DEF AloneUpdates
<1> QED
  BY <1>4, <1>5, <1>8, <1>9 DEF EventsInv

LEMMA ClearItemsKeeps == ASSUME EventsInv, ClearItems PROVE EventsInv'
<1> DEFINE copied == UNION {Events(adding[t].copy) : t \in Raisers}
           silent == IF updating = "skip" THEN Events(items) ELSE {}
<1>1. /\ EventsTypeOK /\ OnePlace /\ ClearedIsGone /\ HandedIsBehind
      /\ AloneAdds /\ AloneUpdates /\ NothingLostAlone /\ (updating = "skip" => handed = {})
  BY DEF EventsInv
<1>2. /\ updating \in {"clear", "skip"} /\ updating' = "reset" /\ Meets(Main)
      /\ settled' = settled \cup handed /\ unheard' = unheard \cup silent
      /\ overtaken' = overtaken \cup copied
      /\ items' = [k \in DOMAIN items |-> 0]
      /\ UNCHANGED <<size, adding, listening, cursor, raised, handed>>
  BY DEF ClearItems, Settle
<1>3. /\ size \in Nat /\ items \in Seq(Nat) /\ Len(items) \in Nat /\ DOMAIN items = 1..Len(items)
      /\ \A t \in Raisers : adding[t].copy \in Seq(Nat)
      /\ handed \cup settled \cup unheard \cup overtaken \subseteq Nat
  BY <1>1 DEF EventsTypeOK
<1>4. /\ items' \in Seq(Nat) /\ Len(items') = Len(items) /\ DOMAIN items' = DOMAIN items
      /\ \A k \in DOMAIN items' : items'[k] = 0
  BY <1>2, <1>3
<1>5. \A e \in Nat \ {0} : \A k \in Nat : Stands(k, e)' => Stands(k, e) /\ e \in overtaken'
  <2>1. SUFFICES ASSUME NEW e \in Nat \ {0}, NEW k \in Nat, Stands(k, e)'
                 PROVE  Stands(k, e) /\ e \in overtaken'
    OBVIOUS
  <2>2. PICK t \in Raisers : k \in DOMAIN adding[t].copy /\ adding[t].copy[k] = e
    BY <1>2, <1>4, <2>1 DEF Stands
  <2>3. e \in Events(adding[t].copy)
    BY <2>1, <2>2 DEF Events
  <2> QED
    BY <1>2, <2>2, <2>3 DEF Stands
<1>6. \A e \in silent : e \in Nat \ {0} /\ \E k \in Nat : Stands(k, e)
  <2>1. SUFFICES ASSUME NEW k \in DOMAIN items, items[k] # 0
                 PROVE  items[k] \in Nat \ {0} /\ \E j \in Nat : Stands(j, items[k])
    BY DEF Events
  <2> QED
    BY <1>3, <2>1 DEF Stands
<1>7. copied \subseteq Nat
  <2>1. SUFFICES ASSUME NEW t \in Raisers, NEW k \in DOMAIN adding[t].copy
                 PROVE  adding[t].copy[k] \in Nat
    BY DEF Events
  <2> QED
    BY <1>3, <2>1
<1> HIDE DEF copied, silent
<1>8. EventsTypeOK'
  <2>1. silent \subseteq Nat
    BY <1>6
  <2>2. (handed \cup settled \cup unheard \cup overtaken)' \subseteq Nat
    BY <1>2, <1>3, <1>7, <2>1
  <2> QED
    BY <1>1, <1>2, <1>4, <2>2 DEF EventsTypeOK, Meets
<1>9. \A t \in Raisers : Adds(t)' <=> Adds(t)
  BY <1>2 DEF Adds
<1>10. \A e \in silent : e \in 1..raised /\ \A t \in Raisers : Adds(t) => adding[t].event # e
  BY <1>1, <1>6 DEF OnePlace, EventsTypeOK
<1>11. OnePlace'
  <2>1. (handed \cup settled \cup unheard)' \subseteq 1..raised'
    BY <1>1, <1>2, <1>10 DEF OnePlace
  <2>2. ASSUME NEW t \in Raisers, Adds(t)
        PROVE  /\ adding'[t].event \in 1..raised'
               /\ adding'[t].event \notin (handed \cup settled \cup unheard)'
               /\ \A u \in Raisers \ {t} : Adds(u) => adding'[u].event # adding'[t].event
    BY <1>1, <1>2, <1>10, <2>2 DEF OnePlace
  <2>3. ASSUME NEW e \in Nat \ {0}, NEW k \in Nat, Stands(k, e)'
        PROVE  /\ e <= raised'
               /\ \A j \in Nat : Stands(j, e)' => j = k
               /\ \A t \in Raisers : Adds(t) => adding'[t].event # e
    BY <1>1, <1>2, <1>5, <2>3 DEF OnePlace
  <2> QED
    BY <1>9, <2>1, <2>2, <2>3 DEF OnePlace
<1>12. ClearedIsGone'
  <2>1. SUFFICES ASSUME NEW e \in (settled \cup unheard)', e \notin overtaken',
                        NEW k \in Nat, Stands(k, e)'
                 PROVE  FALSE
    BY DEF ClearedIsGone
  <2>2. e \in Nat \ {0}
    BY <1>1, <1>2, <1>11, <2>1 DEF OnePlace
  <2> QED
    BY <1>5, <2>1, <2>2
<1>13. HandedIsBehind' /\ (updating = "skip" => handed = {})'
  BY <1>2 DEF HandedIsBehind
<1>14. ASSUME ~raced' PROVE ~raced /\ \A t \in Raisers : ~Adds(t)
  BY <1>2, <1>14, UpdatesAlone
<1>15. AloneAdds'
  BY <1>1, <1>2, <1>4, <1>9, <1>14 DEF AloneAdds
<1>16. AloneUpdates'
  BY <1>2, <1>4 DEF AloneUpdates
<1>17. NothingLostAlone'
  <2>1. SUFFICES ASSUME ~raced', NEW e \in 1..raised
                 PROVE  e \in (handed \cup settled \cup unheard)'
    BY <1>2 DEF NothingLostAlone
  <2>2. Listed(e) \/ e \in handed \cup settled \cup unheard
    BY <1>1, <1>14, <2>1 DEF NothingLostAlone
  <2>3. ASSUME NEW k \in DOMAIN items, items[k] = e PROVE e \in handed \cup silent
    <3>1. CASE updating = "clear"
      BY <1>1, <1>14, <2>1, <2>3, <3>1 DEF AloneUpdates
    <3>2. CASE updating = "skip"
      BY <2>1, <2>3, <3>2 DEF silent, Events
    <3> QED
      BY <1>2, <3>1, <3>2
  <2> QED
    BY <1>2, <2>2, <2>3 DEF Listed
<1> QED
  BY <1>8, <1>11, <1>12, <1>13, <1>15, <1>16, <1>17 DEF EventsInv

LEMMA ClearSizeKeeps == ASSUME EventsInv, ClearSize PROVE EventsInv'
<1>1. /\ EventsTypeOK /\ AloneAdds /\ AloneUpdates /\ NothingLostAlone
  BY DEF EventsInv
<1>2. /\ updating = "reset" /\ updating' = "no" /\ Meets(Main) /\ size' = 0
      /\ UNCHANGED <<items, adding, listening, cursor, history>>
      /\ UNCHANGED <<raised, handed, settled, unheard, overtaken>>
  BY DEF ClearSize, history
<1>3. EventsTypeOK'
  BY <1>1, <1>2 DEF EventsTypeOK, Meets
<1>4. /\ \A e \in Nat \ {0} : \A k \in Nat : Stands(k, e)' => Stands(k, e)
      /\ \A t \in Raisers : Adds(t)' <=> Adds(t)
  BY <1>2 DEF Stands, Adds
<1>5. OnePlace' /\ ClearedIsGone'
  BY <1>2, <1>4, FewerPlaces DEF EventsInv
<1>6. HandedIsBehind' /\ (updating = "skip" => handed = {})'
  BY <1>2 DEF HandedIsBehind
<1>7. ASSUME ~raced'
      PROVE  ~raced /\ (\A t \in Raisers : ~Adds(t)) /\ \A k \in DOMAIN items : items[k] = 0
  BY <1>1, <1>2, <1>7, UpdatesAlone DEF AloneUpdates
<1>8. AloneAdds'
  <2>1. 0 <= Len(items)
    BY <1>1 DEF EventsTypeOK
  <2> QED
    BY <1>2, <1>4, <1>7, <2>1 DEF AloneAdds
<1>9. ASSUME ~raced', NEW e \in Nat \ {0} PROVE ~Listed(e)
  BY <1>7, <1>9 DEF Listed
<1>10. AloneUpdates'
  <2>1. \A e \in handed : e \in Nat \ {0}
    BY DEF EventsInv, OnePlace, EventsTypeOK
  <2> QED
    BY <1>1, <1>2, <1>7, <1>9, <2>1 DEF AloneUpdates
<1>11. NothingLostAlone'
  <2>1. \A e \in 1..raised : e \in Nat \ {0}
    BY <1>1 DEF EventsTypeOK
  <2> QED
    BY <1>1, <1>2, <1>7, <1>9, <2>1 DEF NothingLostAlone
<1> QED
  BY <1>3, <1>5, <1>6, <1>8, <1>10, <1>11 DEF EventsInv

LEMMA EventsStepInv == EventsInv /\ [EventsNext]_eventsVars => EventsInv'
<1>1. SUFFICES ASSUME EventsInv, [EventsNext]_eventsVars PROVE EventsInv'
  OBVIOUS
<1>2. CASE \E t \in Raisers : Add(t)
  BY <1>1, <1>2, AddTestsKeeps, AddCopiesKeeps, AddInstallsKeeps, AddTakesKeeps,
     AddReadsKeeps, AddCountsKeeps, AddStoresKeeps DEF Add
<1>3. CASE UpdateStep
  BY <1>1, <1>3, UpdateBeginsKeeps, LoopKeeps, GetTestsKeeps, DeliverKeeps, DeliverThrowsKeeps,
     HandlerReturnsKeeps, ClearItemsKeeps, ClearSizeKeeps DEF UpdateStep
<1>4. CASE Subscribe \/ UNCHANGED eventsVars
  <2>1. /\ UNCHANGED <<size, items, adding, updating, cursor, raced>>
        /\ UNCHANGED <<raised, handed, settled, unheard, overtaken>>
        /\ listening' = ~listening \/ listening' = listening
    BY <1>4 DEF Subscribe, eventsVars, theList, history
  <2>2. EventsTypeOK'
    <3>1. EventsTypeOK
      BY <1>1 DEF EventsInv
    <3> QED
      BY <2>1, <3>1 DEF EventsTypeOK
  <2>3. \A e, k : Stands(k, e)' <=> Stands(k, e)
    BY <2>1 DEF Stands
  <2>4. (\A t \in Raisers : Adds(t)' <=> Adds(t)) /\ (\A e : Listed(e)' <=> Listed(e)) /\ Behind' = Behind
    BY <2>1 DEF Adds, Listed, Behind
  <2>5. OnePlace' /\ ClearedIsGone' /\ HandedIsBehind' /\ (updating = "skip" => handed = {})'
    BY <1>1, <2>1, <2>3, <2>4 DEF EventsInv, OnePlace, ClearedIsGone, HandedIsBehind
  <2>6. AloneAdds' /\ AloneUpdates' /\ NothingLostAlone'
    BY <1>1, <2>1, <2>4 DEF EventsInv, AloneAdds, AloneUpdates, NothingLostAlone
  <2> QED
    BY <2>2, <2>5, <2>6 DEF EventsInv
<1> QED
  BY <1>1, <1>2, <1>3, <1>4 DEF EventsNext

-----------------------------------------------------------------------------
(* The list stays an array of events, and the threads at steps of Add.       *)
THEOREM EventsTyped == EventsSpec => []EventsTypeOK
BY EventsInitInv, EventsStepInv, PTL DEF EventsSpec, EventsInv

(* As long as no two threads meet in the list, no state raised is lost but to *)
(* an Update without a subscriber.                                           *)
THEOREM AloneNothingIsLost == EventsSpec => []NothingLostAlone
BY EventsInitInv, EventsStepInv, PTL DEF EventsSpec, EventsInv

(* No event is handed over again by an Update, nor after the Update that      *)
(* cleared it away, in whatever way the threads race; but for those that an   *)
(* Add was copying into a new array when they were cleared away.              *)
THEOREM EventsHandedOverOnce == EventsSpec => HandedOverOnce
<1>1. ASSUME EventsInv, Deliver
      PROVE  items[cursor + 1] \notin handed \cup ((settled \cup unheard) \ overtaken)
  <2>1. /\ cursor \in Nat /\ items \in Seq(Nat) /\ cursor < Len(items) /\ updating = "read"
        /\ OnePlace /\ ClearedIsGone /\ HandedIsBehind
    BY <1>1 DEF EventsInv, EventsTypeOK, Deliver
  <2>2. cursor + 1 \in DOMAIN items /\ cursor + 1 \in Nat /\ ~(cursor + 1 <= cursor)
    BY <2>1
  <2>3. Stands(cursor + 1, items[cursor + 1])
    BY <2>2 DEF Stands
  <2>4. items[cursor + 1] \notin handed
    BY <2>1, <2>2, <2>3 DEF HandedIsBehind, Behind
  <2> QED
    BY <2>1, <2>2, <2>3, <2>4 DEF ClearedIsGone
<1>2. EventsInv /\ [EventsNext]_eventsVars =>
        [Deliver => items[cursor + 1] \notin handed \cup ((settled \cup unheard) \ overtaken)]_eventsVars
  BY <1>1
<1> QED
  BY <1>2, EventsInitInv, EventsStepInv, PTL DEF EventsSpec, HandedOverOnce

=============================================================================
