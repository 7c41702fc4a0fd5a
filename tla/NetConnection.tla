---------------------------- MODULE NetConnection ----------------------------
(***************************************************************************)
(* One connection attempt of the client and what follows it: Connection.cs  *)
(* and NetworkManager.cs of Common/Network, run by three threads without a  *)
(* lock between them. The main thread connects, updates once a frame and    *)
(* releases the manager; the callback of BeginConnect runs on a pool        *)
(* thread; the receiver thread it starts runs ReceiveData. A thread is the  *)
(* sequence of operations it still has to run; an operation is a step, so   *)
(* threads interleave wherever the code reads or writes what they share.    *)
(* What the listener is told besides messages goes through the list that    *)
(* NetEvents models, and nothing here depends on it. Sending is NetSend.    *)
(***************************************************************************)
EXTENDS NetBuffer, FiniteSets

CONSTANTS
  BufferSize,     \* bytes of tempBuffer and receiveBuffer: 4096
  Message,        \* the bytes of a message of the server, length first
  MaxMessages     \* bound on the messages the server sends

ASSUME NetAssumption ==
  /\ BufferSize \in Nat /\ MaxMessages \in Nat
  /\ Message \in Seq(Byte)

ConnectionState ==
  {"CLOSED", "CONNECTING", "CONNECTED", "DISCONNECTED", "TIMEOUT", "ERROR"}

Threads == {"main", "callback", "receiver"}

VARIABLES
  socket,            \* the socket: "idle", "connecting", "connected", "failed", "closed"
  peer,              \* the server's end: "open", "closed", "reset"
  inbox,             \* bytes the socket has received from the server
  sent,              \* messages the server has sent
  elapsed,           \* timeoutMSec have passed while Connect waits
  networkState,
  readState,
  receiveBuffer,
  tempBuffer,
  lstMessage,
  registered,        \* the game has registered its callback
  invoked,           \* messages handed to that callback
  released,          \* NetworkManager.Release has been called
  todo               \* the operations each thread still has to run

world == <<socket, peer, inbox, sent, elapsed>>
connection == <<networkState, readState, receiveBuffer, tempBuffer>>
manager == <<lstMessage, registered, invoked, released>>
vars == <<world, connection, manager, todo>>

SocketConnected == socket = "connected"

-----------------------------------------------------------------------------
Operations ==
  {"readHead", "NetworkStateChanged", "assign", "WaitOne", "Close", "Shutdown", "clear",
   "Connected", "EndConnect", "Start", "ReceiveData", "Poll", "Receive",
   "WriteBytes", "BeginSend"}

\* An operation is its name and the connection state it is about, if any.
NoState == "none"
Op(op, state) == [op |-> op, state |-> state]
Do(op) == Op(op, NoState)
Announce(state) == Op("NetworkStateChanged", state)

Runs(t, op) == todo[t] # <<>> /\ Head(todo[t]).op = op

\* Thread t runs its first operation, and `next` before what it had to do.
Then(t, next) == todo' = [todo EXCEPT ![t] = next \o Tail(@)]
Ends(t) == todo' = [todo EXCEPT ![t] = <<>>]

\* Connect after BeginConnect.
ConnectSteps == <<Do("readHead"), Announce("CONNECTING"), Do("WaitOne")>>

-----------------------------------------------------------------------------
\* What the constructor leaves in readState.
InitialReadState == "READ_HEAD"

Init ==
  /\ socket = "idle" /\ peer = "open" /\ inbox = <<>> /\ sent = 0 /\ elapsed = FALSE
  /\ networkState = "CLOSED" /\ readState = InitialReadState
  /\ receiveBuffer = NewBuffer(BufferSize) /\ tempBuffer = NewBuffer(BufferSize)
  /\ lstMessage = <<>> /\ registered = FALSE
  /\ invoked = 0 /\ released = FALSE
  /\ todo = [t \in Threads |-> <<>>]

-----------------------------------------------------------------------------
\* NetworkManager.Connect, called once: BeginConnect, and then the rest.
Connect ==
  /\ todo["main"] = <<>> /\ ~released /\ socket = "idle"
  /\ socket' = "connecting"
  /\ todo' = [todo EXCEPT !["main"] = ConnectSteps]
  /\ UNCHANGED <<peer, inbox, sent, elapsed, connection, manager>>

ReadHead(t) ==
  /\ Runs(t, "readHead")
  /\ readState' = "READ_HEAD"
  /\ Then(t, <<>>)
  /\ UNCHANGED <<world, networkState, receiveBuffer, tempBuffer, manager>>

\* Mutant: the event is created unset, as for a wait that may time out.
TimeoutEventIsUnset == FALSE

\* timeoutEvent is created set, and nothing resets it.
TimeoutEventIsSet == TRUE

\* A set event ends the wait at once; otherwise timeoutMSec end it. Only in
\* the first case the state is looked at.
WaitOne(t) ==
  /\ Runs(t, "WaitOne")
  /\ TimeoutEventIsSet \/ elapsed
  /\ Then(t, IF TimeoutEventIsSet /\ networkState \notin {"CONNECTED", "ERROR"}
             THEN <<Announce("TIMEOUT"), Do("Close")>> ELSE <<>>)
  /\ elapsed' = FALSE
  /\ UNCHANGED <<socket, peer, inbox, sent, connection, manager>>

\* The test of NetworkStateChanged, and its assignment.
NetworkStateChanged(t) ==
  /\ Runs(t, "NetworkStateChanged")
  /\ LET new == Head(todo[t]).state
     IN Then(t, IF new # networkState THEN <<Op("assign", new)>> ELSE <<>>)
  /\ UNCHANGED <<world, connection, manager>>

Assign(t) ==
  /\ Runs(t, "assign")
  /\ networkState' = Head(todo[t]).state
  /\ Then(t, <<>>)
  /\ UNCHANGED <<world, readState, receiveBuffer, tempBuffer, manager>>

\* Mutant: the new state is announced before the socket is closed.
CloseAnnouncesFirst(t) ==
  /\ Runs(t, "Close")
  /\ Then(t, IF SocketConnected THEN <<Announce("CLOSED"), Do("Shutdown")>> ELSE <<>>)
  /\ UNCHANGED <<world, connection, manager>>

\* Close: the test of socket.Connected.
Close(t) ==
  /\ Runs(t, "Close")
  /\ Then(t, IF SocketConnected THEN <<Do("Shutdown")>> ELSE <<>>)
  /\ UNCHANGED <<world, connection, manager>>

\* Shutdown and Close of the socket. Shutdown throws on a socket that another
\* thread has closed meanwhile, and may throw on one the peer has reset; Close
\* catches it and announces nothing.
Shutdown(t) ==
  /\ Runs(t, "Shutdown")
  /\ \/ /\ socket # "closed"
        /\ socket' = "closed"
        /\ Then(t, <<Announce("CLOSED")>>)
     \/ /\ socket = "closed" \/ peer = "reset"
        /\ Then(t, <<>>)
        /\ UNCHANGED socket
  /\ UNCHANGED <<peer, inbox, sent, elapsed, connection, manager>>

-----------------------------------------------------------------------------
\* AddMsgCallback registers the callback and the type of the messages.
AddMsgCallback ==
  /\ todo["main"] = <<>> /\ ~released
  /\ registered' = TRUE
  /\ UNCHANGED <<world, connection, lstMessage, invoked, released, todo>>

\* NetworkManager.Update, once a frame: the callback gets every message.
Update ==
  /\ todo["main"] = <<>> /\ ~released
  /\ invoked' = invoked + Cardinality({i \in DOMAIN lstMessage : registered /\ lstMessage[i] # 0})
  /\ lstMessage' = <<>>
  /\ UNCHANGED <<world, connection, registered, released, todo>>

\* NetworkManager.Release: the tables are cleared, the connection is disposed
\* of, the list cleared.
Release ==
  /\ todo["main"] = <<>> /\ ~released
  /\ released' = TRUE /\ registered' = FALSE
  /\ todo' = [todo EXCEPT !["main"] = <<Do("Close"), Do("clear")>>]
  /\ UNCHANGED <<world, connection, lstMessage, invoked>>

ClearMessages ==
  /\ Runs("main", "clear")
  /\ lstMessage' = <<>>
  /\ Then("main", <<>>)
  /\ UNCHANGED <<world, connection, registered, invoked, released>>

-----------------------------------------------------------------------------
\* Connected, the callback of BeginConnect: socket.Connected is tested, ..
Connected ==
  /\ Runs("callback", "Connected")
  /\ Then("callback", IF SocketConnected THEN <<Do("EndConnect")>>
                      ELSE <<Announce("DISCONNECTED")>>)
  /\ UNCHANGED <<world, connection, manager>>

\* .. and EndConnect throws on a socket closed meanwhile, ending the callback.
EndConnect ==
  /\ Runs("callback", "EndConnect")
  /\ IF socket = "closed" THEN Ends("callback")
     ELSE Then("callback", <<Announce("CONNECTED"), Do("Start")>>)
  /\ UNCHANGED <<world, connection, manager>>

StartReceiver ==
  /\ Runs("callback", "Start")
  /\ todo' = [todo EXCEPT !["callback"] = <<>>, !["receiver"] = <<Do("ReceiveData")>>]
  /\ UNCHANGED <<world, connection, manager>>

-----------------------------------------------------------------------------
\* A round of ReceiveData begins when the socket is connected.
ReceiveData ==
  /\ Runs("receiver", "ReceiveData")
  /\ IF SocketConnected THEN Then("receiver", <<Do("Poll")>>) ELSE Ends("receiver")
  /\ UNCHANGED <<world, connection, manager>>

\* Poll blocks until there is something to receive, the end of the stream
\* included. It throws on a closed socket, outside of the try: the thread ends.
Poll ==
  /\ Runs("receiver", "Poll")
  /\ socket = "closed" \/ inbox # <<>> \/ peer # "open"
  /\ IF socket = "closed"
     THEN Ends("receiver") /\ UNCHANGED tempBuffer
     ELSE Then("receiver", <<Do("Receive")>>) /\ tempBuffer' = Clear(tempBuffer)
  /\ UNCHANGED <<world, networkState, readState, receiveBuffer, manager>>

\* Whether receiveBuffer holds a whole message, its length included.
HasMessage(b) ==
  /\ ReadableBytes(b) >= IntSize
  /\ ReadableBytes(b) >= IntSize + GetInt(b, b.readerIndex)

\* Connection.ReadData: the message, and the buffer behind it. Only READ_HEAD
\* reads one. The length is consumed although no more than the message's bytes
\* are readable and ReadByteArray returns nothing.
MessageIn(b, state) ==
  LET body == Advance(b, IntSize)
      length == GetInt(b, b.readerIndex)
  IN CASE ~(state = "READ_HEAD" /\ HasMessage(b)) -> [data |-> <<>>, rest |-> b]
       [] state = "READ_HEAD" /\ HasMessage(b) /\ ~CanReadArray(body, length) ->
            [data |-> <<>>, rest |-> body]
       [] OTHER -> [data |-> Slice(body, body.readerIndex, length),
                    rest |-> Advance(body, length)]

\* Coder.Decode: the message's id, and 0 when the rest cannot be read or no
\* type is registered.
Decode(data) ==
  LET arr == Advance(Write(NewBuffer(BufferSize), data), IntSize)
  IN IF registered /\ CanReadArray(arr, Len(data) - IntSize) THEN GetInt(arr, 0) ELSE 0

\* Some bytes received: Receive stores them in the array of tempBuffer and
\* moves no index of it; tempBuffer's readable bytes go to receiveBuffer.
ReceiveBytes(bytes) ==
  LET temp == Store(tempBuffer, 0, bytes)
      buffer == Write(receiveBuffer, Content(temp))
      state == IF ReadableBytes(buffer) >= IntSize THEN "READ_BODY" ELSE readState
      read == MessageIn(buffer, state)
      onMessage == state = "READ_BODY" /\ HasMessage(buffer)
  IN /\ tempBuffer' = Advance(temp, Len(Content(temp)))
     /\ receiveBuffer' = IF onMessage THEN read.rest ELSE buffer
     /\ readState' = IF onMessage THEN "READ_HEAD" ELSE state
     /\ lstMessage' = IF onMessage /\ read.data # <<>>
                      THEN Append(lstMessage, Decode(read.data)) ELSE lstMessage

\* Mutant: the end of the stream is taken for a message of nothing.
EndOfStreamIgnored == <<Do("ReceiveData")>>

\* 0 bytes received: the server has closed the connection.
EndOfStream == <<Do("Close"), Do("ReceiveData")>>

Receive ==
  /\ Runs("receiver", "Receive")
  /\ \/ /\ socket = "closed" \/ peer = "reset"      \* it throws
        /\ socket' = IF socket = "closed" THEN "closed" ELSE "failed"
        /\ Then("receiver", <<Announce("ERROR"), Do("ReceiveData")>>)
        /\ UNCHANGED <<inbox, readState, receiveBuffer, tempBuffer, lstMessage>>
     \/ /\ socket # "closed" /\ inbox # <<>>
        /\ \E n \in 1..Len(inbox) :
             /\ n <= tempBuffer.len
             /\ ReceiveBytes(SubSeq(inbox, 1, n))
             /\ inbox' = SubSeq(inbox, n + 1, Len(inbox))
        /\ Then("receiver", <<Do("ReceiveData")>>)
        /\ UNCHANGED socket
     \/ /\ socket # "closed" /\ inbox = <<>> /\ peer = "closed"
        /\ Then("receiver", EndOfStream)
        /\ UNCHANGED <<socket, inbox, readState, receiveBuffer, tempBuffer, lstMessage>>
  /\ UNCHANGED <<peer, sent, elapsed, networkState, registered, invoked, released>>

-----------------------------------------------------------------------------
\* The network and the server.
ConnectEnds ==
  /\ socket = "connecting"
  /\ socket' \in {"connected", "failed"}
  /\ todo' = [todo EXCEPT !["callback"] = <<Do("Connected")>>]
  /\ UNCHANGED <<peer, inbox, sent, elapsed, connection, manager>>

TimePasses ==
  /\ Runs("main", "WaitOne") /\ ~elapsed
  /\ elapsed' = TRUE
  /\ UNCHANGED <<socket, peer, inbox, sent, connection, manager, todo>>

ServerSends ==
  /\ SocketConnected /\ peer = "open" /\ sent < MaxMessages
  /\ inbox' = inbox \o Message
  /\ sent' = sent + 1
  /\ UNCHANGED <<socket, peer, elapsed, connection, manager, todo>>

ServerCloses ==
  /\ SocketConnected /\ peer = "open"
  /\ peer' \in {"closed", "reset"}
  /\ UNCHANGED <<socket, inbox, sent, elapsed, connection, manager, todo>>

-----------------------------------------------------------------------------
ThreadStep(t) == NetworkStateChanged(t) \/ Assign(t) \/ Close(t) \/ Shutdown(t)

MainStep == ThreadStep("main") \/ ReadHead("main") \/ WaitOne("main") \/ ClearMessages

CallbackStep == ThreadStep("callback") \/ Connected \/ EndConnect \/ StartReceiver

ReceiverStep == ThreadStep("receiver") \/ ReceiveData \/ Poll \/ Receive

Next ==
  \/ Connect \/ AddMsgCallback \/ Update \/ Release
  \/ MainStep \/ CallbackStep \/ ReceiverStep
  \/ ConnectEnds \/ TimePasses \/ ServerSends \/ ServerCloses

\* The scheduler runs every thread, Unity calls Update every frame, and the
\* network stack answers a connect and measures time. Nothing makes the game
\* connect or quit, nor the server send or close.
Fairness ==
  /\ WF_vars(MainStep) /\ WF_vars(Update)
  /\ WF_vars(CallbackStep) /\ WF_vars(ReceiverStep)
  /\ WF_vars(ConnectEnds) /\ WF_vars(TimePasses)

Spec == Init /\ [][Next]_vars /\ Fairness

-----------------------------------------------------------------------------
(* The state of the connection becomes CLOSED only when the socket is closed: *)
(* who sees CLOSED may rely on the receiver ending.                           *)
ClosedIsClosed ==
  [][networkState' = "CLOSED" /\ networkState # "CLOSED" => socket = "closed"]_vars

(* A connection attempt does not stay CONNECTING for ever, also when the      *)
(* callback runs before Connect has announced that it is connecting.          *)
AttemptIsResolved == [](todo["main"] = ConnectSteps => <>[](networkState # "CONNECTING"))

(* When the server closes or resets the connection, the receiver thread ends. *)
ReceiverEnds == []<>(peer # "open" => todo["receiver"] = <<>>)

(* The callback is invoked when the server returns data: a message sent on a  *)
(* connection that stays up reaches the game that has registered before.      *)
ServerDataReachesCallback ==
  [](socket # "idle" => registered) /\ <>[](SocketConnected /\ peer = "open" /\ sent = 1 /\ ~released) => <>(invoked = 1)

(* CONNECTED, "server connected", is the current network state of a live       *)
(* socket: it does not stay when the socket is gone.                          *)
ConnectedIsConnected == []<>(networkState = "CONNECTED" => SocketConnected)

=============================================================================
