-------------------------------- MODULE NetSend --------------------------------
(***************************************************************************)
(* Sending on the connection of NetConnection: NetworkManager.Send encodes  *)
(* a message in the buffer of the Coder, Connection.Send copies it behind   *)
(* its length into sendBuffer, and BeginSend hands the array of sendBuffer  *)
(* to the socket, which reads it at some later moment while the main thread *)
(* goes on, and may send again.                                            *)
(*                                                                         *)
(* The Coder's buffer is the receiver's too, in Decode; NetConnection       *)
(* decodes in a buffer of its own, since no message gets that far.          *)
(***************************************************************************)
EXTENDS NetConnection

CONSTANTS
  MessageId,      \* the id all messages sent have
  Messages,       \* the messages, serialised
  MaxSends        \* bound on the messages sent

ASSUME SendAssumption ==
  /\ MessageId \in Int /\ Messages \subseteq Seq(Byte) /\ MaxSends \in Nat
  /\ IntSize <= BufferSize

VARIABLES
  coderBuffer,
  sendBuffer,
  inFlight,       \* the sends begun and not completed, in order
  arrived,        \* the last of them that the socket has transmitted
  sends           \* calls of Send

sending == <<coderBuffer, sendBuffer, inFlight, arrived, sends>>
clientVars == <<vars, sending>>

GetRaw(b) == Slice(b, 0, b.len)

\* A send that began: the bytes of the array it was given when sendBuffer has
\* got another array since, how many of them are to be sent, the message they
\* stand for, and whether sendBuffer has been refilled since.
Begun(length, message) ==
  [own |-> FALSE, array |-> <<>>, length |-> length, message |-> message,
   refilled |-> FALSE]

Nothing == [bytes |-> <<>>, message |-> <<>>, refilled |-> FALSE]

ClientInit ==
  /\ Init
  /\ coderBuffer = NewBuffer(BufferSize) /\ sendBuffer = NewBuffer(BufferSize)
  /\ inFlight = <<>> /\ arrived = Nothing /\ sends = 0

\* sendBuffer becomes b under the sends in flight. One that shares the array
\* keeps the old one when b has grown into a new one.
Refill(b) ==
  /\ sendBuffer' = b
  /\ inFlight' = [i \in DOMAIN inFlight |->
       LET s == inFlight[i]
           grows == ~s.own /\ b.len > sendBuffer.len
       IN [s EXCEPT !.refilled = TRUE, !.own = s.own \/ grows,
                    !.array = IF grows THEN GetRaw(sendBuffer) ELSE s.array]]

-----------------------------------------------------------------------------
\* Mutant: only what was written is handed on.
EncodedContent(b) == Content(b)

\* Encode returns the raw array of the buffer, its unwritten part included.
Encoded(b) == GetRaw(b)

\* Mutant: sendBuffer is not cleared.
SendBehind(message) ==
  LET encoded == Write(Write(Clear(coderBuffer), ToBytes(MessageId, IntSize)), message)
  IN /\ todo["main"] = <<>> /\ ~released /\ sends < MaxSends
     /\ sends' = sends + 1
     /\ coderBuffer' = encoded
     /\ Refill(Write(sendBuffer, ToBytes(Len(Encoded(encoded)), IntSize)))
     /\ todo' = [todo EXCEPT !["main"] = <<Do("WriteBytes"), Do("BeginSend")>>]
     /\ UNCHANGED <<world, connection, manager, arrived>>

\* Send up to the length in sendBuffer.
Send(message) ==
  LET encoded == Write(Write(Clear(coderBuffer), ToBytes(MessageId, IntSize)), message)
  IN /\ todo["main"] = <<>> /\ ~released /\ sends < MaxSends
     /\ sends' = sends + 1
     /\ coderBuffer' = encoded
     /\ Refill(Write(Clear(sendBuffer), ToBytes(Len(Encoded(encoded)), IntSize)))
     /\ todo' = [todo EXCEPT !["main"] = <<Do("WriteBytes"), Do("BeginSend")>>]
     /\ UNCHANGED <<world, connection, manager, arrived>>

WriteMessage ==
  /\ Runs("main", "WriteBytes")
  /\ Refill(Write(sendBuffer, Encoded(coderBuffer)))
  /\ Then("main", <<>>)
  /\ UNCHANGED <<world, connection, manager, coderBuffer, arrived, sends>>

\* BeginSend throws on a socket that is not connected.
BeginSend ==
  /\ Runs("main", "BeginSend")
  /\ IF SocketConnected
     THEN /\ inFlight' = Append(inFlight,
                                Begun(ReadableBytes(sendBuffer), Content(coderBuffer)))
          /\ Then("main", <<>>)
     ELSE Then("main", <<Announce("ERROR")>>) /\ UNCHANGED inFlight
  /\ UNCHANGED <<world, connection, manager, coderBuffer, sendBuffer, arrived, sends>>

\* The socket reads the array and transmits it, or fails. Sended, which is
\* called then, compares two lengths and logs.
Sended ==
  /\ inFlight # <<>>
  /\ inFlight' = Tail(inFlight)
  /\ LET s == Head(inFlight)
         array == IF s.own THEN s.array ELSE GetRaw(sendBuffer)
     IN \/ /\ SocketConnected
           /\ arrived' = [bytes |-> SubSeq(array, 1, s.length), message |-> s.message,
                          refilled |-> s.refilled]
        \/ /\ ~SocketConnected \/ peer # "open"
           /\ UNCHANGED arrived
  /\ UNCHANGED <<vars, coderBuffer, sendBuffer, sends>>

-----------------------------------------------------------------------------
SendStep == WriteMessage \/ BeginSend

ClientNext ==
  \/ Next /\ UNCHANGED sending
  \/ \E message \in Messages : Send(message)
  \/ SendStep \/ Sended

ClientSpec == ClientInit /\ [][ClientNext]_clientVars /\ Fairness /\ WF_clientVars(SendStep)

-----------------------------------------------------------------------------
Prefix(frame) == SubSeq(frame.bytes, 1, IntSize)
Body(frame) == SubSeq(frame.bytes, IntSize + 1, Len(frame.bytes))
IsFrame(frame) == Prefix(frame) = ToBytes(Len(Body(frame)), IntSize)

(* What the socket reads before the next Send touches sendBuffer is one whole *)
(* frame, the length of what follows first, and that begins with the message   *)
(* given, its id first. It need not end there: Encoded is the Coder's whole    *)
(* array, and what follows is zeros or what earlier messages left in it.       *)
UndisturbedBeginsAsGiven ==
  arrived # Nothing /\ ~arrived.refilled =>
    /\ IsFrame(arrived)
    /\ SubSeq(Body(arrived), 1, Len(arrived.message)) = arrived.message

(* Also a send that is overtaken by the refill of the next one keeps the      *)
(* stream cut into frames, as long as every message fits the Coder's buffer:  *)
(* its contents may be another message's, its length is right.                *)
FramesSurviveOverlap ==
  arrived # Nothing /\ coderBuffer.len = BufferSize
    => IsFrame(arrived)

=============================================================================
