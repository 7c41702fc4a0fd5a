------------------------------ MODULE ByteQueue ------------------------------
(***************************************************************************)
(* What a network buffer promises: a queue of bytes. Bytes leave a queue in *)
(* the order they entered it, each once, and only when a reader asks for    *)
(* them, when they are moved to another queue, or when the queue is cleared *)
(* as a whole.                                                             *)
(***************************************************************************)
EXTENDS Sequences, SequencesExt, Naturals

CONSTANT Queues

VARIABLES
  queue,    \* the bytes not read yet
  got       \* the bytes the last call handed to its caller

Init == queue = [q \in Queues |-> <<>>] /\ got = <<>>

Enqueue(q) ==
  /\ IsPrefix(queue[q], queue'[q])
  /\ queue' = [queue EXCEPT ![q] = queue'[q]]
  /\ got' = <<>>

\* The first n bytes leave; those behind the first m of them are handed over.
Dequeue(q) ==
  \E n \in 1..Len(queue[q]) : \E m \in 0..n :
    /\ got' = SubSeq(queue[q], m + 1, n)
    /\ queue' = [queue EXCEPT ![q] = SubSeq(@, n + 1, Len(@))]

Move(from, to) ==
  \E n \in 1..Len(queue[from]) :
    /\ from # to
    /\ queue' = [queue EXCEPT ![from] = SubSeq(@, n + 1, Len(@)),
                             ![to] = @ \o SubSeq(queue[from], 1, n)]
    /\ got' = <<>>

Duplicate(from, to) ==
  /\ queue' = [queue EXCEPT ![to] = queue[from]]
  /\ got' = <<>>

Drop(q) == queue' = [queue EXCEPT ![q] = <<>>] /\ got' = <<>>

\* Bytes still in the queue may be overwritten; they keep their places.
Overwrite(q) ==
  /\ Len(queue'[q]) = Len(queue[q])
  /\ queue' = [queue EXCEPT ![q] = queue'[q]]
  /\ got' = <<>>

NothingToGive == UNCHANGED queue /\ got' = <<>>

Next ==
  \/ NothingToGive
  \/ \E q \in Queues : Enqueue(q) \/ Dequeue(q) \/ Drop(q) \/ Overwrite(q)
  \/ \E from, to \in Queues : Move(from, to) \/ Duplicate(from, to)

Spec == Init /\ [][Next]_<<queue, got>>

=============================================================================
