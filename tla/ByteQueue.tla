------------------------------ MODULE ByteQueue ------------------------------
(***************************************************************************)
(* What a CSocketBuffer promises: bytes leave it in the order in which     *)
(* they came, and none is made up or changed.                              *)
(***************************************************************************)
EXTENDS Integers, Sequences

CONSTANT Byte

VARIABLE queue

\* Bytes are added at the end.
Put ==
  /\ queue' \in Seq(Byte) /\ Len(queue') >= Len(queue)
  /\ SubSeq(queue', 1, Len(queue)) = queue

\* Bytes leave from the front: those that were read, all of them when the buffer is
\* cleared or a read finds no memory.
Take == \E n \in 0 .. Len(queue) : queue' = SubSeq(queue, n + 1, Len(queue))

QueueSpec == queue = << >> /\ [][Put \/ Take]_queue
=============================================================================
