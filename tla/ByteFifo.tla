------------------------------ MODULE ByteFifo ------------------------------
(***************************************************************************)
(* What one RTT channel promises, whatever its direction: a bounded byte   *)
(* queue.  The producer appends bytes, the consumer takes a prefix, and no *)
(* byte is lost, repeated or reordered in between.                         *)
(***************************************************************************)
EXTENDS Naturals, Sequences

CONSTANT Capacity

VARIABLES queue,   \* bytes published and not yet taken
          out      \* bytes the last Take handed over

Init == queue = << >> /\ out = << >>

\* Bytes carry their place in the stream: what follows the queue is new.
Publish ==
  /\ \E n \in 1 .. Capacity - Len(queue) :
       /\ Len(queue') = Len(queue) + n
       /\ SubSeq(queue', 1, Len(queue)) = queue
  /\ UNCHANGED out

Take ==
  \E n \in 1 .. Len(queue) :
    /\ out' = SubSeq(queue, 1, n)
    /\ queue' = SubSeq(queue, n + 1, Len(queue))

\* A Take whose answer is lost: the bytes have left the queue and nobody gets them.
Lose ==
  /\ \E n \in 1 .. Len(queue) : queue' = SubSeq(queue, n + 1, Len(queue))
  /\ UNCHANGED out

Spec == Init /\ [][Publish \/ Take]_<<queue, out>>
=============================================================================
