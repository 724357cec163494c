-------------------------------- MODULE Fifo --------------------------------
(***************************************************************************)
(* What src/server/concurrent_queue.h promises its callers: a first-in     *)
(* first-out queue.  An enqueue takes effect in one indivisible step, and  *)
(* so does a dequeue; the item a dequeue hands out is the oldest one.      *)
(***************************************************************************)
EXTENDS Sequences

CONSTANTS Items,    \* the values that may be queued (task *, message *)
          NoItem    \* what the consumer holds before its first dequeue

VARIABLES queue,    \* the items that were enqueued and not yet dequeued
          taken     \* the consumer's variable the last dequeue filled in

vars == <<queue, taken>>

Init ==
    /\ queue = << >>
    /\ taken = NoItem

Enqueue(item) ==
    /\ queue' = Append(queue, item)
    /\ UNCHANGED taken

Dequeue ==
    /\ queue # << >>
    /\ taken' = Head(queue)
    /\ queue' = Tail(queue)

Next ==
    \/ \E item \in Items : Enqueue(item)
    \/ Dequeue

Spec == Init /\ [][Next]_vars
=============================================================================
