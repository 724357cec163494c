--------------------------- MODULE ConcurrentQueue ---------------------------
(***************************************************************************)
(* The linked list of src/server/concurrent_queue.h, one statement per     *)
(* step.  The list always ends in one empty node, the one `back' points    *)
(* to; `front' == `back' says that the queue is empty.  Enqueue and        *)
(* dequeue take no lock: one thread moves `back', another moves `front'.   *)
(*                                                                         *)
(* A node is an element of Nodes.  `new' may return any node that is not   *)
(* allocated, also one that was deleted before; `delete' gives it back.    *)
(* Nodes is the only bound of the model.  The makefile compiles without    *)
(* optimisation, so a thread's loads and stores happen in program order.   *)
(*                                                                         *)
(* `chain' is a history variable: the nodes the program has linked from    *)
(* front to back.  No action reads it.                                     *)
(***************************************************************************)
EXTENDS Naturals, Sequences

CONSTANTS Producers,   \* the threads that call enqueue
          Items,       \* the values that may be queued
          Nodes,       \* the addresses `new' can return
          NoItem,      \* the value-initialised item of a fresh node
          NoNode       \* nullptr

ASSUME NullAssumption == NoItem \notin Items /\ NoNode \notin Nodes

VARIABLES
    item,        \* item[n]: the field `item' of node n
    next,        \* next[n]: the field `next' of node n
    allocated,   \* the nodes that were allocated and not deleted
    front, back, \* the two pointers of the queue
    producer,    \* producer[p]: where thread p is in enqueue
    argument,    \* argument[p]: the parameter `item' of p's enqueue
    new_node,    \* new_node[p]: the local of p's enqueue
    consumer,    \* where the consuming thread is in dequeue
    taken,       \* the reference parameter `item' of dequeue
    item_to_delete, \* the local of dequeue
    chain

heap == <<item, next, allocated>>
producing == <<producer, argument, new_node>>
consuming == <<consumer, taken, item_to_delete>>
vars == <<heap, front, back, producing, consuming, chain>>

ProducerPc == {"idle", "write", "link", "publish"}
ConsumerPc == {"idle", "read", "advance", "delete"}

-----------------------------------------------------------------------------
(* The constructor: one empty node, front == back. *)
Init ==
    /\ front \in Nodes
    /\ back = front
    /\ allocated = {front}
    /\ item = [n \in Nodes |-> NoItem]
    /\ next = [n \in Nodes |-> NoNode]
    /\ producer = [p \in Producers |-> "idle"]
    /\ argument = [p \in Producers |-> NoItem]
    /\ new_node = [p \in Producers |-> NoNode]
    /\ consumer = "idle"
    /\ taken = NoItem
    /\ item_to_delete = NoNode
    /\ chain = <<front>>

(* enqueue: new_node = new ...; new_node->next = nullptr *)
Allocate(p, i) ==
    /\ producer[p] = "idle"
    /\ \E n \in Nodes \ allocated :
          /\ allocated' = allocated \cup {n}
          /\ item' = [item EXCEPT ![n] = NoItem]
          /\ next' = [next EXCEPT ![n] = NoNode]
          /\ new_node' = [new_node EXCEPT ![p] = n]
    /\ argument' = [argument EXCEPT ![p] = i]
    /\ producer' = [producer EXCEPT ![p] = "write"]
    /\ UNCHANGED <<front, back, consuming, chain>>

(* A faulty variant: the item goes into the new, empty node. *)
WriteItemToNewNode(p) ==
    /\ producer[p] = "write"
    /\ item' = [item EXCEPT ![new_node[p]] = argument[p]]
    /\ producer' = [producer EXCEPT ![p] = "link"]
    /\ UNCHANGED <<next, allocated, front, back, argument, new_node, consuming, chain>>

(* enqueue: back->item = item *)
WriteItem(p) ==
    /\ producer[p] = "write"
    /\ item' = [item EXCEPT ![back] = argument[p]]
    /\ producer' = [producer EXCEPT ![p] = "link"]
    /\ UNCHANGED <<next, allocated, front, back, argument, new_node, consuming, chain>>

(* enqueue: back->next = new_node *)
Link(p) ==
    /\ producer[p] = "link"
    /\ next' = [next EXCEPT ![back] = new_node[p]]
    /\ producer' = [producer EXCEPT ![p] = "publish"]
    /\ UNCHANGED <<item, allocated, front, back, argument, new_node, consuming, chain>>

(* enqueue: back = new_node, from here on the consumer sees the item *)
Publish(p) ==
    /\ producer[p] = "publish"
    /\ back' = new_node[p]
    /\ chain' = Append(chain, new_node[p])
    /\ producer' = [producer EXCEPT ![p] = "idle"]
    /\ UNCHANGED <<heap, front, argument, new_node, consuming>>

(* dequeue and peek: front == back.  A dequeue of an empty queue returns   *)
(* false and changes nothing.                                              *)
empty == front = back

(* dequeue: the queue is not empty *)
BeginDequeue ==
    /\ consumer = "idle"
    /\ ~empty
    /\ consumer' = "read"
    /\ UNCHANGED <<heap, front, back, producing, taken, item_to_delete, chain>>

(* dequeue: item = front->item *)
ReadItem ==
    /\ consumer = "read"
    /\ taken' = item[front]
    /\ consumer' = "advance"
    /\ UNCHANGED <<heap, front, back, producing, item_to_delete, chain>>

(* dequeue: item_to_delete = front; front = front->next *)
Advance ==
    /\ consumer = "advance"
    /\ item_to_delete' = front
    /\ front' = next[front]
    /\ chain' = Tail(chain)
    /\ consumer' = "delete"
    /\ UNCHANGED <<heap, back, producing, taken>>

(* A faulty variant: the wrong node is deleted. *)
DeleteFront ==
    /\ consumer = "delete"
    /\ allocated' = allocated \ {front}
    /\ consumer' = "idle"
    /\ UNCHANGED <<item, next, front, back, producing, taken, item_to_delete, chain>>

(* dequeue: delete item_to_delete *)
Delete ==
    /\ consumer = "delete"
    /\ allocated' = allocated \ {item_to_delete}
    /\ consumer' = "idle"
    /\ UNCHANGED <<item, next, front, back, producing, taken, item_to_delete, chain>>

Produce(p) ==
    \/ \E i \in Items : Allocate(p, i)
    \/ WriteItem(p)
    \/ Link(p)
    \/ Publish(p)

Consume == BeginDequeue \/ ReadItem \/ Advance \/ Delete

Next ==
    \/ \E p \in Producers : Produce(p)
    \/ Consume

Spec == Init /\ [][Next]_vars

-----------------------------------------------------------------------------
TypeOK ==
    /\ item \in [Nodes -> Items \cup {NoItem}]
    /\ next \in [Nodes -> Nodes \cup {NoNode}]
    /\ allocated \subseteq Nodes
    /\ front \in Nodes /\ back \in Nodes
    /\ producer \in [Producers -> ProducerPc]
    /\ argument \in [Producers -> Items \cup {NoItem}]
    /\ new_node \in [Producers -> Nodes \cup {NoNode}]
    /\ consumer \in ConsumerPc
    /\ taken \in Items \cup {NoItem}
    /\ item_to_delete \in Nodes \cup {NoNode}
    /\ chain \in Seq(Nodes)

(* The nodes a thread is about to read, write or delete. *)
Dereferenced ==
    {front} \cup {back}
    \cup {new_node[p] : p \in {q \in Producers : producer[q] # "idle"}}
    \cup (IF consumer = "delete" THEN {item_to_delete} ELSE {})

(* No node is read, written or deleted after its deletion: neither thread  *)
(* frees what the other one still reaches through front or back.           *)
NoUseAfterDelete == Dereferenced \subseteq allocated

(* The queue the caller sees.  An enqueue takes effect when back moves, a  *)
(* dequeue when the item is copied out.                                    *)
Contents == [k \in 1 .. Len(chain) - 1 |-> item[chain[k]]]
queue == IF consumer = "advance" THEN Tail(Contents) ELSE Contents

Abstract == INSTANCE Fifo

(* enqueue and dequeue, run by one producer and one consumer at the same   *)
(* time, are a first-in first-out queue: nothing is lost, doubled or       *)
(* handed out in another order.                                            *)
ImplementsFifo == Abstract!Spec
=============================================================================
