------------------------ MODULE ConcurrentQueueProofs ------------------------
(***************************************************************************)
(* Theorems about ConcurrentQueue, for any sets of items and addresses:    *)
(* with one producer, as the comment of concurrent_queue.h asks, the list  *)
(* uses no deleted node and is a first-in first-out queue.                 *)
(***************************************************************************)
EXTENDS ConcurrentQueue, SequenceTheorems, TLAPS

(* "thread safe if only one thread calls enque" (concurrent_queue.h:5); one *)
(* thread dequeues by the shape of ConcurrentQueue.                         *)
OneProducer == \A p, q \in Producers : p = q

-----------------------------------------------------------------------------
(* The nodes of the chain are allocated and different, each one points to  *)
(* the next one, and front and back point to its ends.                     *)
Linked ==
    /\ Len(chain) >= 1
    /\ chain[1] = front
    /\ chain[Len(chain)] = back
    /\ \A k \in 1 .. Len(chain) : chain[k] \in allocated
    /\ \A k \in 1 .. Len(chain) - 1 : next[chain[k]] = chain[k + 1]
    /\ \A j, k \in 1 .. Len(chain) : chain[j] = chain[k] => j = k

(* An enqueue under way has a node that is not yet in the chain, and has   *)
(* written the fields of the last node of the chain in order.              *)
Enqueuing ==
    \A p \in Producers : producer[p] # "idle" =>
        /\ argument[p] \in Items
        /\ new_node[p] \in allocated
        /\ \A k \in 1 .. Len(chain) : chain[k] # new_node[p]
        /\ producer[p] \in {"link", "publish"} => item[back] = argument[p]
        /\ producer[p] = "publish" => next[back] = new_node[p]

(* A dequeue under way has a first item to take, then a node that is no    *)
(* longer in the chain and that no enqueue was given.                      *)
Dequeuing ==
    /\ consumer \in {"read", "advance"} => Len(chain) >= 2
    /\ consumer = "advance" => taken = item[front]
    /\ consumer = "delete" =>
          /\ item_to_delete \in allocated
          /\ \A k \in 1 .. Len(chain) : chain[k] # item_to_delete
          /\ \A p \in Producers : producer[p] # "idle" => new_node[p] # item_to_delete

IndInv == TypeOK /\ Linked /\ Enqueuing /\ Dequeuing

LEMMA InitInd == Init => IndInv
<1>. SUFFICES ASSUME Init PROVE IndInv
  OBVIOUS
<1>1. chain = <<front>> /\ Len(chain) = 1 /\ chain[1] = front /\ front \in Nodes
  BY DEF Init
<1>2. TypeOK
  BY <1>1 DEF Init, TypeOK, ProducerPc, ConsumerPc
<1>3. Linked
  BY <1>1 DEF Init, Linked
<1>4. Enqueuing /\ Dequeuing
  BY DEF Init, Enqueuing, Dequeuing
<1>. QED
  BY <1>2, <1>3, <1>4 DEF IndInv

(* The places of the chain. *)
LEMMA ChainFacts ==
    ASSUME IndInv
    PROVE  /\ Len(chain) \in Nat /\ Len(chain) >= 1
           /\ \A k \in 1 .. Len(chain) : chain[k] \in Nodes
           /\ 1 \in 1 .. Len(chain) /\ Len(chain) \in 1 .. Len(chain)
           /\ front \in allocated /\ back \in allocated
<1>1. chain \in Seq(Nodes) /\ Len(chain) >= 1
  BY DEF IndInv, TypeOK, Linked
<1>2. Len(chain) \in Nat
  BY <1>1
<1>3. \A k \in 1 .. Len(chain) : chain[k] \in Nodes
  BY <1>1
<1>4. 1 \in 1 .. Len(chain) /\ Len(chain) \in 1 .. Len(chain)
  BY <1>1, <1>2
<1>. QED
  BY <1>1, <1>2, <1>3, <1>4 DEF IndInv, Linked

LEMMA AllocateInd ==
    ASSUME OneProducer, IndInv, NEW p \in Producers, NEW i \in Items, Allocate(p, i)
    PROVE  IndInv'
<1>1. PICK n \in Nodes \ allocated :
          /\ allocated' = allocated \cup {n}
          /\ item' = [item EXCEPT ![n] = NoItem]
          /\ next' = [next EXCEPT ![n] = NoNode]
          /\ new_node' = [new_node EXCEPT ![p] = n]
  BY DEF Allocate
<1>2. /\ argument' = [argument EXCEPT ![p] = i]
      /\ producer[p] = "idle" /\ producer' = [producer EXCEPT ![p] = "write"]
      /\ UNCHANGED <<front, back, consuming, chain>>
  BY DEF Allocate
<1>3. TypeOK'
  BY <1>1, <1>2 DEF IndInv, TypeOK, ProducerPc, ConsumerPc, consuming
<1>4. \A k \in 1 .. Len(chain) : chain[k] # n
  BY <1>1 DEF IndInv, Linked
<1>5. \A m \in Nodes : m # n => item'[m] = item[m] /\ next'[m] = next[m]
  BY <1>1 DEF IndInv, TypeOK
<1>6. Linked'
  <2>1. \A k \in 1 .. Len(chain) - 1 : k \in 1 .. Len(chain)
    BY ChainFacts
  <2>2. \A k \in 1 .. Len(chain) - 1 : next'[chain[k]] = chain[k + 1]
    BY <1>4, <1>5, <2>1, ChainFacts DEF IndInv, Linked
  <2>. QED
    BY <1>1, <1>2, <2>2 DEF IndInv, Linked, consuming
<1>7. producer'[p] = "write" /\ argument'[p] = i /\ new_node'[p] = n
  BY <1>1, <1>2 DEF IndInv, TypeOK
<1>8. Enqueuing'
  BY <1>1, <1>2, <1>4, <1>7 DEF OneProducer, Enqueuing
<1>9. Dequeuing'
  <2>1. consumer = "advance" => item'[front] = item[front]
    BY <1>1, <1>5, ChainFacts DEF IndInv, TypeOK
  <2>. QED
    BY <1>1, <1>2, <1>7, <2>1 DEF OneProducer, IndInv, Dequeuing, consuming
<1>. QED
  BY <1>3, <1>6, <1>8, <1>9 DEF IndInv

LEMMA WriteItemInd ==
    ASSUME OneProducer, IndInv, NEW p \in Producers, WriteItem(p)
    PROVE  IndInv'
<1>1. /\ producer[p] = "write" /\ producer' = [producer EXCEPT ![p] = "link"]
      /\ item' = [item EXCEPT ![back] = argument[p]]
      /\ UNCHANGED <<next, allocated, front, back, argument, new_node, consuming, chain>>
  BY DEF WriteItem
<1>2. TypeOK'
  BY <1>1 DEF IndInv, TypeOK, ProducerPc, ConsumerPc, consuming
<1>3. Linked'
  BY <1>1 DEF IndInv, Linked
<1>4. /\ item'[back] = argument[p]
      /\ producer'[p] = "link"
  BY <1>1 DEF IndInv, TypeOK
<1>5. Enqueuing'
  BY <1>1, <1>4 DEF OneProducer, IndInv, Enqueuing
<1>6. Dequeuing'
  <2>1. consumer = "advance" => front # back
    BY ChainFacts DEF IndInv, Linked, Dequeuing
  <2>2. consumer = "advance" => item'[front] = item[front]
    BY <1>1, <2>1 DEF IndInv, TypeOK
  <2>. QED
    BY <1>1, <2>2 DEF OneProducer, IndInv, Dequeuing, consuming
<1>. QED
  BY <1>2, <1>3, <1>5, <1>6 DEF IndInv

LEMMA LinkInd ==
    ASSUME OneProducer, IndInv, NEW p \in Producers, Link(p)
    PROVE  IndInv'
<1>1. /\ producer[p] = "link" /\ producer' = [producer EXCEPT ![p] = "publish"]
      /\ next' = [next EXCEPT ![back] = new_node[p]]
      /\ UNCHANGED <<item, allocated, front, back, argument, new_node, consuming, chain>>
  BY DEF Link
<1>2. TypeOK'
  BY <1>1 DEF IndInv, TypeOK, ProducerPc, ConsumerPc, consuming
<1>3. Linked'
  <2>1. \A k \in 1 .. Len(chain) - 1 : k \in 1 .. Len(chain) /\ k # Len(chain)
    BY ChainFacts
  <2>2. \A k \in 1 .. Len(chain) - 1 : chain[k] # back /\ chain[k] \in Nodes
    BY <2>1, ChainFacts DEF IndInv, Linked
  <2>3. \A k \in 1 .. Len(chain) - 1 : next'[chain[k]] = next[chain[k]]
    BY <1>1, <2>2 DEF IndInv, TypeOK
  <2>. QED
    BY <1>1, <2>3 DEF IndInv, Linked
<1>4. next'[back] = new_node[p] /\ producer'[p] = "publish"
  BY <1>1 DEF IndInv, TypeOK
<1>5. Enqueuing'
  BY <1>1, <1>4 DEF OneProducer, IndInv, Enqueuing
<1>6. Dequeuing'
  BY <1>1 DEF OneProducer, IndInv, Dequeuing, consuming
<1>. QED
  BY <1>2, <1>3, <1>5, <1>6 DEF IndInv

LEMMA PublishInd ==
    ASSUME OneProducer, IndInv, NEW p \in Producers, Publish(p)
    PROVE  IndInv'
<1>1. /\ producer[p] = "publish" /\ producer' = [producer EXCEPT ![p] = "idle"]
      /\ back' = new_node[p]
      /\ chain' = Append(chain, new_node[p])
      /\ UNCHANGED <<heap, front, argument, new_node, consuming>>
  BY DEF Publish
<1>2. /\ new_node[p] \in allocated /\ new_node[p] \in Nodes
      /\ \A k \in 1 .. Len(chain) : chain[k] # new_node[p]
      /\ next[back] = new_node[p]
  BY <1>1 DEF IndInv, TypeOK, Enqueuing
<1>3. chain \in Seq(Nodes)
  BY DEF IndInv, TypeOK
<1>4. /\ chain' \in Seq(Nodes)
      /\ Len(chain') = Len(chain) + 1
      /\ \A k \in 1 .. Len(chain) : chain'[k] = chain[k]
      /\ chain'[Len(chain) + 1] = new_node[p]
  BY <1>1, <1>2, <1>3, AppendProperties
<1>5. \A k \in 1 .. Len(chain') : k \in 1 .. Len(chain) \/ k = Len(chain) + 1
  BY <1>4, ChainFacts
<1>6. \A k \in 1 .. Len(chain) - 1 : k \in 1 .. Len(chain) /\ k + 1 \in 1 .. Len(chain)
  BY ChainFacts
<1>7. \A k \in 1 .. Len(chain') - 1 : k \in 1 .. Len(chain) - 1 \/ k = Len(chain)
  BY <1>4, ChainFacts
<1>8. TypeOK'
  BY <1>1, <1>2, <1>4 DEF IndInv, TypeOK, ProducerPc, ConsumerPc, heap, consuming
<1>9. Linked'
  <2>1. Len(chain') >= 1 /\ chain'[1] = front' /\ chain'[Len(chain')] = back'
    BY <1>1, <1>4, ChainFacts DEF IndInv, Linked
  <2>2. \A k \in 1 .. Len(chain') : chain'[k] \in allocated'
    BY <1>1, <1>2, <1>4, <1>5 DEF IndInv, Linked, heap
  <2>3. \A k \in 1 .. Len(chain') - 1 : next'[chain'[k]] = chain'[k + 1]
    <3>. SUFFICES ASSUME NEW k \in 1 .. Len(chain') - 1
                  PROVE  next[chain'[k]] = chain'[k + 1]
      BY <1>1 DEF heap
    <3>1. CASE k \in 1 .. Len(chain) - 1
      <4>1. chain'[k] = chain[k] /\ chain'[k + 1] = chain[k + 1]
        BY <1>4, <1>6, <3>1
      <4>2. next[chain[k]] = chain[k + 1]
        BY <3>1 DEF IndInv, Linked
      <4>. QED
        BY <4>1, <4>2
    <3>2. CASE k = Len(chain)
      <4>1. chain'[k] = back
        BY <1>4, <3>2, ChainFacts DEF IndInv, Linked
      <4>. QED
        BY <1>2, <1>4, <3>2, <4>1
    <3>. QED
      BY <1>7, <3>1, <3>2
  <2>4. \A j, k \in 1 .. Len(chain') : chain'[j] = chain'[k] => j = k
    <3>. SUFFICES ASSUME NEW j \in 1 .. Len(chain'), NEW k \in 1 .. Len(chain'),
                         chain'[j] = chain'[k]
                  PROVE  j = k
      OBVIOUS
    <3>1. CASE j \in 1 .. Len(chain) /\ k \in 1 .. Len(chain)
      BY <1>4, <3>1 DEF IndInv, Linked
    <3>2. CASE j = Len(chain) + 1 \/ k = Len(chain) + 1
      BY <1>2, <1>4, <1>5, <3>2
    <3>. QED
      BY <1>5, <3>1, <3>2
  <2>. QED
    BY <2>1, <2>2, <2>3, <2>4 DEF Linked
<1>10. producer'[p] = "idle"
  BY <1>1 DEF IndInv, TypeOK
<1>11. Enqueuing'
  BY <1>10 DEF OneProducer, Enqueuing
<1>12. Dequeuing'
  <2>1. consumer \in {"read", "advance"} => Len(chain') >= 2
    BY <1>4, ChainFacts
  <2>2. consumer = "delete" => \A k \in 1 .. Len(chain') : chain'[k] # item_to_delete
    BY <1>1, <1>4, <1>5 DEF IndInv, Dequeuing
  <2>3. \A q \in Producers : producer'[q] = "idle"
    BY <1>10 DEF OneProducer
  <2>. QED
    BY <1>1, <2>1, <2>2, <2>3 DEF IndInv, Dequeuing, heap, consuming
<1>. QED
  BY <1>8, <1>9, <1>11, <1>12 DEF IndInv

LEMMA BeginDequeueInd == ASSUME IndInv, BeginDequeue PROVE IndInv'
<1>1. /\ consumer = "idle" /\ consumer' = "read" /\ front # back
      /\ UNCHANGED <<heap, front, back, producing, taken, item_to_delete, chain>>
  BY DEF BeginDequeue, empty
<1>2. Len(chain) >= 2
  BY <1>1, ChainFacts DEF IndInv, Linked
<1>. QED
  BY <1>1, <1>2 DEF IndInv, TypeOK, ConsumerPc, Linked, Enqueuing, Dequeuing, heap, producing

LEMMA ReadItemInd == ASSUME IndInv, ReadItem PROVE IndInv'
<1>1. /\ consumer = "read" /\ consumer' = "advance" /\ taken' = item[front]
      /\ UNCHANGED <<heap, front, back, producing, item_to_delete, chain>>
  BY DEF ReadItem
<1>2. taken' \in Items \cup {NoItem}
  BY <1>1 DEF IndInv, TypeOK
<1>. QED
  BY <1>1, <1>2 DEF IndInv, TypeOK, ConsumerPc, Linked, Enqueuing, Dequeuing, heap, producing

LEMMA AdvanceInd == ASSUME IndInv, Advance PROVE IndInv'
<1>1. /\ consumer = "advance" /\ consumer' = "delete"
      /\ item_to_delete' = front /\ front' = next[front]
      /\ chain' = Tail(chain)
      /\ UNCHANGED <<heap, back, producing, taken>>
  BY DEF Advance
<1>2. Len(chain) >= 2 /\ Len(chain) \in Nat /\ chain \in Seq(Nodes) /\ chain # << >>
  BY <1>1, ChainFacts DEF IndInv, TypeOK, Dequeuing
<1>3. /\ chain' \in Seq(Nodes)
      /\ Len(chain') = Len(chain) - 1
      /\ \A k \in 1 .. Len(chain') : chain'[k] = chain[k + 1]
  BY <1>1, <1>2, HeadTailProperties
<1>4. \A k \in 1 .. Len(chain') : k + 1 \in 1 .. Len(chain) /\ k + 1 # 1
  BY <1>2, <1>3
<1>5. front' = chain[2] /\ front' \in Nodes
  <2>1. 1 \in 1 .. Len(chain) - 1 /\ 2 \in 1 .. Len(chain)
    BY <1>2
  <2>2. next[chain[1]] = chain[1 + 1]
    BY <2>1 DEF IndInv, Linked
  <2>. QED
    BY <1>1, <2>1, <2>2, ChainFacts DEF IndInv, Linked
<1>6. TypeOK'
  BY <1>1, <1>3, <1>5 DEF IndInv, TypeOK, ConsumerPc, heap, producing
<1>7. Linked'
  <2>1. Len(chain') >= 1 /\ chain'[1] = front'
    BY <1>2, <1>3, <1>5
  <2>2. chain'[Len(chain')] = back'
    BY <1>1, <1>2, <1>3 DEF IndInv, Linked
  <2>3. \A k \in 1 .. Len(chain') : chain'[k] \in allocated'
    BY <1>1, <1>3, <1>4 DEF IndInv, Linked, heap
  <2>4. \A k \in 1 .. Len(chain') - 1 : next'[chain'[k]] = chain'[k + 1]
    <3>. SUFFICES ASSUME NEW k \in 1 .. Len(chain') - 1
                  PROVE  next[chain'[k]] = chain'[k + 1]
      BY <1>1 DEF heap
    <3>1. k \in 1 .. Len(chain') /\ k + 1 \in 1 .. Len(chain') /\ k + 1 \in 1 .. Len(chain) - 1
      BY <1>2, <1>3
    <3>2. chain'[k] = chain[k + 1] /\ chain'[k + 1] = chain[(k + 1) + 1]
      BY <1>3, <3>1
    <3>. QED
      BY <3>1, <3>2 DEF IndInv, Linked
  <2>5. \A j, k \in 1 .. Len(chain') : chain'[j] = chain'[k] => j = k
    <3>. SUFFICES ASSUME NEW j \in 1 .. Len(chain'), NEW k \in 1 .. Len(chain'),
                         chain'[j] = chain'[k]
                  PROVE  j = k
      OBVIOUS
    <3>1. chain[j + 1] = chain[k + 1] /\ j + 1 \in 1 .. Len(chain) /\ k + 1 \in 1 .. Len(chain)
      BY <1>3, <1>4
    <3>2. j + 1 = k + 1
      BY <3>1 DEF IndInv, Linked
    <3>. QED
      BY <3>2
  <2>. QED
    BY <2>1, <2>2, <2>3, <2>4, <2>5 DEF Linked
<1>8. \A p \in Producers : producer[p] # "idle" =>
         /\ \A k \in 1 .. Len(chain') : chain'[k] # new_node[p]
         /\ new_node[p] # front
  BY <1>3, <1>4, ChainFacts DEF IndInv, Linked, Enqueuing
<1>9. Enqueuing'
  BY <1>1, <1>8 DEF IndInv, Enqueuing, heap, producing
<1>10. Dequeuing'
  <2>1. \A k \in 1 .. Len(chain') : chain'[k] # front
    BY <1>3, <1>4, ChainFacts DEF IndInv, Linked
  <2>2. front \in allocated
    BY ChainFacts
  <2>. QED
    BY <1>1, <1>8, <2>1, <2>2 DEF Dequeuing, heap, producing
<1>. QED
  BY <1>6, <1>7, <1>9, <1>10 DEF IndInv

LEMMA DeleteInd == ASSUME IndInv, Delete PROVE IndInv'
<1>1. /\ consumer = "delete" /\ consumer' = "idle"
      /\ allocated' = allocated \ {item_to_delete}
      /\ UNCHANGED <<item, next, front, back, producing, taken, item_to_delete, chain>>
  BY DEF Delete
<1>2. TypeOK'
  BY <1>1 DEF IndInv, TypeOK, ConsumerPc, producing
<1>3. Linked'
  BY <1>1 DEF IndInv, Linked, Dequeuing
<1>4. Enqueuing'
  BY <1>1 DEF IndInv, Enqueuing, Dequeuing, producing
<1>5. Dequeuing'
  BY <1>1 DEF Dequeuing
<1>. QED
  BY <1>2, <1>3, <1>4, <1>5 DEF IndInv

LEMMA StepInd == OneProducer /\ IndInv /\ [Next]_vars => IndInv'
<1>. SUFFICES ASSUME OneProducer, IndInv, [Next]_vars PROVE IndInv'
  OBVIOUS
<1>1. CASE UNCHANGED vars
  BY <1>1 DEF vars, heap, producing, consuming, IndInv, TypeOK, Linked, Enqueuing, Dequeuing
<1>2. CASE Next
  BY <1>2, AllocateInd, WriteItemInd, LinkInd, PublishInd,
     BeginDequeueInd, ReadItemInd, AdvanceInd, DeleteInd
     DEF Next, Produce, Consume
<1>. QED
  BY <1>1, <1>2

LEMMA Invariance == ASSUME OneProducer PROVE Spec => []IndInv
<1>1. IndInv /\ [Next]_vars => IndInv'
  BY StepInd
<1>. QED
  BY InitInd, <1>1, PTL DEF Spec

(* With one producer and one consumer no node is read, written or deleted  *)
(* after its deletion, wherever the two threads are in enqueue and dequeue *)
(* (concurrent_queue.h:57).                                                *)
THEOREM NoNodeUsedAfterDelete == ASSUME OneProducer PROVE Spec => []NoUseAfterDelete
<1>1. IndInv => NoUseAfterDelete
  BY ChainFacts DEF NoUseAfterDelete, Dereferenced, IndInv, Enqueuing, Dequeuing
<1>. QED
  BY <1>1, Invariance, PTL

-----------------------------------------------------------------------------
(* What the two threads do to the queue their callers see.                 *)

Held == Items \cup {NoItem}

LEMMA ContentsFacts ==
    ASSUME IndInv
    PROVE  /\ Contents \in Seq(Held)
           /\ Len(Contents) = Len(chain) - 1
           /\ \A k \in 1 .. Len(chain) - 1 : Contents[k] = item[chain[k]]
<1>1. Len(chain) - 1 \in Nat /\ \A k \in 1 .. Len(chain) - 1 : k \in 1 .. Len(chain)
  BY ChainFacts
<1>2. \A k \in 1 .. Len(chain) - 1 : item[chain[k]] \in Held
  BY <1>1, ChainFacts DEF IndInv, TypeOK, Held
<1>3. Contents \in [1 .. Len(chain) - 1 -> Held]
  BY <1>2 DEF Contents
<1>4. Contents \in Seq(Held)
  BY <1>1, <1>3, SeqDef
<1>5. Len(Contents) = Len(chain) - 1
  BY <1>1, <1>3, <1>4, LenProperties
<1>. QED
  BY <1>4, <1>5 DEF Contents

(* A step that leaves the chain and the items in it alone is not seen. *)
LEMMA SameContents ==
    ASSUME chain' = chain, \A k \in 1 .. Len(chain) - 1 : item'[chain[k]] = item[chain[k]]
    PROVE  Contents' = Contents
BY DEF Contents

LEMMA ProduceMaps ==
    ASSUME IndInv, NEW p \in Producers, Produce(p)
    PROVE  [Abstract!Next]_(Abstract!vars)
<1>1. \A k \in 1 .. Len(chain) - 1 : k \in 1 .. Len(chain) /\ k # Len(chain)
  BY ChainFacts
<1>2. CASE \E i \in Items : Allocate(p, i)
  <2>1. PICK n \in Nodes \ allocated : item' = [item EXCEPT ![n] = NoItem]
    BY <1>2 DEF Allocate
  <2>2. chain' = chain /\ consumer' = consumer /\ taken' = taken
    BY <1>2 DEF Allocate, consuming
  <2>3. \A k \in 1 .. Len(chain) - 1 : item'[chain[k]] = item[chain[k]]
    BY <1>1, <2>1, ChainFacts DEF IndInv, TypeOK, Linked
  <2>. QED
    BY <2>2, <2>3, SameContents DEF queue, Abstract!vars
<1>3. CASE WriteItem(p)
  <2>1. /\ item' = [item EXCEPT ![back] = argument[p]]
        /\ chain' = chain /\ consumer' = consumer /\ taken' = taken
    BY <1>3 DEF WriteItem, consuming
  <2>2. \A k \in 1 .. Len(chain) - 1 : chain[k] # back
    BY <1>1, ChainFacts DEF IndInv, Linked
  <2>3. \A k \in 1 .. Len(chain) - 1 : item'[chain[k]] = item[chain[k]]
    BY <1>1, <2>1, <2>2, ChainFacts DEF IndInv, TypeOK
  <2>. QED
    BY <2>1, <2>3, SameContents DEF queue, Abstract!vars
<1>4. CASE Link(p)
  <2>1. item' = item /\ chain' = chain /\ consumer' = consumer /\ taken' = taken
    BY <1>4 DEF Link, consuming
  <2>. QED
    BY <2>1, SameContents DEF queue, Abstract!vars
<1>5. CASE Publish(p)
  <2>1. /\ producer[p] = "publish" /\ chain' = Append(chain, new_node[p])
        /\ item' = item /\ consumer' = consumer /\ taken' = taken
    BY <1>5 DEF Publish, heap, consuming
  <2>2. /\ new_node[p] \in Nodes /\ argument[p] \in Items /\ item[back] = argument[p]
        /\ chain \in Seq(Nodes)
    BY <2>1 DEF IndInv, TypeOK, Enqueuing
  <2>3. /\ Len(chain') = Len(chain) + 1
        /\ \A k \in 1 .. Len(chain) : chain'[k] = chain[k]
    BY <2>1, <2>2, AppendProperties
  <2>4. /\ Contents \in Seq(Held) /\ Len(Contents) = Len(chain) - 1
        /\ \A k \in 1 .. Len(chain) - 1 : Contents[k] = item[chain[k]]
    BY ContentsFacts
  <2>5. argument[p] \in Held
    BY <2>2 DEF Held
  <2>6. /\ Append(Contents, argument[p]) \in Seq(Held)
        /\ Len(Append(Contents, argument[p])) = Len(chain)
        /\ \A k \in 1 .. Len(chain) - 1 : Append(Contents, argument[p])[k] = item[chain[k]]
        /\ Append(Contents, argument[p])[Len(chain)] = argument[p]
    <3>1. Len(Contents) + 1 = Len(chain)
      BY <2>4, ChainFacts
    <3>. QED
      BY <2>4, <2>5, <3>1, AppendProperties
  <2>7. Contents' = [k \in 1 .. Len(chain) |-> item[chain[k]]]
    <3>1. Len(chain') - 1 = Len(chain)
      BY <2>3, ChainFacts
    <3>2. Contents' = [k \in 1 .. Len(chain') - 1 |-> item[chain'[k]]]
      BY <2>1 DEF Contents
    <3>. QED
      BY <2>3, <3>1, <3>2
  <2>8. \A k \in 1 .. Len(chain) : item[chain[k]] = Append(Contents, argument[p])[k]
    <3>1. \A k \in 1 .. Len(chain) : k \in 1 .. Len(chain) - 1 \/ k = Len(chain)
      BY ChainFacts
    <3>2. item[chain[Len(chain)]] = argument[p]
      BY <2>2 DEF IndInv, Linked
    <3>. QED
      BY <2>6, <3>1, <3>2
  <2>9. Contents' = Append(Contents, argument[p])
    <3>1. DOMAIN Append(Contents, argument[p]) = 1 .. Len(chain)
      BY <2>6, LenProperties
    <3>2. Append(Contents, argument[p])
             = [k \in 1 .. Len(chain) |-> Append(Contents, argument[p])[k]]
      BY <2>6, <3>1, LenProperties
    <3>. QED
      BY <2>7, <2>8, <3>2
  <2>10. queue' = Append(queue, argument[p])
    <3>1. CASE consumer = "advance"
      <4>1. Contents # << >>
        BY <2>4, <3>1, ChainFacts DEF IndInv, Dequeuing
      <4>2. Tail(Append(Contents, argument[p])) = Append(Tail(Contents), argument[p])
        BY <2>4, <2>5, <4>1, HeadTailAppend
      <4>. QED
        BY <2>1, <2>9, <3>1, <4>2 DEF queue
    <3>2. CASE consumer # "advance"
      BY <2>1, <2>9, <3>2 DEF queue
    <3>. QED
      BY <3>1, <3>2
  <2>11. Abstract!Enqueue(argument[p])
    BY <2>1, <2>10 DEF Abstract!Enqueue
  <2>. QED
    BY <2>2, <2>11 DEF Abstract!Next
<1>. QED
  BY <1>2, <1>3, <1>4, <1>5 DEF Produce

LEMMA ConsumeMaps ==
    ASSUME IndInv, Consume
    PROVE  [Abstract!Next]_(Abstract!vars)
<1>1. /\ Contents \in Seq(Held) /\ Len(Contents) = Len(chain) - 1
      /\ \A k \in 1 .. Len(chain) - 1 : Contents[k] = item[chain[k]]
  BY ContentsFacts
<1>2. CASE BeginDequeue \/ Delete
  <2>1. /\ item' = item /\ chain' = chain /\ taken' = taken
        /\ consumer # "advance" /\ consumer' # "advance"
    BY <1>2 DEF BeginDequeue, Delete, heap
  <2>. QED
    BY <2>1, SameContents DEF queue, Abstract!vars
<1>3. CASE ReadItem
  <2>1. /\ item' = item /\ chain' = chain /\ taken' = item[front]
        /\ consumer = "read" /\ consumer' = "advance"
    BY <1>3 DEF ReadItem, heap
  <2>2. Contents' = Contents
    BY <2>1, SameContents
  <2>3. Len(chain) >= 2
    BY <2>1 DEF IndInv, Dequeuing
  <2>4. 1 \in 1 .. Len(chain) - 1 /\ Contents # << >>
    BY <1>1, <2>3, ChainFacts
  <2>5. Head(Contents) = Contents[1] /\ Contents[1] = item[front]
    BY <1>1, <2>4 DEF IndInv, Linked
  <2>6. Abstract!Dequeue
    BY <2>1, <2>2, <2>4, <2>5 DEF queue, Abstract!Dequeue
  <2>. QED
    BY <2>6 DEF Abstract!Next
<1>4. CASE Advance
  <2>1. /\ item' = item /\ chain' = Tail(chain) /\ taken' = taken
        /\ consumer = "advance" /\ consumer' = "delete"
    BY <1>4 DEF Advance, heap
  <2>2. Len(chain) >= 2 /\ Len(chain) \in Nat /\ chain \in Seq(Nodes) /\ chain # << >>
    BY <2>1, ChainFacts DEF IndInv, TypeOK, Dequeuing
  <2>3. /\ Len(chain') = Len(chain) - 1
        /\ \A k \in 1 .. Len(chain') : chain'[k] = chain[k + 1]
    BY <2>1, <2>2, HeadTailProperties
  <2>4. Contents # << >>
    BY <1>1, <2>2
  <2>5. /\ Tail(Contents) \in Seq(Held)
        /\ Len(Tail(Contents)) = Len(chain) - 2
        /\ \A k \in 1 .. Len(chain) - 2 : Tail(Contents)[k] = Contents[k + 1]
    <3>1. Len(Contents) - 1 = Len(chain) - 2
      BY <1>1, <2>2
    <3>. QED
      BY <1>1, <2>4, <3>1, HeadTailProperties
  <2>6. \A k \in 1 .. Len(chain) - 2 : Tail(Contents)[k] = item[chain'[k]]
    <3>. SUFFICES ASSUME NEW k \in 1 .. Len(chain) - 2
                  PROVE  Tail(Contents)[k] = item[chain'[k]]
      OBVIOUS
    <3>1. k + 1 \in 1 .. Len(chain) - 1 /\ k \in 1 .. Len(chain')
      BY <2>2, <2>3
    <3>. QED
      BY <1>1, <2>3, <2>5, <3>1
  <2>7. Contents' = [k \in 1 .. Len(chain) - 2 |-> item[chain'[k]]]
    <3>1. Len(chain') - 1 = Len(chain) - 2
      BY <2>2, <2>3
    <3>2. Contents' = [k \in 1 .. Len(chain') - 1 |-> item[chain'[k]]]
      BY <2>1 DEF Contents
    <3>. QED
      BY <3>1, <3>2
  <2>8. Contents' = Tail(Contents)
    <3>1. Tail(Contents) = [k \in 1 .. Len(chain) - 2 |-> Tail(Contents)[k]]
      BY <2>5, LenProperties
    <3>. QED
      BY <2>6, <2>7, <3>1
  <2>. QED
    BY <2>1, <2>8 DEF queue, Abstract!vars
<1>. QED
  BY <1>2, <1>3, <1>4 DEF Consume

LEMMA InitMaps == Init => Abstract!Init
<1>. SUFFICES ASSUME Init PROVE Abstract!Init
  OBVIOUS
<1>1. Len(chain) = 1 /\ consumer # "advance" /\ taken = NoItem
  BY DEF Init
<1>2. Contents \in Seq(Held) /\ Len(Contents) = 0
  BY <1>1, InitInd, ContentsFacts
<1>3. Contents = << >>
  BY <1>2, EmptySeq
<1>. QED
  BY <1>1, <1>3 DEF queue, Abstract!Init

LEMMA StepMaps == IndInv /\ [Next]_vars => [Abstract!Next]_(Abstract!vars)
<1>1. ASSUME UNCHANGED vars PROVE UNCHANGED Abstract!vars
  <2>1. chain' = chain /\ item' = item /\ consumer' = consumer /\ taken' = taken
    BY <1>1 DEF vars, heap, consuming
  <2>. QED
    BY <2>1, SameContents DEF queue, Abstract!vars
<1>. QED
  BY <1>1, ProduceMaps, ConsumeMaps DEF Next

(* One producer and one consumer at the same time make a first-in          *)
(* first-out queue of the list: an enqueue takes effect when back moves, a *)
(* dequeue when the item is copied out (concurrent_queue.h:57).            *)
THEOREM QueueImplementsFifo == ASSUME OneProducer PROVE Spec => ImplementsFifo
<1>1. Spec => []IndInv
  BY Invariance
<1>. QED
  BY <1>1, InitMaps, StepMaps, PTL DEF Spec, ImplementsFifo, Abstract!Spec
=============================================================================
