----------------------------- MODULE OutboxProofs -----------------------------
(* Outbox!IndInv is inductive: however many messages the threads send, the *)
(* main thread and the worker use no deleted queue.                        *)
EXTENDS Outbox, SequenceTheorems, TLAPS

(* Before the first connection nothing was allocated and nobody runs.     *)
LEMMA InitInv == Init => IndInv
<1>. SUFFICES ASSUME Init PROVE IndInv
  OBVIOUS
<1>. USE DEF Init, Threads, Queues, Null, ClearLabels
<1>1. Typed
  <2>1. /\ pc \in [Threads -> SendLabels \cup WriteLabels \cup ClearLabels]
        /\ pointer \in [Threads -> Nat]
    BY DEF SendLabels
  <2>2. queue \in [Queues -> Nat] /\ next_address \in Nat \ {0}
    OBVIOUS
  <2>3. \A q \in Queues : queue[q] < next_address
    OBVIOUS
  <2>. QED
    BY <2>1, <2>2, <2>3 DEF Typed
<1>2. Phases
  BY DEF Phases
<1>3. Pointers
  BY DEF Pointers
<1>. QED
  BY <1>1, <1>2, <1>3 DEF IndInv, OnlySlowUsesDeleted

(* A new queue is at an address that no queue, living or deleted, has.     *)
LEMMA NewAddress ==
    ASSUME Typed
    PROVE  /\ next_address # Null /\ next_address \notin deleted
           /\ \A q \in Queues : queue[q] # next_address
BY DEF Typed, Null

(* Allocating a queue keeps every address below the next one.             *)
LEMMA AllocateTyped ==
    ASSUME Typed, NEW t \in Threads, Allocate(t)
    PROVE  Typed'
<1>1. next_address' = next_address + 1 /\ deleted' = deleted
  BY DEF Allocate
<1>2. queue' = [queue EXCEPT ![QueueOf(t)] = next_address]
  BY DEF Allocate
<1>3. /\ pc' = [pc EXCEPT ![t] = "test queue again"]
      /\ pointer' = pointer
      /\ wsi' = wsi /\ chatclients' = chatclients /\ close_task' = close_task
  BY DEF Allocate, client_vars, Goto
<1>4. /\ next_address \in Nat
      /\ \A q \in Queues : queue[q] \in Nat /\ queue[q] < next_address
      /\ \A a \in deleted : a \in Nat /\ a < next_address
  BY DEF Typed
<1>5. pc' \in [Threads -> SendLabels \cup WriteLabels \cup ClearLabels]
  BY <1>3 DEF Typed, SendLabels
<1>6. queue' \in [Queues -> Nat]
  BY <1>2 DEF Typed
<1>7. ASSUME NEW q \in Queues PROVE queue'[q] < next_address'
  <2>1. queue'[q] = next_address \/ queue'[q] = queue[q]
    BY <1>2 DEF Typed
  <2>. QED
    BY <1>1, <1>4, <2>1
<1>8. ASSUME NEW a \in deleted' PROVE a < next_address'
  BY <1>1, <1>4
<1>9. next_address' \in Nat \ {0} /\ deleted' \subseteq Nat \ {Null}
  <2>1. next_address' \in Nat \ {0}
    BY <1>1, <1>4
  <2>. QED
    BY <1>1, <2>1 DEF Typed
<1>. QED
  BY <1>3, <1>5, <1>6, <1>7, <1>8, <1>9 DEF Typed

(* So does setting a pointer to null.                                     *)
LEMMA ForgetTyped ==
    ASSUME Typed, NEW q \in Queues, NEW here, NEW next \in ClearLabels \cup {"idle"}, ForgetQueue(q, here, next)
    PROVE  Typed'
<1>1. /\ queue' = [queue EXCEPT ![q] = Null]
      /\ next_address' = next_address
      /\ pc' = [pc EXCEPT !["worker"] = next]
      /\ deleted' = deleted /\ pointer' = pointer
      /\ wsi' = wsi /\ chatclients' = chatclients /\ close_task' = close_task
  BY DEF ForgetQueue, client_vars, memory_vars, Goto
<1>2. pc' \in [Threads -> SendLabels \cup WriteLabels \cup ClearLabels]
  BY <1>1 DEF Typed, SendLabels
<1>3. queue' \in [Queues -> Nat]
  BY <1>1 DEF Typed, Null
<1>4. \A p \in Queues : queue'[p] < next_address'
  BY <1>1 DEF Typed, Null
<1>. QED
  BY <1>1, <1>2, <1>3, <1>4 DEF Typed

(* The steps of a thread that sends; only the worker deletes, and the      *)
(* worker does not while it sends.                                         *)
LEMMA SendStepInv ==
    ASSUME IndInv, NEW t \in Threads, SendStep(t)
    PROVE  IndInv'
<1>. USE DEF Threads, Queues, QueueOf, Goto, At, SendLabels, WriteLabels, ClearLabels,
             client_vars, main_vars, memory_vars, send_vars, Null
<1>1. CASE TestWsi(t)
  BY <1>1 DEF IndInv, Typed, Phases, Pointers, OnlySlowUsesDeleted, TestWsi
<1>2. CASE TestQueue(t)
  BY <1>2 DEF IndInv, Typed, Phases, Pointers, OnlySlowUsesDeleted, TestQueue
<1>3. CASE Allocate(t)
  <2>1. Typed'
    BY <1>3, AllocateTyped DEF IndInv
  <2>2. Phases'
    BY <1>3 DEF IndInv, Typed, Phases, Allocate
  <2>3. Pointers'
    <3>1. /\ queue' = [queue EXCEPT ![QueueOf(t)] = next_address]
          /\ pc' = [pc EXCEPT ![t] = "test queue again"]
          /\ pc[t] = "allocate" /\ deleted' = deleted /\ pointer' = pointer
      BY <1>3 DEF Allocate
    <3>2. /\ next_address # Null /\ next_address \notin deleted
          /\ \A q \in Queues : queue[q] # next_address
      BY NewAddress DEF IndInv
    <3>3. \A s \in {"main", "worker"} : pc'[s] \notin {"get queue", "enqueue"} \/ pc'[s] = pc[s]
      BY <3>1 DEF IndInv, Typed
    <3>4. pc["worker"] = "forget slow" => pc'["worker"] = "forget slow"
      BY <3>1 DEF IndInv, Typed
    <3>5. \/ queue'["fast"] = queue["fast"] /\ queue'["slow"] = next_address
          \/ queue'["fast"] = next_address /\ queue'["slow"] = queue["slow"]
      BY <3>1 DEF IndInv, Typed
    <3>6. deleted' = deleted /\ pointer' = pointer
      BY <3>1
    <3>7. queue'["fast"] # Null => queue'["fast"] # queue'["slow"]
      BY <3>2, <3>5 DEF IndInv, Pointers
    <3>8. queue'["slow"] \in deleted' => pc'["worker"] = "forget slow"
      BY <3>2, <3>4, <3>5, <3>6 DEF IndInv, Pointers
    <3>9. ASSUME NEW s \in {"main", "worker"}
          PROVE  /\ pc'[s] = "get queue" => queue'["fast"] # Null
                 /\ pc'[s] = "enqueue" => pointer'[s] # Null
      BY <3>2, <3>3, <3>5, <3>6 DEF IndInv, Pointers
    <3>. QED
      BY <3>7, <3>8, <3>9 DEF Pointers
  <2>4. OnlySlowUsesDeleted'
    BY <1>3 DEF IndInv, OnlySlowUsesDeleted, Allocate
  <2>. QED
    BY <2>1, <2>2, <2>3, <2>4 DEF IndInv
<1>4. CASE TestQueueAgain(t)
  BY <1>4 DEF IndInv, Typed, Phases, Pointers, OnlySlowUsesDeleted, TestQueueAgain
<1>5. CASE GetQueue(t)
  BY <1>5 DEF IndInv, Typed, Phases, Pointers, OnlySlowUsesDeleted, GetQueue
<1>6. CASE Enqueue(t)
  BY <1>6 DEF IndInv, Typed, Phases, Pointers, OnlySlowUsesDeleted, Enqueue, Use, Valid
<1>7. CASE TestWsiAgain(t)
  BY <1>7 DEF IndInv, Typed, Phases, Pointers, OnlySlowUsesDeleted, TestWsiAgain
<1>8. CASE Request(t)
  BY <1>8 DEF IndInv, Typed, Phases, Pointers, OnlySlowUsesDeleted, Request
<1>. QED
  BY <1>1, <1>2, <1>3, <1>4, <1>5, <1>6, <1>7, <1>8 DEF SendStep

(* The callbacks of the main thread: while they run nothing is deleted.    *)
LEMMA MainInv ==
    ASSUME IndInv, Established \/ Closed \/ Writeable \/ GetSlow \/ NoMessageLeft \/ Write \/ More
    PROVE  IndInv'
<1>. USE DEF Threads, Queues, Goto, At, SendLabels, WriteLabels, ClearLabels,
             client_vars, main_vars, memory_vars, send_vars, Null
<1>1. CASE Established
  <2>1. Typed'
    BY <1>1 DEF IndInv, Typed, Established, BeginSend
  <2>2. Phases'
    <3>1. /\ wsi = "none" /\ wsi' = "open" /\ chatclients' /\ ~close_task'
          /\ pc["worker"] = "idle" /\ deleted' = {}
      BY <1>1 DEF IndInv, Typed, Phases, Established, BeginSend
    <3>2. pc'["worker"] = "idle"
      BY <1>1, <3>1 DEF IndInv, Typed, Established, BeginSend
    <3>. QED
      BY <3>1, <3>2 DEF IndInv, Phases
  <2>3. Pointers'
    BY <1>1 DEF IndInv, Typed, Phases, Pointers, Established, BeginSend
  <2>4. OnlySlowUsesDeleted'
    BY <1>1 DEF IndInv, Typed, Phases, OnlySlowUsesDeleted, Established, BeginSend
  <2>. QED
    BY <2>1, <2>2, <2>3, <2>4 DEF IndInv
<1>2. CASE Closed
  BY <1>2 DEF IndInv, Typed, Phases, Pointers, OnlySlowUsesDeleted, Closed, Close
<1>3. CASE Writeable
  <2>1. Typed'
    BY <1>3 DEF IndInv, Typed, Writeable, TakeFromQueue, Use, Valid
  <2>2. Phases'
    BY <1>3 DEF IndInv, Typed, Phases, Writeable, TakeFromQueue, Use, Valid
  <2>3. Pointers'
    BY <1>3 DEF IndInv, Typed, Phases, Pointers, Writeable, TakeFromQueue, Use, Valid
  <2>4. OnlySlowUsesDeleted'
    BY <1>3 DEF IndInv, Typed, Phases, OnlySlowUsesDeleted, Writeable, TakeFromQueue, Use, Valid
  <2>. QED
    BY <2>1, <2>2, <2>3, <2>4 DEF IndInv
<1>4. CASE GetSlow
  BY <1>4 DEF IndInv, Typed, Phases, Pointers, OnlySlowUsesDeleted, GetSlow, TakeFromQueue, Use, Valid
<1>5. CASE NoMessageLeft
  BY <1>5 DEF IndInv, Typed, Phases, Pointers, OnlySlowUsesDeleted, NoMessageLeft, Close
<1>6. CASE Write
  BY <1>6 DEF IndInv, Typed, Phases, Pointers, OnlySlowUsesDeleted, Write
<1>7. CASE More
  BY <1>7 DEF IndInv, Typed, Phases, Pointers, OnlySlowUsesDeleted, More
<1>. QED
  BY <1>1, <1>2, <1>3, <1>4, <1>5, <1>6, <1>7

(* What the worker and the slow thread begin, and the close.  The two      *)
(* queues are different, and each is deleted once.                         *)
LEMMA WorkerInv ==
    ASSUME IndInv, WorkerSends \/ SlowSends \/ Disconnect \/ CloseConnection \/ Clear
    PROVE  IndInv'
<1>. USE DEF Threads, Queues, Goto, At, SendLabels, WriteLabels, ClearLabels,
             client_vars, main_vars, memory_vars, send_vars, Null
<1>1. CASE WorkerSends
  BY <1>1 DEF IndInv, Typed, Phases, Pointers, OnlySlowUsesDeleted, WorkerSends, BeginSend
<1>2. CASE SlowSends
  BY <1>2 DEF IndInv, Typed, Phases, Pointers, OnlySlowUsesDeleted, SlowSends, BeginSend
<1>3. CASE Disconnect
  BY <1>3 DEF IndInv, Typed, Phases, Pointers, OnlySlowUsesDeleted, Disconnect
<1>4. CASE CloseConnection
  BY <1>4 DEF IndInv, Typed, Phases, Pointers, OnlySlowUsesDeleted, CloseConnection
<1>5. CASE ClearMessages("fast", "clear fast", "forget fast")
  BY <1>5 DEF IndInv, Typed, Phases, Pointers, OnlySlowUsesDeleted, ClearMessages, Use, Valid
<1>6. CASE ForgetQueue("fast", "forget fast", "clear slow")
  <2>1. Typed'
    BY <1>6, ForgetTyped DEF IndInv
  <2>2. Phases'
    BY <1>6 DEF IndInv, Typed, Phases, ForgetQueue
  <2>3. Pointers'
    BY <1>6 DEF IndInv, Typed, Phases, Pointers, ForgetQueue
  <2>4. OnlySlowUsesDeleted'
    BY <1>6 DEF IndInv, OnlySlowUsesDeleted, ForgetQueue
  <2>. QED
    BY <2>1, <2>2, <2>3, <2>4 DEF IndInv
<1>7. CASE ClearMessages("slow", "clear slow", "forget slow")
  BY <1>7 DEF IndInv, Typed, Phases, Pointers, OnlySlowUsesDeleted, ClearMessages, Use, Valid
<1>8. CASE ForgetQueue("slow", "forget slow", "idle")
  <2>1. Typed'
    BY <1>8, ForgetTyped DEF IndInv
  <2>2. Phases'
    BY <1>8 DEF IndInv, Typed, Phases, ForgetQueue
  <2>3. Pointers'
    BY <1>8 DEF IndInv, Typed, Phases, Pointers, ForgetQueue
  <2>4. OnlySlowUsesDeleted'
    BY <1>8 DEF IndInv, OnlySlowUsesDeleted, ForgetQueue
  <2>. QED
    BY <2>1, <2>2, <2>3, <2>4 DEF IndInv
<1>. QED
  BY <1>1, <1>2, <1>3, <1>4, <1>5, <1>6, <1>7, <1>8 DEF Clear

(* Every step keeps the invariant.                                         *)
LEMMA StepInv == IndInv /\ [Next]_vars => IndInv'
<1>. SUFFICES ASSUME IndInv, [Next]_vars PROVE IndInv'
  OBVIOUS
<1>1. CASE UNCHANGED vars
  BY <1>1 DEF IndInv, Typed, Phases, Pointers, OnlySlowUsesDeleted, vars, client_vars, main_vars, memory_vars, send_vars
<1>2. CASE \E t \in Threads : SendStep(t)
  BY <1>2, SendStepInv
<1>3. CASE Established \/ Closed \/ Writeable \/ GetSlow \/ NoMessageLeft \/ Write \/ More
  BY <1>3, MainInv
<1>4. CASE WorkerSends \/ SlowSends \/ Disconnect \/ CloseConnection \/ Clear
  BY <1>4, WorkerInv
<1>. QED
  BY <1>1, <1>2, <1>3, <1>4 DEF Next, MainStep, Threads

(* The main thread and the worker never use a queue that was deleted, for  *)
(* any numbers of messages of the worker and of the slow thread.           *)
THEOREM DeletedQueuesUnused == Spec => []OnlySlowUsesDeleted
<1>1. IndInv => OnlySlowUsesDeleted
  BY DEF IndInv
<1>. QED
  BY InitInv, StepInv, <1>1, PTL DEF Spec

-----------------------------------------------------------------------------
(* What the queues hold while the connection is open, and what was taken   *)
(* from them.                                                              *)

(* The number of the last message of t that is queued or further.          *)
Sending == {"test wsi", "test queue", "allocate", "test queue again", "get queue", "enqueue"}
LastQueued == [t \in Threads |-> IF pc[t] \in Sending THEN count[t] - 1 ELSE count[t]]

Counted ==
    /\ count \in [Threads -> Nat]
    /\ count["main"] = IF wsi = "none" THEN 0 ELSE 1
    /\ count["worker"] <= MaxWorker /\ count["slow"] <= MaxSlow
    /\ \A t \in Threads : pc[t] \in Sending => count[t] >= 1

(* There is an address for every queue: the slow thread allocates one for  *)
(* a message at most, the others one each, and that only if both find none. *)
SlowAllocations ==
    IF pc["slow"] \in {"test wsi", "test queue", "allocate"} THEN count["slow"] - 1
                                                             ELSE count["slow"]
Allocating(t) == IF pc[t] = "allocate" THEN 1 ELSE 0

AddressesLeft ==
    /\ next_address + Allocating("main") + Allocating("worker") <= 3 + SlowAllocations
    /\ queue["fast"] = Null /\ (wsi = "none" \/ chatclients) => next_address <= 1 + SlowAllocations
    /\ \A t \in Threads : pc[t] = "enqueue" => pointer[t] < next_address

Contents ==
    /\ heap \in [Addresses -> Seq(Messages)]
    /\ \A a \in Addresses : a >= next_address => heap[a] = << >>
    /\ written \in Seq(Messages)
    /\ queued \subseteq Messages
    /\ IF pc["main"] = "write" THEN next_message \in Messages ELSE next_message = NoMessage

(* The threads hold pointers to the queue they write; the one of the slow  *)
(* thread does not change under it, nor does the other without the race.   *)
OpenPointers ==
    wsi = "open" =>
        /\ pc["slow"] = "allocate" => queue["slow"] = Null
        /\ pc["slow"] = "get queue" => queue["slow"] # Null
        /\ pc["slow"] = "enqueue" => pointer["slow"] = queue["slow"] /\ pointer["slow"] # Null
        /\ \A t \in {"main", "worker"} : pc[t] = "enqueue" => pointer[t] # queue["slow"]

NotRaced ==
    wsi = "open" /\ ~raced =>
        \A t \in {"main", "worker"} :
           /\ pc[t] = "allocate" => /\ queue["fast"] = Null
                                    /\ \A s \in {"main", "worker"} \ {t} : pc[s] # "allocate"
           /\ pc[t] = "enqueue" => pointer[t] = queue["fast"]

(* The messages of a thread: those written, the one about to be, those in  *)
(* its queue, the one it has begun to send.                                *)
Older(m, n) == m[1] = n[1] => m[2] < n[2]
Ordered(s) == \A i, j \in 1 .. Len(s) : i < j => Older(s[i], s[j])
Sent(m) == m[2] <= LastQueued[m[1]]

InOrder ==
    /\ Ordered(written)
    /\ \A m \in Range(written) : Sent(m)
    /\ pc["main"] = "write" =>
          Sent(next_message) /\ \A m \in Range(written) : Older(m, next_message)
    /\ wsi = "open" => \A q \in Queues : queue[q] # Null =>
          /\ Ordered(heap[queue[q]])
          /\ \A m \in Range(heap[queue[q]]) :
                /\ QueueOf(m[1]) = q
                /\ Sent(m)
                /\ \A n \in Range(written) : Older(n, m)
                /\ pc["main"] = "write" => Older(next_message, m)

NothingYet == wsi = "none" => /\ queued = {} /\ written = << >>
                              /\ \A q \in Queues : queue[q] = Null

Flow == InOrder /\ LostOnlyByRace /\ NothingYet
FlowInv == Counted /\ AddressesLeft /\ Contents /\ OpenPointers /\ NotRaced /\ Flow

LEMMA CountTypes ==
    ASSUME IndInv, Counted
    PROVE  /\ LastQueued \in [Threads -> Nat]
           /\ SlowAllocations \in Nat /\ SlowAllocations <= MaxSlow
           /\ MaxSlow \in Nat /\ MaxWorker \in Nat
<1>1. \A t \in Threads : /\ count[t] \in Nat
                         /\ pc[t] \in Sending => count[t] - 1 \in Nat
  BY DEF Counted
<1>2. "slow" \in Threads
  BY DEF Threads
<1>3. SlowAllocations \in Nat /\ SlowAllocations <= count["slow"]
  <2>1. CASE pc["slow"] \in {"test wsi", "test queue", "allocate"}
    <3>1. SlowAllocations = count["slow"] - 1
      BY <2>1 DEF SlowAllocations
    <3>2. count["slow"] \in Nat /\ count["slow"] - 1 \in Nat
      BY <1>1, <1>2, <2>1 DEF Sending
    <3>. QED
      BY <3>1, <3>2
  <2>2. CASE pc["slow"] \notin {"test wsi", "test queue", "allocate"}
    <3>1. SlowAllocations = count["slow"]
      BY <2>2 DEF SlowAllocations
    <3>2. count["slow"] \in Nat
      BY <1>1, <1>2
    <3>. QED
      BY <3>1, <3>2
  <2>. QED
    BY <2>1, <2>2
<1>4. MaxSlow \in Nat /\ MaxWorker \in Nat
  BY OutboxAssumption
<1>5. SlowAllocations <= MaxSlow
  BY <1>1, <1>2, <1>3, <1>4 DEF Counted
<1>. QED
  BY <1>1, <1>3, <1>4, <1>5 DEF LastQueued

(* Messages and what they are made of. *)
LEMMA MessageFacts ==
    ASSUME NEW m \in Messages
    PROVE  m[1] \in Threads /\ m[2] \in Nat /\ m # NoMessage
BY OutboxAssumption DEF Messages, NoMessage, Threads

LEMMA InitFlow == Init => FlowInv
<1>. SUFFICES ASSUME Init PROVE FlowInv
  OBVIOUS
<1>. USE DEF Init
<1>1. Counted
  BY OutboxAssumption DEF Counted, Threads, Sending
<1>2. AddressesLeft
  BY DEF AddressesLeft, Allocating, SlowAllocations, Threads
<1>3. Contents
  BY DEF Contents, Threads
<1>4. OpenPointers /\ NotRaced
  BY DEF OpenPointers, NotRaced
<1>5. InOrder
  BY DEF InOrder, Ordered, Range, Threads
<1>6. LostOnlyByRace /\ NothingYet
  BY DEF LostOnlyByRace, NothingYet
<1>. QED
  BY <1>1, <1>2, <1>3, <1>4, <1>5, <1>6 DEF FlowInv, Flow

-----------------------------------------------------------------------------
(* The numbers and the addresses.                                          *)

LEMMA CountedStep ==
    ASSUME IndInv, Counted, Next
    PROVE  Counted'
<1>. USE DEF Goto, At, client_vars, main_vars, memory_vars, send_vars
<1>0. /\ pc \in [Threads -> SendLabels \cup WriteLabels \cup ClearLabels]
      /\ count \in [Threads -> Nat]
      /\ "main" \in Threads /\ "worker" \in Threads /\ "slow" \in Threads
  BY DEF IndInv, Typed, Counted, Threads
<1>1. ASSUME NEW t \in Threads, SendStep(t) PROVE Counted'
  <2>1. count' = count /\ wsi' = wsi
    BY <1>1 DEF SendStep, TestWsi, TestQueue, Allocate, TestQueueAgain, GetQueue, Enqueue,
                TestWsiAgain, Request
  <2>2. PICK label : /\ pc' = [pc EXCEPT ![t] = label]
                     /\ label \in Sending => pc[t] \in Sending
    <3>1. CASE pc[t] \in Sending
      BY <1>1, <3>1 DEF SendStep, TestWsi, TestQueue, Allocate, TestQueueAgain, GetQueue,
                Enqueue, TestWsiAgain, Request
    <3>2. CASE pc[t] \notin Sending
      BY <1>1, <3>2 DEF SendStep, TestWsi, TestQueue, Allocate, TestQueueAgain, GetQueue,
                Enqueue, TestWsiAgain, Request, Sending
    <3>. QED
      BY <3>1, <3>2
  <2>3. \A s \in Threads : pc'[s] \in Sending => pc[s] \in Sending
    BY <1>0, <2>2
  <2>. QED
    BY <2>1, <2>3 DEF Counted
<1>2. CASE Established
  <2>1. /\ count' = [count EXCEPT !["main"] = count["main"] + 1]
        /\ wsi = "none" /\ wsi' = "open" /\ pc' = [pc EXCEPT !["main"] = "test wsi"]
    BY <1>2 DEF Established, BeginSend
  <2>2. count'["main"] = count["main"] + 1 /\ count["main"] \in Nat
    BY <1>0, <2>1
  <2>4. \A s \in Threads : s # "main" => count'[s] = count[s] /\ pc'[s] = pc[s]
    BY <1>0, <2>1
  <2>3. count["main"] = 0 /\ count'["main"] = 1
    <3>1. count["main"] = 0
      <4>1. wsi = "none" => (IF wsi = "none" THEN 0 ELSE 1) = 0
        OBVIOUS
      <4>. QED
        BY <2>1, <4>1 DEF Counted
    <3>. QED
      BY <2>2, <3>1
  <2>5. count' \in [Threads -> Nat]
    <3>1. count' = [s \in Threads |-> IF s = "main" THEN 1 ELSE count[s]]
      BY <1>0, <2>1, <2>3
    <3>2. \A s \in Threads : (IF s = "main" THEN 1 ELSE count[s]) \in Nat
      BY <1>0
    <3>. QED
      BY <3>1, <3>2
  <2>6. count'["worker"] <= MaxWorker /\ count'["slow"] <= MaxSlow
    BY <1>0, <2>4 DEF Counted
  <2>7. ASSUME NEW s \in Threads, pc'[s] \in Sending PROVE count'[s] >= 1
    <3>1. CASE s = "main"
      BY <2>3, <3>1
    <3>2. CASE s # "main"
      BY <2>4, <2>7, <3>2 DEF Counted
    <3>. QED
      BY <3>1, <3>2
  <2>8. count'["main"] = IF wsi' = "none" THEN 0 ELSE 1
    BY <2>1, <2>3
  <2>. QED
    BY <2>5, <2>6, <2>7, <2>8 DEF Counted
<1>3. CASE WorkerSends \/ SlowSends
  <2>1. PICK t \in {"worker", "slow"} :
           /\ pc' = [pc EXCEPT ![t] = "test wsi"]
           /\ count' = [count EXCEPT ![t] = count[t] + 1]
           /\ count[t] < IF t = "worker" THEN MaxWorker ELSE MaxSlow
    BY <1>3 DEF WorkerSends, SlowSends, BeginSend
  <2>2. wsi' = wsi
    BY <1>3 DEF WorkerSends, SlowSends
  <2>3. /\ count'[t] = count[t] + 1 /\ count[t] \in Nat
        /\ \A s \in Threads : s # t => count'[s] = count[s] /\ pc'[s] = pc[s]
    BY <1>0, <2>1
  <2>4. count'[t] \in Nat /\ count'[t] >= 1
    BY <2>3
  <2>5. count' \in [Threads -> Nat]
    BY <1>0, <2>1, <2>3, <2>4
  <2>6. count'[t] <= IF t = "worker" THEN MaxWorker ELSE MaxSlow
    <3>1. \A k, n \in Nat : k < n => k + 1 <= n
      OBVIOUS
    <3>2. MaxWorker \in Nat /\ MaxSlow \in Nat
      BY OutboxAssumption
    <3>. QED
      BY <2>1, <2>3, <3>1, <3>2
  <2>. QED
    BY <1>0, <2>1, <2>2, <2>3, <2>4, <2>5, <2>6 DEF Counted
<1>4. CASE \/ Closed \/ Writeable \/ GetSlow \/ NoMessageLeft \/ Write \/ More
           \/ Disconnect \/ CloseConnection \/ Clear
  <2>1. count' = count
    BY <1>4 DEF Closed, Writeable, GetSlow, NoMessageLeft, Write, More, Disconnect,
                CloseConnection, Clear, ClearMessages, ForgetQueue
  <2>2. wsi' = wsi \/ (wsi = "open" /\ wsi' = "null")
    <3>1. pc["main"] # "idle" => wsi = "open"
      BY DEF IndInv, Phases
    <3>. QED
      BY <1>4, <3>1 DEF Closed, Close, Writeable, GetSlow, NoMessageLeft, Write, More, Disconnect,
                CloseConnection, Clear, ClearMessages, ForgetQueue
  <2>3. pc' = pc \/ \E t \in Threads :
           \E label \in WriteLabels \cup ClearLabels \cup {"idle", "test wsi again"} :
              pc' = [pc EXCEPT ![t] = label]
    BY <1>0, <1>4 DEF Closed, Close, Writeable, GetSlow, TakeFromQueue, NoMessageLeft, Write, More, Disconnect,
                CloseConnection, Clear, ClearMessages, ForgetQueue, WriteLabels, ClearLabels
  <2>4. \A s \in Threads : pc'[s] \in Sending => pc[s] \in Sending
    BY <1>0, <2>3 DEF Sending, WriteLabels, ClearLabels
  <2>. QED
    BY <2>1, <2>2, <2>4 DEF Counted
<1>. QED
  BY <1>0, <1>1, <1>2, <1>3, <1>4 DEF Next, MainStep

LEMMA SumKept ==
    ASSUME NEW n \in Nat, NEW a \in Nat, NEW b \in Nat, NEW s \in Nat,
           NEW n1 \in Nat, NEW a1 \in Nat, NEW b1 \in Nat, NEW s1 \in Nat
    PROVE  /\ n + a + b <= 3 + s /\ n1 = n /\ a1 <= a /\ b1 <= b /\ s <= s1 => n1 + a1 + b1 <= 3 + s1
           /\ n + a + b <= 3 + s /\ n1 = n + 1 /\ a1 = a /\ b1 = b /\ s1 = s + 1 => n1 + a1 + b1 <= 3 + s1
           /\ n + a + b <= 3 + s /\ n1 = n + 1 /\ a1 + b1 + 1 <= a + b /\ s <= s1 => n1 + a1 + b1 <= 3 + s1
           /\ n <= 1 + s /\ n1 = n /\ s <= s1 => n1 <= 1 + s1
           /\ n <= 1 + s /\ n1 = n + 1 /\ s1 = s + 1 => n1 <= 1 + s1
           /\ n1 <= 1 + s1 /\ a1 <= 1 /\ b1 <= 1 => n1 + a1 + b1 <= 3 + s1
OBVIOUS

LEMMA OneMore ==
    ASSUME NEW c \in Nat
    PROVE  /\ c + 1 \in Nat /\ (c + 1) - 1 = c /\ c < c + 1 /\ c <= c /\ c >= c
           /\ c >= 1 => c - 1 \in Nat /\ c = (c - 1) + 1 /\ c >= c - 1 /\ c - 1 >= c - 1
OBVIOUS

LEMMA AddressesKept ==
    ASSUME IndInv, Counted, AddressesLeft,
           SlowAllocations' \in Nat, SlowAllocations' >= SlowAllocations,
           next_address' = next_address,
           queue'["fast"] = Null /\ (wsi' = "none" \/ chatclients') =>
              queue["fast"] = Null /\ (wsi = "none" \/ chatclients),
           \A t \in {"main", "worker"} : pc'[t] = "allocate" => pc[t] = "allocate",
           \A t \in Threads : pc'[t] = "enqueue" => pc[t] = "enqueue" /\ pointer'[t] = pointer[t]
    PROVE  AddressesLeft'
<1>1. SlowAllocations \in Nat /\ next_address \in Nat
  BY CountTypes DEF IndInv, Typed
<1>2. next_address' + Allocating("main")' + Allocating("worker")' <= 3 + SlowAllocations'
  <2>1. /\ Allocating("main") \in Nat /\ Allocating("worker") \in Nat
        /\ Allocating("main")' \in Nat /\ Allocating("worker")' \in Nat
        /\ Allocating("main")' <= Allocating("main") /\ Allocating("worker")' <= Allocating("worker")
    BY DEF Allocating
  <2>2. next_address + Allocating("main") + Allocating("worker") <= 3 + SlowAllocations
    BY DEF AddressesLeft
  <2>. QED
    BY <1>1, <2>1, <2>2, SumKept
<1>3. queue'["fast"] = Null /\ (wsi' = "none" \/ chatclients') => next_address' <= 1 + SlowAllocations'
  <2>1. next_address <= 1 + SlowAllocations => next_address' <= 1 + SlowAllocations'
    BY <1>1, SumKept
  <2>. QED
    BY <2>1 DEF AddressesLeft
<1>4. \A t \in Threads : pc'[t] = "enqueue" => pointer'[t] < next_address'
  BY DEF AddressesLeft
<1>. QED
  BY <1>2, <1>3, <1>4 DEF AddressesLeft

(* A thread moves and the others stay.                                    *)
LEMMA SlowStays ==
    ASSUME pc'["slow"] = pc["slow"], count'["slow"] = count["slow"]
    PROVE  SlowAllocations' = SlowAllocations
BY DEF SlowAllocations

LEMMA AddressesSend ==
    ASSUME IndInv, Counted, AddressesLeft, NEW t \in Threads, SendStep(t)
    PROVE  AddressesLeft'
<1>. USE DEF Goto, At, client_vars, main_vars, memory_vars, send_vars
<1>0. /\ pc \in [Threads -> SendLabels \cup WriteLabels \cup ClearLabels]
      /\ count \in [Threads -> Nat] /\ next_address \in Nat /\ SlowAllocations \in Nat
      /\ pointer \in [Threads -> Nat] /\ queue \in [Queues -> Nat]
      /\ "main" \in Threads /\ "worker" \in Threads /\ "slow" \in Threads
      /\ QueueOf(t) \in Queues /\ "fast" \in Queues
  BY CountTypes DEF IndInv, Typed, Counted, Threads, Queues, QueueOf
<1>1. count' = count /\ wsi' = wsi /\ chatclients' = chatclients
  BY DEF SendStep, TestWsi, TestQueue, Allocate, TestQueueAgain, GetQueue, Enqueue,
         TestWsiAgain, Request
<1>2. PICK label : pc' = [pc EXCEPT ![t] = label]
  BY DEF SendStep, TestWsi, TestQueue, Allocate, TestQueueAgain, GetQueue, Enqueue,
         TestWsiAgain, Request
<1>3. pc'[t] = label /\ \A s \in Threads \ {t} : pc'[s] = pc[s]
  BY <1>0, <1>2
<1>4. /\ SlowAllocations' \in Nat /\ SlowAllocations' >= SlowAllocations
      /\ t = "slow" /\ Allocate(t) => SlowAllocations' = SlowAllocations + 1
  <2>1. CASE t # "slow"
    BY <1>0, <1>1, <1>3, <2>1, SlowStays
  <2>2. CASE t = "slow"
    <3>1. label \in {"test wsi", "test queue", "allocate"} =>
             pc["slow"] \in {"test wsi", "test queue", "allocate"}
      <4>1. CASE TestWsi(t)
        BY <2>2, <4>1 DEF TestWsi
      <4>2. CASE TestQueue(t)
        BY <2>2, <4>2 DEF TestQueue
      <4>3. CASE ~TestWsi(t) /\ ~TestQueue(t)
        <5>1. pc'[t] \notin {"test wsi", "test queue", "allocate"}
          BY <1>0, <4>3 DEF SendStep, Allocate, TestQueueAgain, GetQueue, Enqueue, TestWsiAgain, Request
        <5>. QED
          BY <1>3, <5>1
      <4>. QED
        BY <4>1, <4>2, <4>3
    <3>2. Allocate(t) => pc["slow"] = "allocate" /\ label = "test queue again"
      BY <1>0, <1>3, <2>2 DEF Allocate
    <3>3. /\ pc'["slow"] = label /\ count'["slow"] = count["slow"]
          /\ count["slow"] \in Nat
          /\ pc["slow"] \in {"test wsi", "test queue", "allocate"} => count["slow"] >= 1
      BY <1>0, <1>1, <1>3, <2>2 DEF Counted, Sending
    <3>4. /\ SlowAllocations = IF pc["slow"] \in {"test wsi", "test queue", "allocate"}
                                 THEN count["slow"] - 1 ELSE count["slow"]
          /\ SlowAllocations' = IF label \in {"test wsi", "test queue", "allocate"}
                                  THEN count["slow"] - 1 ELSE count["slow"]
      BY <3>3 DEF SlowAllocations
    <3>5. CASE pc["slow"] \in {"test wsi", "test queue", "allocate"}
      <4>1. count["slow"] - 1 \in Nat /\ SlowAllocations = count["slow"] - 1
        <5>1. count["slow"] \in Nat /\ count["slow"] >= 1
          BY <3>3, <3>5
        <5>2. count["slow"] - 1 \in Nat
          BY <5>1, OneMore
        <5>. QED
          BY <5>2, <3>4, <3>5
      <4>2. CASE label \in {"test wsi", "test queue", "allocate"}
        <5>1. SlowAllocations' = count["slow"] - 1
          BY <3>4, <4>2
        <5>. QED
          <6>1. SlowAllocations' = SlowAllocations /\ SlowAllocations \in Nat
            BY <4>1, <5>1
          <6>2. ~Allocate(t)
            BY <3>2, <4>2
          <6>3. SlowAllocations >= SlowAllocations
            BY <6>1, OneMore
          <6>. QED
            BY <6>1, <6>2, <6>3
      <4>3. CASE label \notin {"test wsi", "test queue", "allocate"}
        <5>1. SlowAllocations' = count["slow"]
          BY <3>4, <4>3
        <5>. QED
          <6>1. count["slow"] \in Nat /\ count["slow"] >= 1
            BY <3>3, <3>5
          <6>. QED
            BY <4>1, <5>1, <6>1, OneMore
      <4>. QED
        BY <4>2, <4>3
    <3>6. CASE pc["slow"] \notin {"test wsi", "test queue", "allocate"}
      <4>1. SlowAllocations = count["slow"] /\ SlowAllocations' = count["slow"]
        BY <3>1, <3>4, <3>6
      <4>2. ~Allocate(t)
        BY <3>2, <3>6
      <4>. QED
        <5>1. count["slow"] \in Nat
          BY <3>3
        <5>. QED
          BY <4>1, <4>2, <5>1, OneMore
    <3>. QED
      BY <3>5, <3>6
  <2>. QED
    BY <2>1, <2>2
<1>5. CASE Allocate(t)
  <2>1. /\ next_address' = next_address + 1 /\ pointer' = pointer
        /\ pc[t] = "allocate" /\ label = "test queue again"
        /\ queue' = [queue EXCEPT ![QueueOf(t)] = next_address]
    BY <1>0, <1>3, <1>5 DEF Allocate
  <2>2. ASSUME NEW s \in Threads, pc'[s] = "enqueue" PROVE pointer'[s] < next_address'
    <3>1. pc[s] = "enqueue"
      BY <1>3, <2>1, <2>2
    <3>2. pointer[s] \in Nat /\ pointer[s] < next_address
      BY <1>0, <3>1 DEF AddressesLeft
    <3>3. \A a \in Nat : a < next_address => a < next_address + 1
      BY <1>0
    <3>. QED
      BY <2>1, <3>2, <3>3
  <2>3. CASE t = "slow"
    <3>1. Allocating("main")' = Allocating("main") /\ Allocating("worker")' = Allocating("worker")
      BY <1>0, <1>3, <2>3 DEF Allocating
    <3>2. queue'["fast"] = queue["fast"]
      BY <1>0, <2>1, <2>3 DEF QueueOf
    <3>3. SlowAllocations' = SlowAllocations + 1
      BY <1>4, <1>5, <2>3
    <3>4. Allocating("main") \in Nat /\ Allocating("worker") \in Nat
      BY DEF Allocating
    <3>5. next_address' + Allocating("main")' + Allocating("worker")' <= 3 + SlowAllocations'
      <4>1. next_address + Allocating("main") + Allocating("worker") <= 3 + SlowAllocations
        BY DEF AddressesLeft
      <4>2. next_address' \in Nat /\ SlowAllocations' \in Nat /\ next_address' = next_address + 1
        BY <1>0, <2>1, <1>4, OneMore
      <4>3. next_address \in Nat /\ SlowAllocations \in Nat
        BY <1>0
      <4>4. Allocating("main")' \in Nat /\ Allocating("worker")' \in Nat
        BY <3>1, <3>4
      <4>. QED
        BY <3>1, <3>3, <3>4, <4>1, <4>2, <4>3, <4>4, SumKept
    <3>6. queue'["fast"] = Null /\ (wsi' = "none" \/ chatclients') => next_address' <= 1 + SlowAllocations'
      <4>1. next_address <= 1 + SlowAllocations => next_address' <= 1 + SlowAllocations'
        <5>1. next_address \in Nat /\ SlowAllocations \in Nat
          BY <1>0
        <5>2. next_address' \in Nat /\ SlowAllocations' \in Nat /\ next_address' = next_address + 1
          BY <1>4, <2>1, <5>1, OneMore
        <5>. QED
          BY <3>3, <5>1, <5>2, SumKept
      <4>. QED
        BY <1>1, <3>2, <4>1 DEF AddressesLeft
    <3>. QED
      BY <2>2, <3>5, <3>6 DEF AddressesLeft
  <2>4. CASE t # "slow"
    <3>1. queue'["fast"] = next_address
      BY <1>0, <2>1, <2>4 DEF QueueOf
    <3>2. next_address # Null
      BY NewAddress DEF IndInv
    <3>3. Allocating("main")' + Allocating("worker")' + 1 <= Allocating("main") + Allocating("worker")
      <4>1. t = "main" \/ t = "worker"
        BY <2>4 DEF Threads
      <4>2. Allocating(t) = 1 /\ Allocating(t)' = 0
        BY <1>3, <2>1 DEF Allocating
      <4>3. \A s \in Threads \ {t} : Allocating(s)' = Allocating(s)
        BY <1>3 DEF Allocating
      <4>4. Allocating("main") \in Nat /\ Allocating("worker") \in Nat
        BY DEF Allocating
      <4>5. CASE t = "main"
        <5>1. Allocating("main")' = 0 /\ Allocating("main") = 1 /\ Allocating("worker")' = Allocating("worker")
          BY <1>0, <4>2, <4>3, <4>5
        <5>. QED
          BY <4>4, <5>1
      <4>6. CASE t = "worker"
        <5>1. Allocating("worker")' = 0 /\ Allocating("worker") = 1 /\ Allocating("main")' = Allocating("main")
          BY <1>0, <4>2, <4>3, <4>6
        <5>. QED
          BY <4>4, <5>1
      <4>. QED
        BY <4>1, <4>5, <4>6
    <3>4. /\ Allocating("main") \in Nat /\ Allocating("worker") \in Nat
          /\ Allocating("main")' \in Nat /\ Allocating("worker")' \in Nat
      BY DEF Allocating
    <3>5. next_address' + Allocating("main")' + Allocating("worker")' <= 3 + SlowAllocations'
      <4>1. next_address + Allocating("main") + Allocating("worker") <= 3 + SlowAllocations
        BY DEF AddressesLeft
      <4>2. next_address \in Nat /\ SlowAllocations \in Nat
        BY <1>0
      <4>3. next_address' \in Nat /\ next_address' = next_address + 1
        BY <2>1, <4>2, OneMore
      <4>4. SlowAllocations' \in Nat /\ SlowAllocations <= SlowAllocations'
        BY <1>4, <4>2
      <4>. QED
        BY <3>3, <3>4, <4>1, <4>2, <4>3, <4>4, SumKept
    <3>. QED
      BY <2>2, <3>1, <3>2, <3>5 DEF AddressesLeft
  <2>. QED
    BY <2>3, <2>4
<1>6. CASE TestQueue(t)
  <2>1. /\ next_address' = next_address /\ pointer' = pointer /\ queue' = queue
        /\ label \in {"allocate", "test queue again"}
        /\ label = "allocate" => queue[QueueOf(t)] = Null
        /\ pc[t] = "test queue"
    BY <1>0, <1>3, <1>6 DEF TestQueue, Missing
  <2>2. \A s \in Threads : pc'[s] = "enqueue" => pc[s] = "enqueue" /\ pointer'[s] = pointer[s]
    BY <1>3, <2>1
  <2>3. CASE label = "allocate" /\ t # "slow"
    <3>1. queue["fast"] = Null
      BY <2>1, <2>3 DEF QueueOf
    <3>2. chatclients
      BY <2>1, <2>3 DEF IndInv, Phases, Threads, ClearLabels
    <3>3. next_address <= 1 + SlowAllocations
      BY <3>1, <3>2 DEF AddressesLeft
    <3>4. next_address' <= 1 + SlowAllocations' /\ next_address' \in Nat
      <4>1. SlowAllocations' \in Nat /\ SlowAllocations <= SlowAllocations'
        BY <1>4, <1>0
      <4>2. next_address' = next_address
        BY <2>1
      <4>. QED
        BY <1>0, <4>1, <4>2, <3>3, SumKept
    <3>5. Allocating("main")' \in {0, 1} /\ Allocating("worker")' \in {0, 1}
      BY DEF Allocating
    <3>6. next_address' + Allocating("main")' + Allocating("worker")' <= 3 + SlowAllocations'
      <4>1. /\ Allocating("main")' \in Nat /\ Allocating("worker")' \in Nat
            /\ Allocating("main")' <= 1 /\ Allocating("worker")' <= 1
        BY <3>5
      <4>2. SlowAllocations' \in Nat
        BY <1>4
      <4>. QED
        BY <3>4, <4>1, <4>2, SumKept
    <3>7. \A s \in Threads : pc'[s] = "enqueue" => pointer'[s] < next_address'
      BY <2>1, <2>2 DEF AddressesLeft
    <3>. QED
      BY <3>4, <3>6, <3>7 DEF AddressesLeft
  <2>4. CASE label # "allocate" \/ t = "slow"
    <3>1. \A s \in {"main", "worker"} : pc'[s] = "allocate" => pc[s] = "allocate"
      BY <1>0, <1>3, <2>4
    <3>. QED
      BY <1>1, <1>4, <2>1, <2>2, <3>1, AddressesKept
  <2>. QED
    BY <2>3, <2>4
<1>7. CASE GetQueue(t)
  <2>1. /\ next_address' = next_address /\ queue' = queue
        /\ pointer' = [pointer EXCEPT ![t] = queue[QueueOf(t)]]
        /\ label = "enqueue"
    BY <1>0, <1>3, <1>7 DEF GetQueue
  <2>2. \A s \in Threads : pc'[s] = "enqueue" => pointer'[s] < next_address'
    <3>1. queue[QueueOf(t)] < next_address
      BY <1>0 DEF IndInv, Typed
    <3>. QED
      BY <1>0, <1>3, <2>1, <3>1 DEF AddressesLeft
  <2>3. /\ Allocating("main")' \in Nat /\ Allocating("worker")' \in Nat
        /\ Allocating("main") \in Nat /\ Allocating("worker") \in Nat
        /\ Allocating("main")' <= Allocating("main") /\ Allocating("worker")' <= Allocating("worker")
    BY <1>0, <1>3, <2>1 DEF Allocating
  <2>4. next_address' + Allocating("main")' + Allocating("worker")' <= 3 + SlowAllocations'
    <3>1. next_address + Allocating("main") + Allocating("worker") <= 3 + SlowAllocations
      BY DEF AddressesLeft
    <3>2. next_address' \in Nat /\ SlowAllocations' \in Nat /\ SlowAllocations <= SlowAllocations'
      BY <1>0, <2>1, <1>4
    <3>. QED
      BY <1>0, <2>1, <2>3, <3>1, <3>2, SumKept
  <2>5. queue'["fast"] = Null /\ (wsi' = "none" \/ chatclients') => next_address' <= 1 + SlowAllocations'
    <3>1. SlowAllocations' \in Nat /\ SlowAllocations <= SlowAllocations' /\ next_address' = next_address
      BY <1>0, <2>1, <1>4
    <3>2. next_address <= 1 + SlowAllocations => next_address' <= 1 + SlowAllocations'
      BY <1>0, <3>1, SumKept
    <3>. QED
      BY <1>1, <2>1, <3>2 DEF AddressesLeft
  <2>. QED
    BY <2>2, <2>4, <2>5 DEF AddressesLeft
<1>8. CASE TestWsi(t) \/ TestQueueAgain(t) \/ Enqueue(t) \/ TestWsiAgain(t) \/ Request(t)
  <2>1. /\ next_address' = next_address /\ queue' = queue
        /\ label \notin {"allocate", "enqueue"}
    BY <1>0, <1>3, <1>8 DEF TestWsi, TestQueueAgain, Enqueue, TestWsiAgain, Request
  <2>2. \A s \in Threads \ {t} : pointer'[s] = pointer[s]
    BY <1>0, <1>8 DEF TestWsi, TestQueueAgain, Enqueue, TestWsiAgain, Request
  <2>3. \A s \in Threads : pc'[s] = "enqueue" => pc[s] = "enqueue" /\ pointer'[s] = pointer[s]
    BY <1>3, <2>1, <2>2
  <2>4. \A s \in {"main", "worker"} : pc'[s] = "allocate" => pc[s] = "allocate"
    BY <1>0, <1>3, <2>1
  <2>. QED
    BY <1>1, <1>4, <2>1, <2>3, <2>4, AddressesKept
<1>. QED
  BY <1>5, <1>6, <1>7, <1>8 DEF SendStep

LEMMA AddressesStep ==
    ASSUME IndInv, Counted, AddressesLeft, Next
    PROVE  AddressesLeft'
<1>. USE DEF Goto, At, client_vars, main_vars, memory_vars, send_vars
<1>0. /\ pc \in [Threads -> SendLabels \cup WriteLabels \cup ClearLabels]
      /\ count \in [Threads -> Nat] /\ SlowAllocations \in Nat /\ queue \in [Queues -> Nat]
      /\ "main" \in Threads /\ "worker" \in Threads /\ "slow" \in Threads
  BY CountTypes DEF IndInv, Typed, Counted, Threads
<1>1. CASE \E t \in Threads : SendStep(t)
  BY <1>1, AddressesSend
<1>2. CASE SlowSends
  <2>1. /\ pc["slow"] = "idle" /\ pc' = [pc EXCEPT !["slow"] = "test wsi"]
        /\ count' = [count EXCEPT !["slow"] = count["slow"] + 1]
        /\ next_address' = next_address /\ queue' = queue /\ wsi' = wsi
        /\ chatclients' = chatclients /\ pointer' = pointer
    BY <1>2 DEF SlowSends, BeginSend
  <2>2. /\ pc'["slow"] = "test wsi" /\ \A s \in Threads \ {"slow"} : pc'[s] = pc[s]
        /\ count'["slow"] = count["slow"] + 1 /\ count["slow"] \in Nat
    BY <1>0, <2>1
  <2>3. SlowAllocations = count["slow"] /\ SlowAllocations' = (count["slow"] + 1) - 1
    BY <2>1, <2>2 DEF SlowAllocations
  <2>4. SlowAllocations' = SlowAllocations
    BY <2>2, <2>3, OneMore
  <2>5. SlowAllocations' \in Nat /\ SlowAllocations' >= SlowAllocations
    BY <1>0, <2>4, OneMore
  <2>6. \A t \in Threads : pc'[t] = "enqueue" => pc[t] = "enqueue" /\ pointer'[t] = pointer[t]
    BY <2>1, <2>2
  <2>7. \A t \in {"main", "worker"} : pc'[t] = "allocate" => pc[t] = "allocate"
    BY <1>0, <2>2
  <2>. QED
    BY <2>1, <2>5, <2>6, <2>7, AddressesKept
<1>3. CASE \/ Established \/ Closed \/ Writeable \/ GetSlow \/ NoMessageLeft \/ Write \/ More
           \/ WorkerSends \/ Disconnect \/ CloseConnection \/ Clear
  <2>1. next_address' = next_address /\ pointer' = pointer
    BY <1>3 DEF Established, WorkerSends, Closed, Close, Writeable, GetSlow, NoMessageLeft, Write, More, Disconnect,
                CloseConnection, Clear, ClearMessages, ForgetQueue
  <2>2. pc' = pc \/ \E t \in {"main", "worker"} :
           \E label \in WriteLabels \cup ClearLabels \cup {"idle", "test wsi", "test wsi again"} :
              pc' = [pc EXCEPT ![t] = label]
    BY <1>3 DEF Established, WorkerSends, BeginSend, Closed, Close, Writeable, GetSlow, TakeFromQueue, NoMessageLeft, Write, More,
                Disconnect, CloseConnection, Clear, ClearMessages, ForgetQueue, WriteLabels, ClearLabels
  <2>3. /\ pc'["slow"] = pc["slow"]
        /\ \A t \in Threads : pc'[t] = "enqueue" => pc[t] = "enqueue"
        /\ \A t \in {"main", "worker"} : pc'[t] = "allocate" => pc[t] = "allocate"
    <3>1. CASE pc' = pc
      BY <3>1
    <3>2. CASE pc' # pc
      <4>1. PICK t \in {"main", "worker"},
                 label \in WriteLabels \cup ClearLabels \cup {"idle", "test wsi", "test wsi again"} :
                   pc' = [pc EXCEPT ![t] = label]
        BY <2>2, <3>2
      <4>2. label # "enqueue" /\ label # "allocate" /\ t # "slow"
        BY <4>1 DEF WriteLabels, ClearLabels
      <4>3. \A u \in Threads : pc'[u] = IF u = t THEN label ELSE pc[u]
        BY <1>0, <4>1
      <4>4. "slow" \in Threads /\ {"main", "worker"} \subseteq Threads
        BY DEF Threads
      <4>. QED
        BY <4>2, <4>3, <4>4
    <3>. QED
      BY <3>1, <3>2
  <2>4. count'["slow"] = count["slow"]
    BY <1>0, <1>3 DEF Established, WorkerSends, BeginSend, Closed, Close, Writeable, GetSlow, NoMessageLeft, Write, More, Disconnect,
                CloseConnection, Clear, ClearMessages, ForgetQueue
  <2>5. SlowAllocations' = SlowAllocations
    BY <2>3, <2>4, SlowStays
  <2>6. SlowAllocations' \in Nat /\ SlowAllocations' >= SlowAllocations
    BY <1>0, <2>5, OneMore
  <2>7. queue'["fast"] = Null /\ (wsi' = "none" \/ chatclients') =>
              queue["fast"] = Null /\ (wsi = "none" \/ chatclients)
    <3>1. CASE Clear
      <4>1. pc["worker"] \in ClearLabels
        BY <1>0, <3>1 DEF Clear, ClearMessages, ForgetQueue, ClearLabels
      <4>2. wsi # "none" /\ ~chatclients
        BY <1>0, <4>1 DEF IndInv, Phases, ClearLabels
      <4>3. wsi' = wsi /\ chatclients' = chatclients
        BY <3>1 DEF Clear, ClearMessages, ForgetQueue
      <4>. QED
        BY <4>2, <4>3
    <3>2. CASE ~Clear
      <4>1. queue' = queue
        BY <1>3, <3>2 DEF Established, WorkerSends, Closed, Close, Writeable, GetSlow, NoMessageLeft, Write, More, Disconnect,
                CloseConnection
      <4>2. wsi' = "none" \/ chatclients' => wsi = "none" \/ chatclients
        BY <1>3, <3>2 DEF Established, WorkerSends, Closed, Close, Writeable, GetSlow, NoMessageLeft, Write, More, Disconnect,
                CloseConnection, IndInv, Phases
      <4>. QED
        BY <4>1, <4>2
    <3>. QED
      BY <3>1, <3>2
  <2>. QED
    BY <2>1, <2>3, <2>6, <2>7, AddressesKept
<1>. QED
  BY <1>0, <1>1, <1>2, <1>3 DEF Next, MainStep

-----------------------------------------------------------------------------
(* What the queues hold.                                                   *)

(* A queue that can be used is at one of the addresses.                    *)
LEMMA AddressInUse ==
    ASSUME IndInv, Counted, AddressesLeft
    PROVE  /\ \A a \in Nat : a # Null /\ a < next_address => a \in Addresses
           /\ \A q \in Queues : queue[q] # Null => queue[q] \in Addresses
<1>1. /\ SlowAllocations \in Nat /\ SlowAllocations <= MaxSlow /\ MaxSlow \in Nat
      /\ next_address \in Nat /\ \A q \in Queues : queue[q] \in Nat /\ queue[q] < next_address
  BY CountTypes DEF IndInv, Typed
<1>2. next_address <= 3 + MaxSlow
  <2>1. Allocating("main") \in Nat /\ Allocating("worker") \in Nat
    BY DEF Allocating
  <2>2. next_address + Allocating("main") + Allocating("worker") <= 3 + SlowAllocations
    BY DEF AddressesLeft
  <2>. QED
    BY <1>1, <2>1, <2>2
<1>3. \A a \in Nat : a # Null /\ a < next_address => a \in Addresses
  <2>1. \A a \in Nat : a # 0 /\ a < next_address => 1 <= a /\ a <= 2 + MaxSlow
    BY <1>1, <1>2
  <2>. QED
    BY <1>1, <2>1 DEF Null, Addresses
<1>. QED
  BY <1>1, <1>3

LEMMA ContentsKept ==
    ASSUME IndInv, Contents, heap' = heap, next_address' \in Nat, next_address' >= next_address,
           written' = written, queued' = queued, next_message' = next_message,
           pc'["main"] = "write" <=> pc["main"] = "write"
    PROVE  Contents'
<1>1. \A a \in Addresses : a >= next_address' => a >= next_address
  BY OutboxAssumption DEF IndInv, Typed, Addresses
<1>2. \A a \in Addresses : a >= next_address' => heap'[a] = << >>
  BY <1>1 DEF Contents
<1>. QED
  BY <1>2 DEF Contents

(* A message that a thread queues is one.                                  *)
LEMMA MessageBegun ==
    ASSUME IndInv, Counted, NEW t \in Threads, pc[t] = "enqueue"
    PROVE  <<t, count[t]>> \in Messages
<1>1. count[t] \in Nat /\ count[t] >= 1
  BY DEF Counted, Sending
<1>2. count["main"] <= 1
  BY DEF Counted
<1>3. count[t] <= MaxWorker + MaxSlow + 1
  <2>1. /\ MaxWorker \in Nat /\ MaxSlow \in Nat
        /\ count["worker"] <= MaxWorker /\ count["slow"] <= MaxSlow
    BY OutboxAssumption DEF Counted
  <2>2. \A c \in Nat : c <= 1 \/ c <= MaxWorker \/ c <= MaxSlow => c <= MaxWorker + MaxSlow + 1
    BY <2>1
  <2>3. t = "main" \/ t = "worker" \/ t = "slow"
    BY DEF Threads
  <2>. QED
    BY <1>1, <1>2, <2>1, <2>2, <2>3
<1>4. count[t] \in 1 .. MaxWorker + MaxSlow + 1
  BY <1>1, <1>3, OutboxAssumption
<1>. QED
  BY <1>4 DEF Messages

LEMMA ContentsEnqueue ==
    ASSUME IndInv, Counted, AddressesLeft, Contents, NEW t \in Threads, Enqueue(t)
    PROVE  Contents'
<1>. DEFINE m == <<t, count[t]>>  a == pointer[t]
<1>1. /\ pc[t] = "enqueue" /\ m \in Messages
      /\ heap' = IF Valid(a) THEN [heap EXCEPT ![a] = Append(heap[a], m)] ELSE heap
      /\ queued' = queued \cup {m}
      /\ next_address' = next_address /\ written' = written /\ next_message' = next_message
      /\ pc' = [pc EXCEPT ![t] = "test wsi again"]
  BY MessageBegun DEF Enqueue, At, Goto, main_vars
<1>2. pc'["main"] = "write" <=> pc["main"] = "write"
  BY <1>1 DEF IndInv, Typed, Threads
<1>3. a \in Nat /\ a < next_address
  BY <1>1 DEF AddressesLeft, IndInv, Typed
<1>4. heap' \in [Addresses -> Seq(Messages)]
  <2>1. CASE Valid(a)
    <3>1. a \in Addresses
      BY <1>3, <2>1, AddressInUse DEF Valid
    <3>2. heap[a] \in Seq(Messages)
      BY <3>1 DEF Contents
    <3>3. Append(heap[a], m) \in Seq(Messages)
      BY <1>1, <3>2, AppendProperties
    <3>. QED
      BY <1>1, <2>1, <3>1, <3>3 DEF Contents
  <2>2. CASE ~Valid(a)
    BY <1>1, <2>2 DEF Contents
  <2>. QED
    BY <2>1, <2>2
<1>5. ASSUME NEW b \in Addresses, b >= next_address PROVE heap'[b] = << >>
  <2>1. b # a
    BY <1>3, <1>5 DEF IndInv, Typed
  <2>2. heap'[b] = heap[b]
    BY <1>1, <2>1 DEF Contents
  <2>. QED
    BY <1>5, <2>2 DEF Contents
<1>6. queued' \subseteq Messages
  BY <1>1 DEF Contents
<1>. QED
  BY <1>1, <1>2, <1>4, <1>5, <1>6 DEF Contents

(* What is at the front of a queue is taken out of it.                     *)
LEMMA TakenFacts ==
    ASSUME IndInv, Counted, AddressesLeft, Contents, NEW q \in Queues, NEW label,
           TakeFromQueue(q, label), ~(pc' = [pc EXCEPT !["main"] = label] /\ heap' = heap /\ next_message' = next_message)
    PROVE  /\ queue[q] # Null /\ queue[q] \in Addresses /\ heap[queue[q]] # << >>
           /\ heap[queue[q]] \in Seq(Messages) /\ Tail(heap[queue[q]]) \in Seq(Messages)
           /\ heap' = [heap EXCEPT ![queue[q]] = Tail(heap[queue[q]])]
           /\ next_message' = Head(heap[queue[q]]) /\ next_message' \in Messages
           /\ pc' = [pc EXCEPT !["main"] = "write"]
<1>1. /\ queue[q] # Null /\ heap[queue[q]] # << >>
      /\ heap' = [heap EXCEPT ![queue[q]] = Tail(heap[queue[q]])]
      /\ next_message' = Head(heap[queue[q]])
      /\ pc' = [pc EXCEPT !["main"] = "write"]
  BY DEF TakeFromQueue, Goto
<1>2. queue[q] \in Addresses
  BY <1>1, AddressInUse
<1>3. heap[queue[q]] \in Seq(Messages)
  BY <1>2 DEF Contents
<1>4. Head(heap[queue[q]]) \in Messages /\ Tail(heap[queue[q]]) \in Seq(Messages)
  BY <1>1, <1>3, HeadTailProperties
<1>. QED
  BY <1>1, <1>2, <1>3, <1>4

LEMMA ContentsTake ==
    ASSUME IndInv, Counted, AddressesLeft, Contents, NEW q \in Queues,
           NEW label, label # "write", TakeFromQueue(q, label), pc["main"] # "write",
           next_address' = next_address, written' = written, queued' = queued
    PROVE  Contents'
<1>0. pc \in [Threads -> SendLabels \cup WriteLabels \cup ClearLabels] /\ next_address \in Nat /\ "main" \in Threads
  BY DEF IndInv, Typed, Threads
<1>1. CASE pc' = [pc EXCEPT !["main"] = label] /\ heap' = heap /\ next_message' = next_message
  <2>1. pc'["main"] # "write"
    BY <1>0, <1>1
  <2>2. next_address' \in Nat /\ next_address' >= next_address
    BY <1>0, OneMore
  <2>. QED
    BY <1>1, <2>1, <2>2, ContentsKept
<1>2. CASE ~(pc' = [pc EXCEPT !["main"] = label] /\ heap' = heap /\ next_message' = next_message)
  <2>1. /\ queue[q] \in Addresses /\ Tail(heap[queue[q]]) \in Seq(Messages)
        /\ heap' = [heap EXCEPT ![queue[q]] = Tail(heap[queue[q]])]
        /\ next_message' \in Messages /\ pc' = [pc EXCEPT !["main"] = "write"]
    BY <1>2, TakenFacts
  <2>2. pc'["main"] = "write"
    BY <1>0, <2>1
  <2>3. heap' \in [Addresses -> Seq(Messages)]
    BY <2>1 DEF Contents
  <2>4. ASSUME NEW b \in Addresses, b >= next_address' PROVE heap'[b] = << >>
    <3>1. queue[q] < next_address /\ queue[q] \in Nat
      BY DEF IndInv, Typed
    <3>2. b # queue[q]
      BY <1>0, <2>4, <3>1
    <3>3. heap'[b] = heap[b]
      BY <2>1, <3>2 DEF Contents
    <3>. QED
      BY <2>4, <3>3 DEF Contents
  <2>. QED
    BY <2>1, <2>2, <2>3, <2>4 DEF Contents
<1>. QED
  BY <1>1, <1>2

LEMMA ContentsStep ==
    ASSUME IndInv, Counted, AddressesLeft, Contents, Next
    PROVE  Contents'
<1>. USE DEF Goto, At, client_vars, main_vars, memory_vars, send_vars
<1>0. /\ pc \in [Threads -> SendLabels \cup WriteLabels \cup ClearLabels] /\ next_address \in Nat
      /\ "main" \in Threads /\ "worker" \in Threads /\ "slow" \in Threads
      /\ "fast" \in Queues /\ "slow" \in Queues
  BY DEF IndInv, Typed, Threads, Queues
<1>00. /\ next_address' \in Nat /\ next_address' >= next_address
       /\ next_address' = next_address \/ next_address' = next_address + 1
  <2>1. next_address' = next_address \/ next_address' = next_address + 1
    BY DEF Next, MainStep, SendStep, Established, WorkerSends, SlowSends, Closed, Close, Writeable, GetSlow,
           NoMessageLeft, Write, More, Disconnect, CloseConnection, Clear, ClearMessages, ForgetQueue,
           TestWsi, TestQueue, Allocate, TestQueueAgain, GetQueue, Enqueue, TestWsiAgain, Request
  <2>2. next_address + 1 \in Nat /\ next_address + 1 >= next_address /\ next_address >= next_address
    BY <1>0
  <2>. QED
    BY <1>0, <2>1, <2>2
<1>1. ASSUME NEW t \in Threads, SendStep(t) PROVE Contents'
  <2>1. CASE Enqueue(t)
    BY <2>1, ContentsEnqueue
  <2>2. CASE ~Enqueue(t)
    <3>1. heap' = heap /\ written' = written /\ queued' = queued /\ next_message' = next_message
      BY <1>1, <2>2 DEF SendStep, TestWsi, TestQueue, Allocate, TestQueueAgain, GetQueue, TestWsiAgain, Request
    <3>2. /\ pc[t] # "write"
          /\ \E label \in SendLabels : pc' = [pc EXCEPT ![t] = label]
      BY <1>1, <2>2 DEF SendStep, TestWsi, TestQueue, Allocate, TestQueueAgain, GetQueue, TestWsiAgain, Request,
            SendLabels
    <3>3. pc'["main"] = "write" <=> pc["main"] = "write"
      BY <1>0, <3>2 DEF SendLabels
    <3>. QED
      BY <1>00, <3>1, <3>3, ContentsKept
  <2>. QED
    BY <2>1, <2>2
<1>2. CASE Writeable
  BY <1>0, <1>2, ContentsTake DEF Writeable
<1>3. CASE GetSlow
  BY <1>0, <1>3, ContentsTake DEF GetSlow
<1>4. CASE Write
  <2>1. /\ pc["main"] = "write" /\ written' = Append(written, next_message) /\ next_message' = NoMessage
        /\ pc' = [pc EXCEPT !["main"] = "more"] /\ heap' = heap /\ next_address' = next_address /\ queued' = queued
    BY <1>4 DEF Write
  <2>2. pc'["main"] = "more"
    BY <1>0, <2>1
  <2>3. next_message \in Messages /\ written \in Seq(Messages)
    BY <2>1 DEF Contents
  <2>4. written' \in Seq(Messages)
    BY <2>1, <2>3, AppendProperties
  <2>. QED
    BY <2>1, <2>2, <2>4 DEF Contents
<1>5. CASE Clear
  <2>1. /\ next_address' = next_address /\ written' = written /\ queued' = queued /\ next_message' = next_message
        /\ heap' = heap \/ \E a : heap' = [heap EXCEPT ![a] = << >>]
        /\ \E label \in ClearLabels \cup {"idle"} : pc' = [pc EXCEPT !["worker"] = label]
    BY <1>5 DEF Clear, ClearMessages, ForgetQueue, ClearLabels
  <2>2. pc'["main"] = pc["main"]
    BY <1>0, <2>1
  <2>3. << >> \in Seq(Messages)
    OBVIOUS
  <2>4. heap' \in [Addresses -> Seq(Messages)] /\ \A b \in Addresses : heap'[b] = heap[b] \/ heap'[b] = << >>
    BY <2>1, <2>3 DEF Contents
  <2>. QED
    BY <2>1, <2>2, <2>4 DEF Contents
<1>6. CASE \/ Established \/ Closed \/ NoMessageLeft \/ More
           \/ WorkerSends \/ SlowSends \/ Disconnect \/ CloseConnection
  <2>1. heap' = heap /\ written' = written /\ queued' = queued /\ next_message' = next_message
    BY <1>6 DEF Established, WorkerSends, SlowSends, Closed, Close, NoMessageLeft, More, Disconnect, CloseConnection
  <2>2. pc' = pc \/ \E t \in Threads : \E label \in ClearLabels \cup SendLabels :
           pc' = [pc EXCEPT ![t] = label] /\ pc[t] # "write"
    BY <1>0, <1>6 DEF Established, WorkerSends, SlowSends, BeginSend, Closed, Close, NoMessageLeft, More, Disconnect,
           CloseConnection, IndInv, Phases, ClearLabels, SendLabels
  <2>3. pc'["main"] = "write" <=> pc["main"] = "write"
    BY <1>0, <2>2 DEF ClearLabels, SendLabels
  <2>. QED
    BY <1>00, <2>1, <2>3, ContentsKept
<1>. QED
  BY <1>0, <1>1, <1>2, <1>3, <1>4, <1>5, <1>6 DEF Next, MainStep

-----------------------------------------------------------------------------
(* The pointers the threads hold.                                          *)

Holding == {"allocate", "get queue", "enqueue"}

LEMMA PointersKept ==
    ASSUME OpenPointers, NotRaced,
           wsi' = "open" => wsi = "open", queue' = queue, raced => raced',
           \A t \in Threads : pc'[t] \in Holding => pc'[t] = pc[t] /\ pointer'[t] = pointer[t]
    PROVE  OpenPointers' /\ NotRaced'
<1>1. "main" \in Threads /\ "worker" \in Threads /\ "slow" \in Threads
  BY DEF Threads
<1>2. OpenPointers'
  BY <1>1 DEF OpenPointers, Holding
<1>3. NotRaced'
  BY <1>1 DEF NotRaced, Holding
<1>. QED
  BY <1>2, <1>3

(* While the connection is open nothing of it is deleted.                  *)
LEMMA WhileOpen ==
    ASSUME IndInv, wsi = "open"
    PROVE  deleted = {} /\ chatclients /\ ~Clear
<1>1. chatclients /\ deleted = {} /\ pc["worker"] \notin ClearLabels
  BY DEF IndInv, Phases
<1>. QED
  BY <1>1 DEF Clear, ClearMessages, ForgetQueue, ClearLabels, At

LEMMA PointersSend ==
    ASSUME IndInv, AddressesLeft, OpenPointers, NotRaced, NEW t \in Threads, SendStep(t)
    PROVE  OpenPointers' /\ NotRaced'
<1>. USE DEF Goto, At, client_vars, main_vars, memory_vars, send_vars
<1>0. /\ pc \in [Threads -> SendLabels \cup WriteLabels \cup ClearLabels]
      /\ pointer \in [Threads -> Nat] /\ queue \in [Queues -> Nat] /\ next_address \in Nat
      /\ "main" \in Threads /\ "worker" \in Threads /\ "slow" \in Threads
      /\ t = "main" \/ t = "worker" \/ t = "slow"
      /\ "fast" \in Queues /\ "slow" \in Queues /\ wsi' = wsi
  BY DEF IndInv, Typed, Threads, Queues, SendStep, TestWsi, TestQueue, Allocate, TestQueueAgain, GetQueue, Enqueue,
         TestWsiAgain, Request
<1>1. CASE TestWsi(t) \/ Enqueue(t) \/ TestWsiAgain(t) \/ Request(t)
  <2>1. /\ queue' = queue /\ raced' = raced
        /\ \E label \in SendLabels \ Holding : pc' = [pc EXCEPT ![t] = label]
        /\ \A s \in Threads \ {t} : pointer'[s] = pointer[s]
    BY <1>0, <1>1 DEF TestWsi, Enqueue, TestWsiAgain, Request, SendLabels, Holding
  <2>2. \A s \in Threads : pc'[s] \in Holding => pc'[s] = pc[s] /\ pointer'[s] = pointer[s]
    BY <1>0, <2>1
  <2>. QED
    BY <1>0, <2>1, <2>2, PointersKept
<1>2. CASE TestQueue(t)
  <2>1. /\ queue' = queue /\ pointer' = pointer /\ pc[t] = "test queue"
        /\ pc' = [pc EXCEPT ![t] = IF queue[QueueOf(t)] = Null THEN "allocate" ELSE "test queue again"]
        /\ raced' = (raced \/ /\ queue[QueueOf(t)] = Null
                              /\ \E s \in Threads \ {t} : QueueOf(s) = QueueOf(t) /\ pc[s] = "allocate")
    BY <1>2 DEF TestQueue, Missing
  <2>2. /\ pc'[t] = IF queue[QueueOf(t)] = Null THEN "allocate" ELSE "test queue again"
        /\ \A s \in Threads \ {t} : pc'[s] = pc[s]
    BY <1>0, <2>1
  <2>3. OpenPointers'
    BY <1>0, <2>1, <2>2 DEF OpenPointers, QueueOf
  <2>4. NotRaced'
    <3>1. SUFFICES ASSUME wsi = "open", ~raced' PROVE NotRaced'
      BY <1>0 DEF NotRaced
    <3>2. ~raced
      BY <2>1, <3>1
    <3>3. \A s \in {"main", "worker"} : pc'[s] = "enqueue" => pointer'[s] = queue'["fast"]
      BY <1>0, <2>1, <2>2, <3>1, <3>2 DEF NotRaced
    <3>4. CASE t \in {"main", "worker"} /\ queue["fast"] = Null
      <4>1. \A s \in {"main", "worker"} \ {t} : pc'[s] # "allocate"
        BY <1>0, <2>1, <2>2, <3>1, <3>4 DEF QueueOf
      <4>2. \A s \in {"main", "worker"} : pc'[s] = "allocate" => s = t
        BY <4>1
      <4>. QED
        BY <2>1, <3>3, <3>4, <4>1, <4>2 DEF NotRaced
    <3>5. CASE t = "slow" \/ queue["fast"] # Null
      <4>1. \A s \in {"main", "worker"} : pc'[s] = "allocate" => pc[s] = "allocate"
        BY <1>0, <2>2, <3>5 DEF QueueOf
      <4>. QED
        BY <2>1, <3>1, <3>2, <3>3, <4>1 DEF NotRaced
    <3>. QED
      BY <1>0, <3>4, <3>5
  <2>. QED
    BY <2>3, <2>4
<1>3. CASE Allocate(t)
  <2>1. /\ queue' = [queue EXCEPT ![QueueOf(t)] = next_address]
        /\ pc' = [pc EXCEPT ![t] = "test queue again"] /\ pc[t] = "allocate"
        /\ pointer' = pointer /\ raced' = raced
    BY <1>3 DEF Allocate
  <2>2. pc'[t] = "test queue again" /\ \A s \in Threads \ {t} : pc'[s] = pc[s]
    BY <1>0, <2>1
  <2>3. OpenPointers'
    <3>1. CASE t = "slow"
      <4>1. queue'["slow"] = next_address
        BY <1>0, <2>1, <3>1 DEF QueueOf
      <4>2. \A s \in {"main", "worker"} : pc'[s] = "enqueue" => pointer'[s] # next_address
        <5>1. \A s \in {"main", "worker"} : pc'[s] = "enqueue" => pointer[s] \in Nat /\ pointer[s] < next_address
          BY <1>0, <2>2, <3>1 DEF AddressesLeft
        <5>2. \A a \in Nat : a < next_address => a # next_address
          BY <1>0
        <5>. QED
          BY <2>1, <5>1, <5>2
      <4>. QED
        BY <2>2, <3>1, <4>1, <4>2 DEF OpenPointers
    <3>2. CASE t # "slow"
      <4>1. queue'["slow"] = queue["slow"]
        BY <1>0, <2>1, <3>2 DEF QueueOf
      <4>. QED
        BY <1>0, <2>1, <2>2, <3>2, <4>1 DEF OpenPointers
    <3>. QED
      BY <3>1, <3>2
  <2>4. NotRaced'
    <3>1. CASE t = "slow"
      <4>1. queue'["fast"] = queue["fast"]
        BY <1>0, <2>1, <3>1 DEF QueueOf
      <4>. QED
        BY <1>0, <2>1, <2>2, <3>1, <4>1 DEF NotRaced
    <3>2. CASE t # "slow"
      <4>1. SUFFICES ASSUME wsi = "open", ~raced PROVE NotRaced'
        BY <1>0, <2>1 DEF NotRaced
      <4>2. t \in {"main", "worker"}
        BY <1>0, <3>2
      <4>3. queue["fast"] = Null /\ \A s \in {"main", "worker"} \ {t} : pc[s] # "allocate"
        BY <2>1, <4>1, <4>2 DEF NotRaced
      <4>4. \A s \in {"main", "worker"} : pc'[s] # "allocate" /\ pc'[s] # "enqueue"
        <5>1. \A s \in {"main", "worker"} : pc[s] = "enqueue" => pointer[s] = Null /\ pointer[s] # Null
          BY <4>1, <4>3 DEF NotRaced, IndInv, Pointers
        <5>. QED
          BY <1>0, <2>2, <4>3, <5>1
      <4>. QED
        BY <4>4 DEF NotRaced
    <3>. QED
      BY <3>1, <3>2
  <2>. QED
    BY <2>3, <2>4
<1>4. CASE TestQueueAgain(t)
  <2>1. /\ queue' = queue /\ pointer' = pointer /\ raced' = raced /\ pc[t] = "test queue again"
        /\ pc' = [pc EXCEPT ![t] = IF queue[QueueOf(t)] = Null THEN "test wsi again" ELSE "get queue"]
    BY <1>4 DEF TestQueueAgain
  <2>2. /\ pc'[t] = IF queue[QueueOf(t)] = Null THEN "test wsi again" ELSE "get queue"
        /\ \A s \in Threads \ {t} : pc'[s] = pc[s]
    BY <1>0, <2>1
  <2>3. OpenPointers'
    BY <1>0, <2>1, <2>2 DEF OpenPointers, QueueOf
  <2>4. NotRaced'
    BY <1>0, <2>1, <2>2 DEF NotRaced
  <2>. QED
    BY <2>3, <2>4
<1>5. CASE GetQueue(t)
  <2>1. /\ queue' = queue /\ raced' = raced /\ pc[t] = "get queue"
        /\ pointer' = [pointer EXCEPT ![t] = queue[QueueOf(t)]]
        /\ pc' = [pc EXCEPT ![t] = "enqueue"]
    BY <1>5 DEF GetQueue
  <2>2. /\ pc'[t] = "enqueue" /\ pointer'[t] = queue[QueueOf(t)]
        /\ \A s \in Threads \ {t} : pc'[s] = pc[s] /\ pointer'[s] = pointer[s]
    BY <1>0, <2>1
  <2>3. OpenPointers'
    <3>1. CASE t = "slow"
      BY <1>0, <2>1, <2>2, <3>1 DEF OpenPointers, QueueOf
    <3>2. CASE t # "slow"
      <4>1. queue["fast"] # queue["slow"]
        BY <1>0, <2>1, <3>2 DEF IndInv, Pointers
      <4>. QED
        BY <1>0, <2>1, <2>2, <3>2, <4>1 DEF OpenPointers, QueueOf
    <3>. QED
      BY <3>1, <3>2
  <2>4. NotRaced'
    BY <1>0, <2>1, <2>2 DEF NotRaced, QueueOf
  <2>. QED
    BY <2>3, <2>4
<1>. QED
  BY <1>1, <1>2, <1>3, <1>4, <1>5 DEF SendStep

LEMMA PointersStep ==
    ASSUME IndInv, AddressesLeft, OpenPointers, NotRaced, Next
    PROVE  OpenPointers' /\ NotRaced'
<1>. USE DEF Goto, At, client_vars, main_vars, memory_vars, send_vars
<1>0. /\ pc \in [Threads -> SendLabels \cup WriteLabels \cup ClearLabels]
      /\ "main" \in Threads /\ "worker" \in Threads /\ "slow" \in Threads
  BY DEF IndInv, Typed, Threads
<1>1. CASE \E t \in Threads : SendStep(t)
  BY <1>1, PointersSend
<1>2. CASE Established
  <2>1. pc' = [pc EXCEPT !["main"] = "test wsi"] /\ \A t \in Threads : pc[t] = "idle"
    BY <1>2 DEF Established, BeginSend, IndInv, Phases
  <2>2. \A t \in Threads : pc'[t] \notin Holding
    BY <1>0, <2>1 DEF Holding
  <2>. QED
    BY <1>0, <2>2 DEF OpenPointers, NotRaced, Holding
<1>3. CASE Clear
  <2>1. wsi' = wsi
    BY <1>3 DEF Clear, ClearMessages, ForgetQueue
  <2>2. wsi # "open"
    BY <1>3, WhileOpen
  <2>. QED
    BY <2>1, <2>2 DEF OpenPointers, NotRaced
<1>4. CASE \/ Closed \/ Writeable \/ GetSlow \/ NoMessageLeft \/ Write \/ More
           \/ WorkerSends \/ SlowSends \/ Disconnect \/ CloseConnection
  <2>1. queue' = queue /\ pointer' = pointer /\ raced' = raced
    BY <1>4 DEF WorkerSends, SlowSends, Closed, Close, Writeable, GetSlow, NoMessageLeft, Write, More,
                Disconnect, CloseConnection
  <2>2. wsi' = "open" => wsi = "open"
    BY <1>4 DEF WorkerSends, SlowSends, Closed, Close, Writeable, GetSlow, NoMessageLeft, Write, More,
                Disconnect, CloseConnection
  <2>3. pc' = pc \/ \E t \in Threads :
           \E label \in WriteLabels \cup ClearLabels \cup {"idle", "test wsi", "test wsi again"} :
              pc' = [pc EXCEPT ![t] = label]
    BY <1>0, <1>4 DEF WorkerSends, SlowSends, BeginSend, Closed, Close, Writeable, GetSlow, TakeFromQueue, NoMessageLeft,
                Write, More, Disconnect, CloseConnection, WriteLabels, ClearLabels
  <2>4. \A t \in Threads : pc'[t] \in Holding => pc'[t] = pc[t] /\ pointer'[t] = pointer[t]
    BY <1>0, <2>1, <2>3 DEF Holding, WriteLabels, ClearLabels
  <2>. QED
    BY <2>1, <2>2, <2>4, PointersKept
<1>. QED
  BY <1>0, <1>1, <1>2, <1>3, <1>4 DEF Next, MainStep

-----------------------------------------------------------------------------
(* The order of the messages, and that none is lost.                       *)

LEMMA AppendFacts ==
    ASSUME NEW s \in Seq(Messages), NEW m \in Messages
    PROVE  /\ Range(Append(s, m)) = Range(s) \cup {m} /\ Range(s) \subseteq Messages
           /\ Ordered(s) /\ (\A n \in Range(s) : Older(n, m)) => Ordered(Append(s, m))
<1>1. /\ Append(s, m) \in Seq(Messages) /\ Len(s) \in Nat
      /\ Len(Append(s, m)) = Len(s) + 1
      /\ Append(s, m)[Len(s) + 1] = m
      /\ \A i \in 1 .. Len(s) : Append(s, m)[i] = s[i]
      /\ DOMAIN s = 1 .. Len(s) /\ DOMAIN Append(s, m) = 1 .. Len(s) + 1
  BY AppendProperties, LenProperties
<1>2. \A i \in 1 .. Len(s) + 1 : i = Len(s) + 1 \/ i \in 1 .. Len(s)
  BY <1>1
<1>3. Len(s) + 1 \in 1 .. Len(s) + 1 /\ \A i \in 1 .. Len(s) : i \in 1 .. Len(s) + 1
  BY <1>1
<1>4. Range(Append(s, m)) = Range(s) \cup {m}
  BY <1>1, <1>2, <1>3 DEF Range
<1>5. Range(s) \subseteq Messages
  BY <1>1, ElementOfSeq DEF Range
<1>6. ASSUME Ordered(s), \A n \in Range(s) : Older(n, m) PROVE Ordered(Append(s, m))
  <2>1. SUFFICES ASSUME NEW i \in 1 .. Len(s) + 1, NEW j \in 1 .. Len(s) + 1, i < j
                 PROVE  Older(Append(s, m)[i], Append(s, m)[j])
    BY <1>1 DEF Ordered
  <2>2. i \in 1 .. Len(s)
    BY <1>1, <2>1
  <2>3. Append(s, m)[i] = s[i] /\ s[i] \in Range(s)
    BY <1>1, <2>2 DEF Range
  <2>4. CASE j = Len(s) + 1
    BY <1>1, <1>6, <2>3, <2>4
  <2>5. CASE j \in 1 .. Len(s)
    BY <1>1, <1>6, <2>1, <2>2, <2>3, <2>5 DEF Ordered
  <2>. QED
    BY <1>2, <2>4, <2>5
<1>. QED
  BY <1>4, <1>5, <1>6

LEMMA TailFacts ==
    ASSUME NEW s \in Seq(Messages), s # << >>
    PROVE  /\ Range(s) = Range(Tail(s)) \cup {Head(s)}
           /\ Ordered(s) => Ordered(Tail(s)) /\ \A n \in Range(Tail(s)) : Older(Head(s), n)
<1>1. /\ Tail(s) \in Seq(Messages) /\ Len(s) \in Nat /\ Len(s) # 0
      /\ Head(s) = s[1]
      /\ Len(Tail(s)) = Len(s) - 1
      /\ \A i \in 1 .. Len(Tail(s)) : Tail(s)[i] = s[i + 1]
      /\ DOMAIN s = 1 .. Len(s) /\ DOMAIN Tail(s) = 1 .. Len(Tail(s))
  BY HeadTailProperties, LenProperties, EmptySeq
<1>2. \A i \in 1 .. Len(Tail(s)) : i + 1 \in 1 .. Len(s) /\ 1 < i + 1
  BY <1>1
<1>3. 1 \in 1 .. Len(s) /\ \A i \in 1 .. Len(s) : i = 1 \/ (i - 1 \in 1 .. Len(Tail(s)) /\ (i - 1) + 1 = i)
  BY <1>1
<1>4. Range(s) = Range(Tail(s)) \cup {Head(s)}
  <2>1. ASSUME NEW i \in 1 .. Len(s) PROVE s[i] \in Range(Tail(s)) \cup {Head(s)}
    <3>1. CASE i = 1
      BY <1>1, <3>1
    <3>2. CASE i - 1 \in 1 .. Len(Tail(s)) /\ (i - 1) + 1 = i
      <4>1. Tail(s)[i - 1] = s[i]
        BY <1>1, <3>2
      <4>. QED
        BY <1>1, <3>2, <4>1 DEF Range
    <3>. QED
      BY <1>3, <3>1, <3>2
  <2>. QED
    BY <1>1, <1>2, <1>3, <2>1 DEF Range
<1>5. ASSUME Ordered(s) PROVE Ordered(Tail(s))
  <2>1. ASSUME NEW i \in 1 .. Len(Tail(s)), NEW j \in 1 .. Len(Tail(s)), i < j
        PROVE  Older(Tail(s)[i], Tail(s)[j])
    <3>1. i + 1 < j + 1
      BY <1>1, <2>1
    <3>2. Older(s[i + 1], s[j + 1])
      BY <1>2, <1>5, <3>1 DEF Ordered
    <3>. QED
      BY <1>1, <3>2
  <2>. QED
    BY <2>1 DEF Ordered
<1>6. ASSUME Ordered(s), NEW n \in Range(Tail(s)) PROVE Older(Head(s), n)
  <2>1. PICK i \in 1 .. Len(Tail(s)) : n = s[i + 1]
    BY <1>1 DEF Range
  <2>2. Older(s[1], s[i + 1])
    BY <1>2, <1>3, <1>6 DEF Ordered
  <2>. QED
    BY <1>1, <2>1, <2>2
<1>. QED
  BY <1>4, <1>5, <1>6

(* What a thread has queued does not get less.                             *)
LEMMA LastQueuedGrows ==
    ASSUME IndInv, Counted, Counted', IndInv', Next
    PROVE  /\ LastQueued \in [Threads -> Nat] /\ LastQueued' \in [Threads -> Nat]
           /\ \A t \in Threads : LastQueued[t] <= LastQueued'[t]
<1>. USE DEF Goto, At, client_vars, main_vars, memory_vars, send_vars
<1>0. /\ pc \in [Threads -> SendLabels \cup WriteLabels \cup ClearLabels]
      /\ count \in [Threads -> Nat] /\ count' \in [Threads -> Nat]
      /\ "main" \in Threads /\ "worker" \in Threads /\ "slow" \in Threads
  BY DEF IndInv, Typed, Counted, Threads
<1>1. LastQueued \in [Threads -> Nat] /\ LastQueued' \in [Threads -> Nat]
  <2>1. (IndInv /\ Counted => LastQueued \in [Threads -> Nat])'
    BY CountTypes, PTL
  <2>. QED
    BY <2>1, CountTypes
<1>2. \/ \A t \in Threads : count'[t] = count[t] /\ (pc'[t] \in Sending => pc[t] \in Sending)
      \/ \E s \in Threads :
            /\ pc[s] = "idle" /\ pc'[s] = "test wsi" /\ count'[s] = count[s] + 1
            /\ \A t \in Threads \ {s} : count'[t] = count[t] /\ pc'[t] = pc[t]
  <2>1. CASE Established \/ WorkerSends \/ SlowSends
    <3>1. PICK s \in Threads : /\ pc[s] = "idle" /\ pc' = [pc EXCEPT ![s] = "test wsi"]
                               /\ count' = [count EXCEPT ![s] = count[s] + 1]
      BY <1>0, <2>1 DEF Established, WorkerSends, SlowSends, BeginSend, IndInv, Phases
    <3>. QED
      BY <1>0, <3>1
  <2>2. CASE \E t \in Threads : SendStep(t)
    <3>1. PICK t \in Threads : SendStep(t)
      BY <2>2
    <3>2. count' = count
      BY <3>1 DEF SendStep, TestWsi, TestQueue, Allocate, TestQueueAgain, GetQueue, Enqueue, TestWsiAgain, Request
    <3>3. PICK label : /\ pc' = [pc EXCEPT ![t] = label]
                       /\ label \in Sending => pc[t] \in Sending
      <4>1. CASE pc[t] \in Sending
        BY <3>1, <4>1 DEF SendStep, TestWsi, TestQueue, Allocate, TestQueueAgain, GetQueue,
                  Enqueue, TestWsiAgain, Request
      <4>2. CASE pc[t] \notin Sending
        BY <3>1, <4>2 DEF SendStep, TestWsi, TestQueue, Allocate, TestQueueAgain, GetQueue,
                  Enqueue, TestWsiAgain, Request, Sending
      <4>. QED
        BY <4>1, <4>2
    <3>. QED
      BY <1>0, <3>2, <3>3
  <2>3. CASE \/ Closed \/ Writeable \/ GetSlow \/ NoMessageLeft \/ Write \/ More
             \/ Disconnect \/ CloseConnection \/ Clear
    <3>1. count' = count
      BY <2>3 DEF Closed, Writeable, GetSlow, NoMessageLeft, Write, More, Disconnect,
                  CloseConnection, Clear, ClearMessages, ForgetQueue
    <3>2. pc' = pc \/ \E t \in Threads :
             \E label \in WriteLabels \cup ClearLabels \cup {"idle", "test wsi again"} :
                pc' = [pc EXCEPT ![t] = label]
      BY <1>0, <2>3 DEF Closed, Close, Writeable, GetSlow, TakeFromQueue, NoMessageLeft, Write, More, Disconnect,
                  CloseConnection, Clear, ClearMessages, ForgetQueue, WriteLabels, ClearLabels
    <3>3. \A s \in Threads : pc'[s] \in Sending => pc[s] \in Sending
      BY <1>0, <3>2 DEF Sending, WriteLabels, ClearLabels
    <3>. QED
      BY <3>1, <3>3
  <2>. QED
    BY <1>0, <2>1, <2>2, <2>3 DEF Next, MainStep
<1>3. ASSUME NEW t \in Threads PROVE LastQueued[t] <= LastQueued'[t]
  <2>1. /\ LastQueued[t] = IF pc[t] \in Sending THEN count[t] - 1 ELSE count[t]
        /\ LastQueued'[t] = IF pc'[t] \in Sending THEN count'[t] - 1 ELSE count'[t]
    BY DEF LastQueued
  <2>2. /\ count[t] \in Nat
        /\ \/ count'[t] = count[t] /\ (pc'[t] \in Sending => pc[t] \in Sending)
           \/ pc[t] \notin Sending /\ count'[t] = count[t] + 1
    <3>1. "idle" \notin Sending
      BY DEF Sending
    <3>. QED
      BY <1>0, <1>2, <3>1
  <2>3. \A c \in Nat : c <= c /\ c - 1 <= c /\ c - 1 <= c - 1 /\ c <= c + 1 /\ c <= (c + 1) - 1
    OBVIOUS
  <2>. QED
    BY <2>1, <2>2, <2>3
<1>. QED
  BY <1>1, <1>3

Grows ==
    /\ LastQueued \in [Threads -> Nat] /\ LastQueued' \in [Threads -> Nat]
    /\ \A t \in Threads : LastQueued[t] <= LastQueued'[t]

LEMMA SentKept ==
    ASSUME Grows, NEW m \in Messages, Sent(m)
    PROVE  m[2] <= LastQueued'[m[1]]
<1>1. m[1] \in Threads /\ m[2] \in Nat
  BY MessageFacts
<1>2. LastQueued[m[1]] \in Nat /\ LastQueued'[m[1]] \in Nat /\ LastQueued[m[1]] <= LastQueued'[m[1]]
  BY <1>1 DEF Grows
<1>3. m[2] <= LastQueued[m[1]]
  BY DEF Sent
<1>. QED
  BY <1>1, <1>2, <1>3

LEMMA InQueues ==
    ASSUME IndInv, Counted, AddressesLeft, Contents
    PROVE  /\ Range(written) \subseteq Messages
           /\ \A q \in Queues : queue[q] # Null =>
                 heap[queue[q]] \in Seq(Messages) /\ Range(heap[queue[q]]) \subseteq Messages
           /\ pc["main"] = "write" => next_message \in Messages
<1>1. \A s \in Seq(Messages) : Range(s) \subseteq Messages
  BY ElementOfSeq, LenProperties DEF Range
<1>2. \A q \in Queues : queue[q] # Null => heap[queue[q]] \in Seq(Messages)
  BY AddressInUse DEF Contents
<1>. QED
  BY <1>1, <1>2 DEF Contents

(* A step that moves no message.                                           *)
LEMMA FlowKept ==
    ASSUME IndInv, Counted, AddressesLeft, Contents, Flow, Grows,
           written' = written, next_message' = next_message,
           pc'["main"] = "write" <=> pc["main"] = "write",
           wsi' # "none",
           wsi' = "open" => /\ wsi = "open" /\ queue' = queue /\ heap' = heap
                            /\ deleted' = deleted /\ queued' = queued /\ (raced => raced')
    PROVE  Flow'
<1>1. \A m \in Messages : Sent(m) => m[2] <= LastQueued'[m[1]]
  BY SentKept
<1>2. /\ Ordered(written)
      /\ \A m \in Range(written) : m[2] <= LastQueued'[m[1]]
      /\ pc["main"] = "write" =>
            /\ next_message[2] <= LastQueued'[next_message[1]]
            /\ \A m \in Range(written) : Older(m, next_message)
      /\ wsi = "open" => \A q \in Queues : queue[q] # Null =>
            /\ Ordered(heap[queue[q]])
            /\ \A m \in Range(heap[queue[q]]) :
                  /\ QueueOf(m[1]) = q
                  /\ m[2] <= LastQueued'[m[1]]
                  /\ \A n \in Range(written) : Older(n, m)
                  /\ pc["main"] = "write" => Older(next_message, m)
  BY <1>1, InQueues DEF Flow, InOrder
<1>3. InOrder'
  BY <1>2 DEF InOrder, Ordered, Older, Sent
<1>4. LostOnlyByRace'
  BY DEF Flow, LostOnlyByRace, Waiting, Valid
<1>5. NothingYet'
  BY DEF NothingYet
<1>. QED
  BY <1>3, <1>4, <1>5 DEF Flow

(* Before the connection only Established can happen.                      *)
LEMMA FirstStep ==
    ASSUME IndInv, Next
    PROVE  /\ wsi = "none" => Established
           /\ wsi' # "none"
<1>1. wsi = "none" => Established
  <2>1. SUFFICES ASSUME wsi = "none", ~Established PROVE FALSE
    OBVIOUS
  <2>2. /\ ~chatclients /\ ~close_task /\ \A t \in Threads : pc[t] = "idle"
        /\ "main" \in Threads /\ "worker" \in Threads /\ "slow" \in Threads
    BY <2>1 DEF IndInv, Phases, Threads
  <2>3. \A t \in Threads : ~SendStep(t)
    BY <2>2 DEF SendStep, TestWsi, TestQueue, Allocate, TestQueueAgain, GetQueue, Enqueue, TestWsiAgain, Request, At
  <2>. QED
    BY <2>1, <2>2, <2>3 DEF Next, MainStep, Closed, Writeable, GetSlow, NoMessageLeft, Write, More, WorkerSends, SlowSends,
         Disconnect, CloseConnection, Clear, ClearMessages, ForgetQueue, At
<1>2. Established => wsi' # "none"
  BY DEF Established
<1>3. wsi # "none" => wsi' # "none"
  BY DEF Next, MainStep, SendStep, Established, WorkerSends, SlowSends, Closed, Close, Writeable, GetSlow,
         NoMessageLeft, Write, More, Disconnect, CloseConnection, Clear, ClearMessages, ForgetQueue,
         TestWsi, TestQueue, Allocate, TestQueueAgain, GetQueue, Enqueue, TestWsiAgain, Request,
         client_vars, send_vars
<1>. QED
  BY <1>1, <1>2, <1>3

LEMMA FlowEstablished ==
    ASSUME IndInv, Counted, AddressesLeft, Contents, Flow, Grows, Established
    PROVE  Flow'
<1>1. /\ queued = {} /\ written = << >> /\ \A q \in Queues : queue[q] = Null
      /\ queued' = queued /\ written' = written /\ queue' = queue
      /\ pc' = [pc EXCEPT !["main"] = "test wsi"] /\ wsi' = "open"
  BY DEF Flow, NothingYet, Established, BeginSend, Goto, main_vars
<1>2. pc'["main"] # "write"
  BY <1>1 DEF IndInv, Typed, Threads
<1>3. written' = << >> /\ \A q \in Queues : queue'[q] = Null
  BY <1>1
<1>4. InOrder'
  BY <1>2, <1>3 DEF InOrder, Ordered, Older, Range
<1>5. LostOnlyByRace' /\ NothingYet'
  BY <1>1 DEF LostOnlyByRace, NothingYet
<1>. QED
  BY <1>4, <1>5 DEF Flow

(* There is an address for the queue, and nothing in it.                   *)
LEMMA AllocateAddress ==
    ASSUME IndInv, Counted, AddressesLeft, Contents, NEW t \in Threads, pc[t] = "allocate"
    PROVE  next_address \in Addresses /\ heap[next_address] = << >>
<1>1. /\ SlowAllocations \in Nat /\ SlowAllocations <= MaxSlow /\ MaxSlow \in Nat
      /\ next_address \in Nat /\ next_address # 0
      /\ Allocating("main") \in Nat /\ Allocating("worker") \in Nat
      /\ next_address + Allocating("main") + Allocating("worker") <= 3 + SlowAllocations
  BY CountTypes DEF IndInv, Typed, Allocating, AddressesLeft
<1>2. next_address <= 2 + MaxSlow
  <2>1. CASE t = "slow"
    <3>1. SlowAllocations = count["slow"] - 1 /\ count["slow"] \in Nat /\ count["slow"] <= MaxSlow
      BY <2>1 DEF SlowAllocations, Counted
    <3>2. SlowAllocations + 1 <= MaxSlow
      BY <1>1, <3>1
    <3>. QED
      BY <1>1, <3>2
  <2>2. CASE t # "slow"
    <3>1. Allocating("main") = 1 \/ Allocating("worker") = 1
      BY <2>2 DEF Allocating, Threads
    <3>2. next_address + 1 <= 3 + SlowAllocations
      BY <1>1, <3>1
    <3>. QED
      BY <1>1, <3>2
  <2>. QED
    BY <2>1, <2>2
<1>3. next_address \in Addresses
  BY <1>1, <1>2 DEF Addresses
<1>4. next_address >= next_address
  BY <1>1
<1>. QED
  BY <1>3, <1>4 DEF Contents

(* What will wait in a queue.                                              *)
LEMMA WaitingNext ==
    ASSUME deleted' = deleted, NEW q
    PROVE  Waiting(q)' = IF queue'[q] # Null /\ queue'[q] \notin deleted THEN Range(heap'[queue'[q]]) ELSE {}
BY DEF Waiting, Valid

(* A new queue is empty; unless two threads raced there was none before.   *)
LEMMA FlowAllocate ==
    ASSUME IndInv, Counted, AddressesLeft, Contents, OpenPointers, NotRaced, Flow, Grows,
           wsi' # "none", NEW t \in Threads, Allocate(t)
    PROVE  Flow'
<1>. DEFINE p == QueueOf(t)
<1>1. /\ pc[t] = "allocate" /\ pc' = [pc EXCEPT ![t] = "test queue again"]
      /\ queue' = [queue EXCEPT ![p] = next_address]
      /\ wsi' = wsi /\ heap' = heap /\ written' = written /\ next_message' = next_message
      /\ queued' = queued /\ deleted' = deleted /\ raced' = raced
  BY DEF Allocate, At, Goto, client_vars, main_vars
<1>2. p \in Queues /\ "fast" \in Queues /\ "slow" \in Queues
  BY DEF QueueOf, Queues
<1>3. queue'[p] = next_address /\ \A q \in Queues \ {p} : queue'[q] = queue[q]
  BY <1>1, <1>2 DEF IndInv, Typed
<1>4. heap'[queue'[p]] = << >>
  BY <1>1, <1>3, AllocateAddress
<1>5. pc'["main"] = "write" <=> pc["main"] = "write"
  BY <1>1 DEF IndInv, Typed, Threads
<1>6. \A m \in Messages : Sent(m) => m[2] <= LastQueued'[m[1]]
  BY SentKept
<1>7. /\ Ordered(written)
      /\ \A m \in Range(written) : m[2] <= LastQueued'[m[1]]
      /\ pc["main"] = "write" =>
            /\ next_message[2] <= LastQueued'[next_message[1]]
            /\ \A m \in Range(written) : Older(m, next_message)
  BY <1>6, InQueues DEF Flow, InOrder
<1>8. ASSUME wsi = "open", NEW q \in Queues, queue'[q] # Null
      PROVE  /\ Ordered(heap'[queue'[q]])
             /\ \A m \in Range(heap'[queue'[q]]) :
                   /\ QueueOf(m[1]) = q
                   /\ m[2] <= LastQueued'[m[1]]
                   /\ \A n \in Range(written) : Older(n, m)
                   /\ pc["main"] = "write" => Older(next_message, m)
  <2>1. CASE q = p
    <3>1. Ordered(<< >>) /\ Range(<< >>) = {}
      BY DEF Ordered, Range
    <3>. QED
      BY <1>4, <2>1, <3>1
  <2>2. CASE q # p
    <3>1. queue'[q] = queue[q] /\ queue[q] # Null
      BY <1>3, <1>8, <2>2
    <3>. QED
      BY <1>1, <1>6, <1>8, <3>1, InQueues DEF Flow, InOrder
  <2>. QED
    BY <2>1, <2>2
<1>9. InOrder'
  BY <1>1, <1>5, <1>7, <1>8 DEF InOrder, Ordered, Older, Sent
<1>10. LostOnlyByRace'
  <2>1. SUFFICES ASSUME wsi = "open", ~raced PROVE LostOnlyByRace'
    BY <1>1 DEF LostOnlyByRace
  <2>2. queue[p] = Null
    BY <1>1, <2>1 DEF OpenPointers, NotRaced, QueueOf, Threads
  <2>3. Waiting(p) = {}
    BY <2>2 DEF Waiting, Valid
  <2>4. \A q \in Queues \ {p} : Waiting(q) = IF Valid(queue'[q]) THEN Range(heap'[queue'[q]]) ELSE {}
    BY <1>1, <1>3 DEF Waiting
  <2>5. queued \subseteq Range(written) \cup {next_message} \cup Waiting("fast") \cup Waiting("slow")
    BY <2>1 DEF Flow, LostOnlyByRace
  <2>6. Waiting("fast")' = IF Valid(queue'["fast"]) THEN Range(heap'[queue'["fast"]]) ELSE {}
    BY <1>1, WaitingNext DEF Valid
  <2>7. Waiting("slow")' = IF Valid(queue'["slow"]) THEN Range(heap'[queue'["slow"]]) ELSE {}
    BY <1>1, WaitingNext DEF Valid
  <2>8. p = "fast" \/ p = "slow"
    BY DEF QueueOf
  <2>9. queued \subseteq Range(written) \cup {next_message} \cup Waiting("fast")' \cup Waiting("slow")'
    BY <1>2, <2>3, <2>4, <2>5, <2>6, <2>7, <2>8
  <2>. QED
    BY <1>1, <2>9 DEF LostOnlyByRace
<1>11. NothingYet'
  BY DEF NothingYet
<1>. QED
  BY <1>9, <1>10, <1>11 DEF Flow

LEMMA FlowEnqueue ==
    ASSUME IndInv, Counted, AddressesLeft, Contents, OpenPointers, NotRaced, Flow, Grows,
           wsi' # "none", NEW t \in Threads, Enqueue(t)
    PROVE  Flow'
<1>. DEFINE m == <<t, count[t]>>  a == pointer[t]  p == QueueOf(t)
<1>1. /\ pc[t] = "enqueue" /\ pc' = [pc EXCEPT ![t] = "test wsi again"]
      /\ heap' = IF Valid(a) THEN [heap EXCEPT ![a] = Append(heap[a], m)] ELSE heap
      /\ queued' = queued \cup {m}
      /\ queue' = queue /\ count' = count
      /\ wsi' = wsi /\ written' = written /\ next_message' = next_message
      /\ deleted' = deleted /\ raced' = raced
  BY DEF Enqueue, At, Goto, client_vars, main_vars
<1>2. m \in Messages
  BY <1>1, MessageBegun
<1>3. pc'["main"] = "write" <=> pc["main"] = "write"
  BY <1>1 DEF IndInv, Typed, Threads
<1>4. CASE wsi # "open"
  BY <1>1, <1>3, <1>4, FlowKept
<1>5. CASE wsi = "open"
  <2>1. a # Null /\ a \in Addresses /\ Valid(a)
    <3>1. a # Null
      BY <1>1, <1>5 DEF OpenPointers, IndInv, Pointers, Threads
    <3>2. a \in Nat /\ a < next_address
      BY <1>1 DEF AddressesLeft, IndInv, Typed
    <3>. QED
      BY <1>5, <3>1, <3>2, AddressInUse, WhileOpen DEF Valid
  <2>2. heap[a] \in Seq(Messages) /\ heap \in [Addresses -> Seq(Messages)]
    BY <2>1 DEF Contents
  <2>3. heap'[a] = Append(heap[a], m) /\ \A b \in Addresses \ {a} : heap'[b] = heap[b]
    BY <1>1, <2>1, <2>2
  <2>4. \A q \in Queues : queue[q] # Null /\ queue[q] = a => q = p
    <3>1. t = "slow" => a = queue["slow"]
      BY <1>1, <1>5 DEF OpenPointers
    <3>2. t # "slow" => a # queue["slow"]
      BY <1>1, <1>5 DEF OpenPointers, Threads
    <3>. QED
      BY <3>1, <3>2 DEF IndInv, Pointers, QueueOf, Queues
  <2>5. \A n \in Messages : Sent(n) => n[2] <= LastQueued'[n[1]]
    BY SentKept
  <2>6. m[2] <= LastQueued'[m[1]]
    <3>1. pc'[t] = "test wsi again" /\ count'[t] = count[t] /\ count[t] \in Nat
      BY <1>1 DEF IndInv, Typed, Counted
    <3>2. LastQueued'[t] = count[t]
      BY <3>1 DEF LastQueued, Sending
    <3>. QED
      BY <3>1, <3>2, OneMore
  <2>7. ASSUME NEW n \in Messages, Sent(n) PROVE Older(n, m)
    <3>1. LastQueued[t] = count[t] - 1 /\ count[t] \in Nat
      BY <1>1 DEF LastQueued, Sending, Counted
    <3>2. n[1] = t => n[2] \in Nat /\ n[2] <= count[t] - 1
      BY <2>7, <3>1, MessageFacts DEF Sent
    <3>3. \A c, k \in Nat : k <= c - 1 => k < c
      OBVIOUS
    <3>. QED
      BY <3>1, <3>2, <3>3 DEF Older
  <2>8. /\ Ordered(written)
        /\ \A n \in Range(written) : n[2] <= LastQueued'[n[1]] /\ Older(n, m)
        /\ pc["main"] = "write" =>
              /\ next_message[2] <= LastQueued'[next_message[1]] /\ Older(next_message, m)
              /\ \A n \in Range(written) : Older(n, next_message)
    BY <2>5, <2>7, InQueues DEF Flow, InOrder
  <2>9. ASSUME NEW q \in Queues, queue[q] # Null
        PROVE  /\ Ordered(heap'[queue[q]])
               /\ \A n \in Range(heap'[queue[q]]) :
                     /\ QueueOf(n[1]) = q
                     /\ n[2] <= LastQueued'[n[1]]
                     /\ \A k \in Range(written) : Older(k, n)
                     /\ pc["main"] = "write" => Older(next_message, n)
    <3>1. queue[q] \in Addresses /\ heap[queue[q]] \in Seq(Messages) /\ Range(heap[queue[q]]) \subseteq Messages
      BY <2>9, AddressInUse, InQueues
    <3>2. /\ Ordered(heap[queue[q]])
          /\ \A n \in Range(heap[queue[q]]) :
                     /\ QueueOf(n[1]) = q /\ Sent(n)
                     /\ n[2] <= LastQueued'[n[1]]
                     /\ \A k \in Range(written) : Older(k, n)
                     /\ pc["main"] = "write" => Older(next_message, n)
      BY <1>5, <2>5, <2>9, <3>1 DEF Flow, InOrder
    <3>3. CASE queue[q] # a
      BY <2>3, <3>1, <3>2, <3>3
    <3>4. CASE queue[q] = a
      <4>1. q = p
        BY <2>4, <2>9, <3>4
      <4>2. Range(Append(heap[a], m)) = Range(heap[a]) \cup {m} /\ Ordered(Append(heap[a], m))
        <5>1. \A n \in Range(heap[a]) : Older(n, m)
          BY <2>7, <3>1, <3>2, <3>4
        <5>. QED
          BY <1>2, <2>2, <3>2, <3>4, <5>1, AppendFacts
      <4>3. QueueOf(m[1]) = q
        BY <4>1
      <4>. QED
        BY <2>3, <2>6, <2>8, <3>2, <3>4, <4>2, <4>3
    <3>. QED
      BY <3>3, <3>4
  <2>10. InOrder'
    <3>1. queue' = queue /\ written' = written /\ next_message' = next_message
      BY <1>1
    <3>2. /\ Ordered(written)
          /\ \A n \in Range(written) : n[2] <= LastQueued'[n[1]]
          /\ pc["main"] = "write" =>
              /\ next_message[2] <= LastQueued'[next_message[1]]
              /\ \A n \in Range(written) : Older(n, next_message)
      BY <2>8
    <3>. HIDE DEF m, a, p
    <3>. QED
      BY <1>3, <2>9, <3>1, <3>2 DEF InOrder, Ordered, Older, Sent
  <2>11. LostOnlyByRace'
    <3>1. SUFFICES ASSUME ~raced PROVE LostOnlyByRace'
      BY <1>1 DEF LostOnlyByRace
    <3>2. a = queue[p] /\ p \in Queues
      BY <1>1, <1>5, <3>1 DEF OpenPointers, NotRaced, QueueOf, Queues, Threads
    <3>3. Range(Append(heap[a], m)) = Range(heap[a]) \cup {m}
      BY <1>2, <2>2, AppendFacts
    <3>4. ASSUME NEW q \in Queues
          PROVE  /\ Waiting(q) \subseteq IF Valid(queue[q]) THEN Range(heap'[queue[q]]) ELSE {}
                 /\ q = p => m \in IF Valid(queue[q]) THEN Range(heap'[queue[q]]) ELSE {}
      <4>1. CASE queue[q] = a
        BY <2>1, <2>3, <3>3, <4>1 DEF Waiting
      <4>2. CASE queue[q] # a
        <5>1. Valid(queue[q]) => queue[q] \in Addresses
          BY AddressInUse DEF Valid
        <5>2. Valid(queue[q]) => heap'[queue[q]] = heap[queue[q]]
          BY <2>3, <4>2, <5>1
        <5>. QED
          BY <3>2, <4>2, <5>2 DEF Waiting
      <4>. QED
        BY <4>1, <4>2
    <3>5. queued \subseteq Range(written) \cup {next_message} \cup Waiting("fast") \cup Waiting("slow")
      BY <1>5, <3>1 DEF Flow, LostOnlyByRace
    <3>6. /\ Waiting("fast")' = (IF Valid(queue["fast"]) THEN Range(heap'[queue["fast"]]) ELSE {})
          /\ Waiting("slow")' = (IF Valid(queue["slow"]) THEN Range(heap'[queue["slow"]]) ELSE {})
      BY <1>1, WaitingNext DEF Valid
    <3>7. p = "fast" \/ p = "slow"
      BY DEF QueueOf
    <3>8. "fast" \in Queues /\ "slow" \in Queues
      BY DEF Queues
    <3>9. queued \cup {m} \subseteq Range(written) \cup {next_message} \cup Waiting("fast")' \cup Waiting("slow")'
      BY <3>4, <3>5, <3>6, <3>7, <3>8
    <3>. QED
      BY <1>1, <3>9 DEF LostOnlyByRace
  <2>12. NothingYet'
    BY DEF NothingYet
  <2>. QED
    BY <2>10, <2>11, <2>12 DEF Flow
<1>. QED
  BY <1>4, <1>5

(* The message at the front is the oldest of its thread that is waiting.   *)
LEMMA FlowTake ==
    ASSUME IndInv, Counted, AddressesLeft, Contents, Flow, Grows, wsi' # "none",
           NEW q \in Queues, NEW label, label # "write", TakeFromQueue(q, label),
           wsi = "open", pc["main"] # "write",
           wsi' = wsi, queue' = queue, deleted' = deleted, written' = written, queued' = queued, raced' = raced
    PROVE  Flow'
<1>0. /\ pc \in [Threads -> SendLabels \cup WriteLabels \cup ClearLabels] /\ "main" \in Threads
      /\ "fast" \in Queues /\ "slow" \in Queues
  BY DEF IndInv, Typed, Threads, Queues
<1>1. CASE pc' = [pc EXCEPT !["main"] = label] /\ heap' = heap /\ next_message' = next_message
  <2>1. pc'["main"] # "write"
    BY <1>0, <1>1
  <2>. QED
    BY <1>1, <2>1, FlowKept
<1>2. CASE ~(pc' = [pc EXCEPT !["main"] = label] /\ heap' = heap /\ next_message' = next_message)
  <2>. DEFINE h == heap[queue[q]]
  <2>1. /\ queue[q] # Null /\ queue[q] \in Addresses /\ h # << >>
        /\ h \in Seq(Messages) /\ Tail(h) \in Seq(Messages)
        /\ heap' = [heap EXCEPT ![queue[q]] = Tail(h)]
        /\ next_message' = Head(h) /\ next_message' \in Messages
        /\ pc' = [pc EXCEPT !["main"] = "write"]
    BY <1>2, TakenFacts
  <2>2. pc'["main"] = "write"
    BY <1>0, <2>1
  <2>3. heap'[queue[q]] = Tail(h) /\ \A b \in Addresses \ {queue[q]} : heap'[b] = heap[b]
    BY <2>1 DEF Contents
  <2>4. \A m \in Messages : Sent(m) => m[2] <= LastQueued'[m[1]]
    BY SentKept
  <2>5. /\ Ordered(h)
        /\ \A m \in Range(h) : /\ QueueOf(m[1]) = q
                               /\ Sent(m) /\ m[2] <= LastQueued'[m[1]]
                               /\ \A n \in Range(written) : Older(n, m)
    BY <2>1, <2>4, InQueues DEF Flow, InOrder
  <2>6. /\ Range(h) = Range(Tail(h)) \cup {next_message'}
        /\ Ordered(Tail(h)) /\ \A n \in Range(Tail(h)) : Older(next_message', n)
    BY <2>1, <2>5, TailFacts
  <2>7. /\ QueueOf(next_message'[1]) = q
        /\ next_message'[2] <= LastQueued'[next_message'[1]]
        /\ \A n \in Range(written) : Older(n, next_message')
    BY <2>5, <2>6
  <2>8. ASSUME NEW r \in Queues, queue[r] # Null
        PROVE  /\ Ordered(heap'[queue[r]])
               /\ \A m \in Range(heap'[queue[r]]) :
                     /\ QueueOf(m[1]) = r
                     /\ m[2] <= LastQueued'[m[1]]
                     /\ \A n \in Range(written) : Older(n, m)
                     /\ Older(next_message', m)
    <3>1. CASE r = q
      BY <2>3, <2>5, <2>6, <3>1
    <3>2. CASE r # q
      <4>1. queue[r] # queue[q] /\ queue[r] \in Addresses
        BY <2>1, <2>8, <3>2, AddressInUse DEF IndInv, Pointers, Queues
      <4>2. heap'[queue[r]] = heap[queue[r]]
        BY <2>3, <4>1
      <4>3. /\ Ordered(heap[queue[r]])
            /\ \A m \in Range(heap[queue[r]]) :
                     /\ QueueOf(m[1]) = r
                     /\ m[2] <= LastQueued'[m[1]]
                     /\ \A n \in Range(written) : Older(n, m)
        BY <2>4, <2>8, InQueues DEF Flow, InOrder
      <4>4. \A m \in Range(heap[queue[r]]) : Older(next_message', m)
        BY <2>7, <3>2, <4>3 DEF Older
      <4>. QED
        BY <4>2, <4>3, <4>4
    <3>. QED
      BY <3>1, <3>2
  <2>9. InOrder'
    <3>1. /\ Ordered(written)
          /\ \A m \in Range(written) : m[2] <= LastQueued'[m[1]]
      BY <2>4, InQueues DEF Flow, InOrder
    <3>. HIDE DEF h
    <3>. QED
      BY <2>2, <2>7, <2>8, <3>1 DEF InOrder, Ordered, Older, Sent
  <2>10. LostOnlyByRace'
    <3>1. SUFFICES ASSUME ~raced PROVE LostOnlyByRace'
      BY DEF LostOnlyByRace
    <3>2. queued \subseteq Range(written) \cup {next_message} \cup Waiting("fast") \cup Waiting("slow")
      BY <3>1 DEF Flow, LostOnlyByRace
    <3>3. next_message \notin queued
      BY MessageFacts DEF Contents
    <3>4. ASSUME NEW r \in Queues
          PROVE  Waiting(r) \subseteq {next_message'} \cup IF Valid(queue[r]) THEN Range(heap'[queue[r]]) ELSE {}
      <4>1. CASE queue[r] = queue[q]
        BY <2>3, <2>6, <4>1 DEF Waiting
      <4>2. CASE queue[r] # queue[q]
        <5>1. Valid(queue[r]) => queue[r] \in Addresses
          BY AddressInUse DEF Valid
        <5>2. Valid(queue[r]) => heap'[queue[r]] = heap[queue[r]]
          BY <2>3, <4>2, <5>1
        <5>. QED
          BY <5>2 DEF Waiting
      <4>. QED
        BY <4>1, <4>2
    <3>5. /\ Waiting("fast")' = (IF Valid(queue["fast"]) THEN Range(heap'[queue["fast"]]) ELSE {})
          /\ Waiting("slow")' = (IF Valid(queue["slow"]) THEN Range(heap'[queue["slow"]]) ELSE {})
      BY WaitingNext DEF Valid
    <3>6. queued \subseteq Range(written) \cup {next_message'} \cup Waiting("fast")' \cup Waiting("slow")'
      BY <1>0, <3>2, <3>3, <3>4, <3>5
    <3>. QED
      BY <3>6 DEF LostOnlyByRace
  <2>11. NothingYet'
    BY DEF NothingYet
  <2>. QED
    BY <2>9, <2>10, <2>11 DEF Flow
<1>. QED
  BY <1>1, <1>2

LEMMA FlowWrite ==
    ASSUME IndInv, Counted, AddressesLeft, Contents, Flow, Grows, wsi' # "none", Write
    PROVE  Flow'
<1>1. /\ pc["main"] = "write" /\ pc' = [pc EXCEPT !["main"] = "more"]
      /\ written' = Append(written, next_message) /\ next_message' = NoMessage
      /\ wsi' = wsi /\ queue' = queue /\ heap' = heap /\ deleted' = deleted /\ queued' = queued /\ raced' = raced
  BY DEF Write, At, Goto, client_vars, send_vars, memory_vars
<1>2. pc'["main"] = "more"
  BY <1>1 DEF IndInv, Typed, Threads
<1>3. next_message \in Messages /\ written \in Seq(Messages) /\ Range(written) \subseteq Messages
  BY <1>1, InQueues DEF Contents
<1>4. \A m \in Messages : Sent(m) => m[2] <= LastQueued'[m[1]]
  BY SentKept
<1>5. Range(written') = Range(written) \cup {next_message}
  BY <1>1, <1>3, AppendFacts
<1>6. Ordered(written) /\ \A m \in Range(written) : Older(m, next_message)
  BY <1>1 DEF Flow, InOrder
<1>7. Ordered(Append(written, next_message))
  BY <1>3, <1>6, AppendFacts
<1>8. \A m \in Range(written') : m[2] <= LastQueued'[m[1]]
  <2>1. Sent(next_message) /\ \A m \in Range(written) : Sent(m)
    BY <1>1 DEF Flow, InOrder
  <2>. QED
    BY <1>3, <1>4, <1>5, <2>1
<1>9. ASSUME wsi = "open", NEW q \in Queues, queue[q] # Null
      PROVE  /\ Ordered(heap[queue[q]])
             /\ \A m \in Range(heap[queue[q]]) :
                   /\ QueueOf(m[1]) = q
                   /\ m[2] <= LastQueued'[m[1]]
                   /\ \A n \in Range(written') : Older(n, m)
  BY <1>1, <1>4, <1>5, <1>9, InQueues DEF Flow, InOrder
<1>10. InOrder'
  <2>1. Ordered(written')
    BY <1>1, <1>7
  <2>2. wsi' = wsi /\ queue' = queue /\ heap' = heap /\ pc'["main"] # "write"
    BY <1>1, <1>2
  <2>. QED
    BY <1>8, <1>9, <2>1, <2>2 DEF InOrder, Ordered, Older, Sent
<1>11. LostOnlyByRace'
  <2>1. wsi = "open" /\ ~raced =>
           queued \subseteq Range(written') \cup Waiting("fast") \cup Waiting("slow")
    BY <1>5 DEF Flow, LostOnlyByRace
  <2>2. /\ Waiting("fast")' = Waiting("fast") /\ Waiting("slow")' = Waiting("slow")
    BY <1>1 DEF Waiting, Valid
  <2>. QED
    BY <1>1, <2>1, <2>2 DEF LostOnlyByRace
<1>12. NothingYet'
  BY DEF NothingYet
<1>. QED
  BY <1>10, <1>11, <1>12 DEF Flow

LEMMA FlowStep ==
    ASSUME IndInv, IndInv', Counted, Counted', AddressesLeft, Contents, OpenPointers, NotRaced, Flow, Next
    PROVE  Flow'
<1>. USE DEF Goto, At, client_vars, main_vars, memory_vars, send_vars
<1>0. /\ pc \in [Threads -> SendLabels \cup WriteLabels \cup ClearLabels]
      /\ "main" \in Threads /\ "worker" \in Threads /\ "slow" \in Threads
      /\ "fast" \in Queues /\ "slow" \in Queues
  BY DEF IndInv, Typed, Threads, Queues
<1>1. Grows
  BY LastQueuedGrows DEF Grows
<1>2. wsi' # "none"
  BY FirstStep
<1>3. CASE Established
  BY <1>1, <1>3, FlowEstablished
<1>4. ASSUME NEW t \in Threads, SendStep(t) PROVE Flow'
  <2>1. CASE Allocate(t)
    BY <1>1, <1>2, <2>1, FlowAllocate
  <2>2. CASE Enqueue(t)
    BY <1>1, <1>2, <2>2, FlowEnqueue
  <2>3. CASE ~Allocate(t) /\ ~Enqueue(t)
    <3>1. /\ heap' = heap /\ written' = written /\ queued' = queued /\ next_message' = next_message
          /\ wsi' = wsi /\ queue' = queue /\ deleted' = deleted
      BY <1>4, <2>3 DEF SendStep, TestWsi, TestQueue, TestQueueAgain, GetQueue, TestWsiAgain, Request
    <3>4. raced => raced'
      <4>1. CASE TestQueue(t)
        BY <4>1 DEF TestQueue
      <4>2. CASE ~TestQueue(t)
        <5>1. raced' = raced
          BY <1>4, <2>3, <4>2 DEF SendStep, TestWsi, TestQueueAgain, GetQueue, TestWsiAgain, Request
        <5>. QED
          BY <5>1
      <4>. QED
        BY <4>1, <4>2
    <3>2. /\ pc[t] # "write"
          /\ \E label \in SendLabels : pc' = [pc EXCEPT ![t] = label]
      BY <1>4, <2>3 DEF SendStep, TestWsi, TestQueue, TestQueueAgain, GetQueue, TestWsiAgain, Request, SendLabels
    <3>3. pc'["main"] = "write" <=> pc["main"] = "write"
      BY <1>0, <3>2 DEF SendLabels
    <3>. QED
      BY <1>1, <1>2, <3>1, <3>3, <3>4, FlowKept
  <2>. QED
    BY <2>1, <2>2, <2>3
<1>5. CASE Writeable
  BY <1>0, <1>1, <1>2, <1>5, FlowTake DEF Writeable
<1>6. CASE GetSlow
  BY <1>0, <1>1, <1>2, <1>6, FlowTake DEF GetSlow, IndInv, Phases
<1>7. CASE Write
  BY <1>1, <1>2, <1>7, FlowWrite
<1>8. CASE Clear
  <2>1. /\ written' = written /\ next_message' = next_message /\ wsi' = wsi
        /\ \E label \in ClearLabels \cup {"idle"} : pc' = [pc EXCEPT !["worker"] = label]
    BY <1>8 DEF Clear, ClearMessages, ForgetQueue, ClearLabels
  <2>2. wsi # "open"
    BY <1>8, WhileOpen
  <2>3. pc'["main"] = pc["main"]
    BY <1>0, <2>1
  <2>. QED
    BY <1>1, <1>2, <2>1, <2>2, <2>3, FlowKept
<1>9. CASE Closed \/ NoMessageLeft \/ More \/ WorkerSends \/ SlowSends \/ Disconnect \/ CloseConnection
  <2>1. heap' = heap /\ written' = written /\ queued' = queued /\ next_message' = next_message
        /\ queue' = queue /\ deleted' = deleted /\ raced' = raced
    BY <1>9 DEF WorkerSends, SlowSends, Closed, Close, NoMessageLeft, More, Disconnect, CloseConnection
  <2>2. pc' = pc \/ \E t \in Threads : \E label \in ClearLabels \cup SendLabels :
           pc' = [pc EXCEPT ![t] = label] /\ pc[t] # "write"
    BY <1>0, <1>9 DEF WorkerSends, SlowSends, BeginSend, Closed, Close, NoMessageLeft, More, Disconnect,
           CloseConnection, ClearLabels, SendLabels
  <2>3. pc'["main"] = "write" <=> pc["main"] = "write"
    BY <1>0, <2>2 DEF ClearLabels, SendLabels
  <2>4. wsi' = "open" => wsi = "open"
    BY <1>9 DEF WorkerSends, SlowSends, Closed, Close, NoMessageLeft, More, Disconnect, CloseConnection
  <2>. QED
    BY <1>1, <1>2, <2>1, <2>3, <2>4, FlowKept
<1>. QED
  BY <1>0, <1>3, <1>4, <1>5, <1>6, <1>7, <1>8, <1>9 DEF Next, MainStep

(* Every step keeps the invariant.                                         *)
LEMMA StepFlow == IndInv /\ IndInv' /\ FlowInv /\ [Next]_vars => FlowInv'
<1>. SUFFICES ASSUME IndInv, IndInv', FlowInv, [Next]_vars PROVE FlowInv'
  OBVIOUS
<1>0. Counted /\ AddressesLeft /\ Contents /\ OpenPointers /\ NotRaced /\ Flow
  BY DEF FlowInv
<1>1. CASE Next
  <2>1. Counted'
    BY <1>0, <1>1, CountedStep
  <2>2. AddressesLeft'
    BY <1>0, <1>1, AddressesStep
  <2>3. Contents'
    BY <1>0, <1>1, ContentsStep
  <2>4. OpenPointers' /\ NotRaced'
    BY <1>0, <1>1, PointersStep
  <2>5. Flow'
    BY <1>0, <1>1, <2>1, FlowStep
  <2>. QED
    BY <2>1, <2>2, <2>3, <2>4, <2>5 DEF FlowInv
<1>2. CASE UNCHANGED vars
  <2>. USE <1>0, <1>2 DEF vars, client_vars, main_vars, memory_vars, send_vars
  <2>1. Counted'
    BY DEF Counted
  <2>2. AddressesLeft'
    BY DEF AddressesLeft, SlowAllocations, Allocating
  <2>3. Contents'
    BY DEF Contents
  <2>4. OpenPointers' /\ NotRaced'
    BY DEF OpenPointers, NotRaced
  <2>5. InOrder'
    BY DEF Flow, InOrder, Ordered, Older, Sent, LastQueued
  <2>6. LostOnlyByRace' /\ NothingYet'
    BY DEF Flow, LostOnlyByRace, NothingYet, Waiting, Valid
  <2>. QED
    BY <2>1, <2>2, <2>3, <2>4, <2>5, <2>6 DEF FlowInv, Flow
<1>. QED
  BY <1>1, <1>2

(* Each thread's messages are written in the order it queued them, none    *)
(* twice, for any numbers of messages.                                     *)
THEOREM MessagesWrittenInOrder == Spec => []WrittenInOrder
<1>1. FlowInv => WrittenInOrder
  BY DEF FlowInv, Flow, InOrder, Ordered, Older, WrittenInOrder
<1>. QED
  BY InitInv, StepInv, InitFlow, StepFlow, <1>1, PTL DEF Spec

(* While the connection is open a queued message is lost only when both    *)
(* writers of the fast queue found none and allocated two.                 *)
THEOREM LostByRaceAlone == Spec => []LostOnlyByRace
<1>1. FlowInv => LostOnlyByRace
  BY DEF FlowInv, Flow
<1>. QED
  BY InitInv, StepInv, InitFlow, StepFlow, <1>1, PTL DEF Spec
===============================================================================
