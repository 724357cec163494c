------------------------------- MODULE Outbox --------------------------------
(***************************************************************************)
(* One connection and the messages to it: chatclient with its two queues,  *)
(* and the three threads that use it without a lock.                       *)
(*                                                                         *)
(* The main thread registers the connection, sends the first message and   *)
(* later takes the messages out when the socket can be written.  The       *)
(* worker queues messages on the fast queue and, after the close, deletes  *)
(* the queues; the slow thread queues on the other one.  A queue is        *)
(* allocated when it is first needed.  Every access to a shared field is a *)
(* step; what happens inside of enqueue and dequeue is in ConcurrentQueue. *)
(*                                                                         *)
(* libwebsockets is external: a request to write (lws_callback_on_writable)*)
(* is answered by one callback, and a callback that returns -1 closes the  *)
(* connection.  The memory of the connection itself is never reclaimed.    *)
(***************************************************************************)
EXTENDS Integers, SequencesExt

CONSTANTS MaxWorker,    \* bound: the messages of the worker
          MaxSlow       \* bound: the messages of the slow thread

ASSUME OutboxAssumption == MaxWorker \in Nat /\ MaxSlow \in Nat

Threads == {"main", "worker", "slow"}

(* messages_to_send and messages_to_send_from_slow_commands *)
Queues == {"fast", "slow"}
QueueOf(t) == IF t = "slow" THEN "slow" ELSE "fast"

(* A null pointer, and the addresses `new' returns: a fast queue for each  *)
(* of its two writers, and a slow one for each message after the close.    *)
Null == 0
Addresses == 1 .. 2 + MaxSlow

Messages == Threads \X (1 .. MaxWorker + MaxSlow + 1)
NoMessage == <<"none", 0>>

VARIABLES
    \* chatclient
    wsi,               \* "none" before the connection, "open", "null"
    should_disconnect,
    queue,             \* the two pointers
    \* websocket
    chatclients,       \* whether the connection is registered
    close_task,        \* whether its close waits for the worker
    \* memory
    heap,              \* address -> the messages in the queue there
    deleted,           \* addresses of deleted queues
    next_address,
    \* libwebsockets
    requested,         \* a callback when the socket is writable was asked for
    \* threads
    pc,
    pointer,           \* the queue a thread has read a pointer to
    next_message,      \* of the main thread in LWS_CALLBACK_SERVER_WRITEABLE
    \* history
    count,             \* messages each thread has begun to queue
    queued,            \* messages whose enqueue is over
    written,           \* messages passed to lws_write
    raced,             \* both writers found the fast queue missing
    used_deleted       \* threads that used a deleted queue or a null pointer

memory_vars == <<heap, deleted, next_address>>
client_vars == <<wsi, should_disconnect, chatclients, close_task>>
send_vars == <<queue, memory_vars, pointer, count, queued, raced, used_deleted>>
main_vars == <<next_message, written>>
vars == <<client_vars, send_vars, main_vars, requested, pc>>

Init ==
    /\ wsi = "none"
    /\ should_disconnect = FALSE
    /\ queue = [q \in Queues |-> Null]
    /\ chatclients = FALSE
    /\ close_task = FALSE
    /\ heap = [a \in Addresses |-> << >>]
    /\ deleted = {}
    /\ next_address = 1
    /\ requested = FALSE
    /\ pc = [t \in Threads |-> "idle"]
    /\ pointer = [t \in Threads |-> Null]
    /\ next_message = NoMessage
    /\ count = [t \in Threads |-> 0]
    /\ queued = {}
    /\ written = << >>
    /\ raced = FALSE
    /\ used_deleted = {}

Goto(t, label) == pc' = [pc EXCEPT ![t] = label]
At(t, label) == pc[t] = label

(* Using the queue at address a: a deleted one or none is an error. *)
Valid(a) == a # Null /\ a \notin deleted
Use(t, a) == used_deleted' = IF Valid(a) THEN used_deleted ELSE used_deleted \cup {t}

-----------------------------------------------------------------------------
(* chatclient::add_message and push_message, then callback_on_writable.    *)

(* A thread begins to send one more message: not everyone has to. *)
BeginSend(t) ==
    /\ count' = [count EXCEPT ![t] = @ + 1]
    /\ Goto(t, "test wsi")

(* The worker finds the connection in the list of the connections or of a  *)
(* room, or runs a task that it sent before it closed.                     *)
WorkerSends ==
    /\ At("worker", "idle")
    /\ chatclients
    /\ count["worker"] < MaxWorker
    /\ BeginSend("worker")
    /\ UNCHANGED <<client_vars, queue, memory_vars, pointer, queued, raced, used_deleted,
                   main_vars, requested>>

(* The slow thread answers a remotelogin that the worker queued for it, at *)
(* any later time: it holds a pointer to the connection.                   *)
SlowSends ==
    /\ At("slow", "idle")
    /\ wsi # "none"
    /\ count["slow"] < MaxSlow
    /\ BeginSend("slow")
    /\ UNCHANGED <<client_vars, queue, memory_vars, pointer, queued, raced, used_deleted,
                   main_vars, requested>>

TestWsi(t) ==
    /\ At(t, "test wsi")
    /\ Goto(t, IF wsi = "open" THEN "test queue" ELSE "test wsi again")
    /\ UNCHANGED <<client_vars, send_vars, main_vars, requested>>

(* A faulty variant: the queue is not looked for. *)
AlwaysMissing(t) == TRUE

(* messages_to_send == nullptr *)
Missing(t) == queue[QueueOf(t)] = Null

TestQueue(t) ==
    /\ At(t, "test queue")
    /\ Goto(t, IF Missing(t) THEN "allocate" ELSE "test queue again")
    /\ raced' = (raced \/ /\ queue[QueueOf(t)] = Null
                          /\ \E s \in Threads \ {t} : QueueOf(s) = QueueOf(t) /\ At(s, "allocate"))
    /\ UNCHANGED <<client_vars, queue, memory_vars, pointer, count, queued, used_deleted,
                   main_vars, requested>>

Allocate(t) ==
    /\ At(t, "allocate")
    /\ queue' = [queue EXCEPT ![QueueOf(t)] = next_address]
    /\ next_address' = next_address + 1
    /\ Goto(t, "test queue again")
    /\ UNCHANGED <<client_vars, heap, deleted, pointer, count, queued, raced, used_deleted,
                   main_vars, requested>>

TestQueueAgain(t) ==
    /\ At(t, "test queue again")
    /\ Goto(t, IF queue[QueueOf(t)] = Null THEN "test wsi again" ELSE "get queue")
    /\ UNCHANGED <<client_vars, send_vars, main_vars, requested>>

GetQueue(t) ==
    /\ At(t, "get queue")
    /\ pointer' = [pointer EXCEPT ![t] = queue[QueueOf(t)]]
    /\ Goto(t, "enqueue")
    /\ UNCHANGED <<client_vars, queue, memory_vars, count, queued, raced, used_deleted,
                   main_vars, requested>>

Enqueue(t) ==
    LET a == pointer[t]
        message == <<t, count[t]>>
    IN  /\ At(t, "enqueue")
        /\ Use(t, a)
        /\ heap' = IF Valid(a) THEN [heap EXCEPT ![a] = Append(@, message)] ELSE heap
        /\ queued' = queued \cup {message}
        /\ pointer' = [pointer EXCEPT ![t] = Null]
        /\ Goto(t, "test wsi again")
        /\ UNCHANGED <<client_vars, queue, deleted, next_address, count, raced, main_vars, requested>>

(* chatclient::callback_on_writable *)
TestWsiAgain(t) ==
    /\ At(t, "test wsi again")
    /\ Goto(t, IF wsi = "open" THEN "request" ELSE "idle")
    /\ UNCHANGED <<client_vars, send_vars, main_vars, requested>>

(* lws_callback_on_writable; of a connection that was closed meanwhile it  *)
(* is taken to do nothing.                                                 *)
Request(t) ==
    /\ At(t, "request")
    /\ requested' = (requested \/ wsi = "open")
    /\ Goto(t, "idle")
    /\ UNCHANGED <<client_vars, send_vars, main_vars>>

SendStep(t) ==
    \/ TestWsi(t) \/ TestQueue(t) \/ Allocate(t) \/ TestQueueAgain(t)
    \/ GetQueue(t) \/ Enqueue(t) \/ TestWsiAgain(t) \/ Request(t)

-----------------------------------------------------------------------------
(* The main thread. *)

(* LWS_CALLBACK_ESTABLISHED: initialize, registration, the first message. *)
Established ==
    /\ wsi = "none"
    /\ wsi' = "open"
    /\ chatclients' = TRUE
    /\ BeginSend("main")
    /\ UNCHANGED <<should_disconnect, close_task, queue, memory_vars, pointer, queued, raced,
                   used_deleted, main_vars, requested>>

(* A faulty variant: the queues are deleted at once, by the main thread. *)
CloseAndClear ==
    /\ wsi' = "null"
    /\ close_task' = TRUE
    /\ requested' = FALSE
    /\ deleted' = deleted \cup {queue[q] : q \in Queues \ {p \in Queues : queue[p] = Null}}
    /\ heap' = [a \in Addresses |-> IF \E q \in Queues : queue[q] = a THEN << >> ELSE heap[a]]
    /\ UNCHANGED <<should_disconnect, chatclients, queue, next_address>>

(* LWS_CALLBACK_CLOSED; task::closeconnection(client, run_async) clears    *)
(* wsi before the task is queued.                                          *)
Close ==
    /\ wsi' = "null"
    /\ close_task' = TRUE
    /\ requested' = FALSE
    /\ UNCHANGED <<should_disconnect, chatclients, queue, memory_vars>>

Closed ==
    /\ At("main", "idle")
    /\ wsi = "open"
    /\ Close
    /\ UNCHANGED <<pointer, count, queued, raced, used_deleted, main_vars, pc>>

(* A faulty variant: the message stays in the queue. *)
PeekAtQueue(q, label) ==
    IF queue[q] # Null /\ heap[queue[q]] # << >>
    THEN /\ next_message' = Head(heap[queue[q]])
         /\ Use("main", queue[q])
         /\ Goto("main", "write")
         /\ UNCHANGED heap
    ELSE /\ Goto("main", label)
         /\ UNCHANGED <<next_message, heap, used_deleted>>

(* chatclient::get_next_message for one of the queues; `label' is where to *)
(* look if there is nothing in it.                                         *)
TakeFromQueue(q, label) ==
    IF queue[q] # Null /\ heap[queue[q]] # << >>
    THEN /\ next_message' = Head(heap[queue[q]])
         /\ heap' = [heap EXCEPT ![queue[q]] = Tail(@)]
         /\ Use("main", queue[q])
         /\ Goto("main", "write")
    ELSE /\ Goto("main", label)
         /\ UNCHANGED <<next_message, heap, used_deleted>>

(* LWS_CALLBACK_SERVER_WRITEABLE *)
Writeable ==
    /\ At("main", "idle")
    /\ wsi = "open"
    /\ requested
    /\ requested' = FALSE
    /\ TakeFromQueue("fast", "get slow")
    /\ UNCHANGED <<client_vars, queue, deleted, next_address, pointer, count, queued, raced, written>>

GetSlow ==
    /\ At("main", "get slow")
    /\ TakeFromQueue("slow", "no message")
    /\ UNCHANGED <<client_vars, queue, deleted, next_address, pointer, count, queued, raced,
                   written, requested>>

(* should_disconnect is looked at when there is no message: the callback   *)
(* returns -1, and the connection is closed.                               *)
NoMessageLeft ==
    /\ At("main", "no message")
    /\ Goto("main", "idle")
    /\ IF should_disconnect THEN Close
       ELSE UNCHANGED <<client_vars, queue, memory_vars, requested>>
    /\ UNCHANGED <<pointer, count, queued, raced, used_deleted, main_vars>>

Write ==
    /\ At("main", "write")
    /\ written' = Append(written, next_message)
    /\ next_message' = NoMessage
    /\ Goto("main", "more")
    /\ UNCHANGED <<client_vars, send_vars, requested>>

(* A faulty variant: only the fast queue is looked at. *)
HasFastMessages == queue["fast"] # Null /\ heap[queue["fast"]] # << >>

(* chatclient::has_messages.  A message queued while it looks has a        *)
(* request of its own to follow.                                           *)
HasMessages == \E q \in Queues : queue[q] # Null /\ heap[queue[q]] # << >>

(* A faulty variant: a disconnect is not asked for again. *)
MoreMessages == HasMessages

(* Whether to ask for one more callback. *)
MoreToDo == should_disconnect \/ HasMessages

More ==
    /\ At("main", "more")
    /\ requested' = (requested \/ MoreToDo)
    /\ Goto("main", "idle")
    /\ UNCHANGED <<client_vars, send_vars, main_vars>>

MainStep == SendStep("main") \/ GetSlow \/ NoMessageLeft \/ Write \/ More

-----------------------------------------------------------------------------
(* The worker's other uses of the connection. *)

(* chatclient::disconnect, of logout *)
Disconnect ==
    /\ At("worker", "idle")
    /\ chatclients
    /\ ~should_disconnect
    /\ should_disconnect' = TRUE
    /\ Goto("worker", "test wsi again")
    /\ UNCHANGED <<wsi, chatclients, close_task, send_vars, main_vars, requested>>

(* task::closeconnection(), then chatclient::clear: each queue is emptied  *)
(* and deleted, and its pointer set to null.                               *)
CloseConnection ==
    /\ At("worker", "idle")
    /\ close_task
    /\ close_task' = FALSE
    /\ chatclients' = FALSE
    /\ Goto("worker", "clear fast")
    /\ UNCHANGED <<wsi, should_disconnect, send_vars, main_vars, requested>>

(* chatclient::clear_messages *)
ClearMessages(q, here, next) ==
    LET a == queue[q]
    IN  /\ At("worker", here)
        /\ Goto("worker", next)
        /\ IF a = Null THEN UNCHANGED <<heap, deleted, used_deleted>>
           ELSE /\ heap' = [heap EXCEPT ![a] = << >>]
                /\ deleted' = deleted \cup {a}
                /\ Use("worker", a)
        /\ UNCHANGED <<client_vars, queue, next_address, pointer, count, queued, raced,
                       main_vars, requested>>

ForgetQueue(q, here, next) ==
    /\ At("worker", here)
    /\ Goto("worker", next)
    /\ queue' = [queue EXCEPT ![q] = Null]
    /\ UNCHANGED <<client_vars, memory_vars, pointer, count, queued, raced, used_deleted,
                   main_vars, requested>>

Clear ==
    \/ ClearMessages("fast", "clear fast", "forget fast")
    \/ ForgetQueue("fast", "forget fast", "clear slow")
    \/ ClearMessages("slow", "clear slow", "forget slow")
    \/ ForgetQueue("slow", "forget slow", "idle")

-----------------------------------------------------------------------------
Next ==
    \/ Established \/ Closed \/ Writeable \/ MainStep
    \/ WorkerSends \/ Disconnect \/ CloseConnection \/ Clear \/ SendStep("worker")
    \/ SlowSends \/ SendStep("slow")

(* Each thread goes on with what it has begun, libwebsockets calls back    *)
(* when it was asked to and the socket takes more, and the worker gets to  *)
(* the close task (TaskQueue!EveryTaskRuns).  Nobody has to send, to log   *)
(* out or to close.                                                        *)
Fairness ==
    /\ WF_vars(MainStep) /\ WF_vars(Writeable)
    /\ WF_vars(SendStep("worker")) /\ WF_vars(CloseConnection) /\ WF_vars(Clear)
    /\ WF_vars(SendStep("slow"))

Spec == Init /\ [][Next]_vars
FairSpec == Spec /\ Fairness

-----------------------------------------------------------------------------
SendLabels == {"idle", "test wsi", "test queue", "allocate", "test queue again", "get queue",
               "enqueue", "test wsi again", "request"}
WriteLabels == {"get slow", "no message", "write", "more"}
ClearLabels == {"clear fast", "forget fast", "clear slow", "forget slow"}

(* With a bound on the queues that are allocated. *)
TypeOK ==
    /\ wsi \in {"none", "open", "null"}
    /\ should_disconnect \in BOOLEAN
    /\ queue \in [Queues -> Addresses \cup {Null}]
    /\ chatclients \in BOOLEAN
    /\ close_task \in BOOLEAN
    /\ heap \in [Addresses -> Seq(Messages)]
    /\ deleted \subseteq Addresses
    /\ next_address \in 1 .. 3 + MaxSlow
    /\ requested \in BOOLEAN
    /\ pc \in [Threads -> SendLabels \cup WriteLabels \cup ClearLabels]
    /\ pointer \in [Threads -> Addresses \cup {Null}]
    /\ next_message \in Messages \cup {NoMessage}
    /\ count \in [Threads -> 0 .. MaxWorker + MaxSlow + 1]
    /\ queued \subseteq Messages
    /\ written \in Seq(Messages)
    /\ raced \in BOOLEAN
    /\ used_deleted \subseteq Threads

(* The messages in the queue that a pointer of the connection leads to. *)
Waiting(q) == IF Valid(queue[q]) THEN Range(heap[queue[q]]) ELSE {}

(* While the connection is open no message that was queued is lost, but    *)
(* for one coincidence: the main thread with the first message and the     *)
(* worker with another both find no queue, and the second one allocated    *)
(* hides the first.                                                        *)
LostOnlyByRace ==
    wsi = "open" /\ ~raced =>
        queued \subseteq Range(written) \cup {next_message} \cup Waiting("fast") \cup Waiting("slow")

(* Each thread's messages are written in the order it queued them, and     *)
(* none twice, also when the two writers of the fast queue allocate two.   *)
WrittenInOrder ==
    \A i, j \in 1 .. Len(written) :
        i < j /\ written[i][1] = written[j][1] => written[i][2] < written[j][2]

(* The main thread and the worker never use a queue that was deleted: the  *)
(* queues are deleted by the worker, in a task that the main thread queues *)
(* when it needs them no more.                                             *)
OnlySlowUsesDeleted == used_deleted \subseteq {"slow"}

(* Messages do not wait for ever: the queues of an open connection are at  *)
(* last empty, as not everybody sends without end.  A request that is made *)
(* while another is under way is not lost, nor is the slow queue passed    *)
(* over; by LostOnlyByRace the messages left the queues to be written.     *)
NoneWaitsForever ==
    \A q \in Queues : Waiting(q) # {} ~> Waiting(q) = {} \/ wsi = "null"

(* A connection that was told to disconnect is closed at last, however the *)
(* request for it meets messages that are still to be sent.                *)
Disconnects == should_disconnect ~> wsi = "null"

(* Why the main thread and the worker never use a deleted queue.  Before   *)
(* the connection there is nothing; while it is open the main thread may   *)
(* be busy; the worker sends only while the connection is registered, and  *)
(* clears it only after, once.                                             *)
Phases ==
    /\ wsi = "none" => ~chatclients /\ deleted = {} /\ \A t \in Threads : pc[t] = "idle"
    /\ wsi # "null" => ~close_task
    /\ pc["main"] # "idle" => wsi = "open"
    /\ wsi = "open" => chatclients
    /\ close_task => chatclients
    /\ chatclients => deleted = {} /\ pc["worker"] \notin ClearLabels
    /\ pc["worker"] \notin ClearLabels \cup {"idle"} => chatclients
    /\ pc["worker"] = "clear fast" => deleted = {}

(* The two queues are different, and the slow one is not deleted before    *)
(* its turn; who has tested a pointer that nobody clears finds it set.     *)
Pointers ==
    /\ queue["fast"] # Null => queue["fast"] # queue["slow"]
    /\ queue["slow"] \in deleted => pc["worker"] = "forget slow"
    /\ \A t \in {"main", "worker"} :
          /\ pc[t] = "get queue" => queue["fast"] # Null
          /\ pc[t] = "enqueue" => pointer[t] # Null

Typed ==
    /\ wsi \in {"none", "open", "null"}
    /\ chatclients \in BOOLEAN
    /\ close_task \in BOOLEAN
    /\ next_address \in Nat \ {0}
    /\ pc \in [Threads -> SendLabels \cup WriteLabels \cup ClearLabels]
    /\ pointer \in [Threads -> Nat]
    /\ queue \in [Queues -> Nat]
    /\ \A q \in Queues : queue[q] < next_address
    /\ deleted \subseteq Nat \ {Null}
    /\ \A a \in deleted : a < next_address

IndInv == Typed /\ Phases /\ Pointers /\ OnlySlowUsesDeleted

(* README.md:18, "Because only one thread is processing messages, no       *)
(* locking is needed": nobody uses a deleted queue.  The slow thread tests *)
(* wsi, and enqueues after the worker has deleted the queue.               *)
NoUseAfterDelete == used_deleted = {}
=============================================================================
