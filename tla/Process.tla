------------------------------- MODULE Process -------------------------------
(***************************************************************************)
(* The threads of the server: how they start, how the tasks are run when a *)
(* thread could not be started, and how a fault in one of them ends the    *)
(* process.                                                                *)
(*                                                                         *)
(* Each thread enters itself in a list without a lock (error_signals), so  *)
(* that the signal handler finds where to jump to.  The main thread gives  *)
(* the worker a task for each message it receives; without run_async it    *)
(* runs the tasks itself.  The mutex of a queue of tasks is in TaskQueue.  *)
(***************************************************************************)
EXTENDS Naturals, Sequences, SequencesExt

CONSTANT MaxMessages   \* bound: the messages received in a behaviour

ASSUME ProcessAssumption == MaxMessages \in Nat

Threads == {"main", "worker", "slow"}
Null == "null"

(* A message is a command, one that needs the slow thread, or none.        *)
Kinds == {"command", "login", "unknown"}

VARIABLES
    \* error_signals
    error_thread_list,   \* the thread at its head
    next,                \* the thread after each in the list
    handlers,            \* AddHandlers was called, RemoveHandlers was not
    \* websocket
    run_async,
    received,            \* the kinds of the messages whose tasks were added
    front,               \* of chatroom_tasks; its back is the place after received
    slow_tasks,          \* how many
    \* threads
    pc,
    next_task,           \* of do_tasks
    ended,               \* the process
    corrupt,             \* a node or a task was used again or after deletion
    \* history
    ran,                 \* the tasks as they were run
    answered             \* the messages a command accepted

list_vars == <<error_thread_list, next>>
task_vars == <<received, front, slow_tasks, next_task, corrupt, ran, answered>>
vars == <<list_vars, handlers, run_async, task_vars, pc, ended>>

Init ==
    /\ error_thread_list = Null
    /\ next = [t \in Threads |-> Null]
    /\ handlers = TRUE       \* the first call of main()
    /\ run_async = TRUE
    /\ received = << >>
    /\ front = 1
    /\ slow_tasks = 0
    /\ pc = [t \in Threads |-> IF t = "main" THEN "link" ELSE "none"]
    /\ next_task = [t \in Threads |-> 0]
    /\ ended = FALSE
    /\ corrupt = FALSE
    /\ ran = << >>
    /\ answered = {}

Goto(t, label) == pc' = [pc EXCEPT ![t] = label]

-----------------------------------------------------------------------------
(* error_signals: the list of threads. *)

(* GetThread: from the head, at most one step for each thread. *)
GetThread(t) ==
    \/ error_thread_list = t
    \/ \E s \in Threads :
          /\ error_thread_list = s
          /\ next[s] = t \/ (next[s] # Null /\ next[next[s]] = t)

(* A faulty variant: the new thread does not point to the others. *)
LinkNothing(t) ==
    /\ pc[t] = "link"
    /\ next' = [next EXCEPT ![t] = Null]
    /\ Goto(t, "publish")
    /\ UNCHANGED <<error_thread_list, handlers, run_async, task_vars, ended>>

(* AddThread finds no entry of this thread and none that is not in use     *)
(* (no thread ever ends): loop->next = error_thread_list                   *)
Link(t) ==
    /\ pc[t] = "link"
    /\ next' = [next EXCEPT ![t] = error_thread_list]
    /\ Goto(t, "publish")
    /\ UNCHANGED <<error_thread_list, handlers, run_async, task_vars, ended>>

(* error_thread_list = loop *)
Publish(t) ==
    /\ pc[t] = "publish"
    /\ error_thread_list' = t
    /\ Goto(t, IF t = "main" THEN "create worker" ELSE "do tasks")
    /\ UNCHANGED <<next, handlers, run_async, task_vars, ended>>

(* A faulty variant: a thread that is not in the list goes on. *)
HandlerOnly(t) ==
    /\ pc[t] = "fault"
    /\ ~GetThread(t)
    /\ Goto(t, "report")
    /\ UNCHANGED <<list_vars, handlers, run_async, task_vars, ended>>

(* A fault is a signal.  Its handler jumps to the start of the thread.     *)
Handler(t) ==
    /\ pc[t] = "fault"
    /\ handlers
    /\ GetThread(t)
    /\ Goto(t, "report")
    /\ UNCHANGED <<list_vars, handlers, run_async, task_vars, ended>>

(* A thread that is not in the list returns to the faulty instruction.     *)
FaultAgain(t) ==
    /\ pc[t] = "fault"
    /\ handlers
    /\ ~GetThread(t)
    /\ UNCHANGED vars

(* Without handlers a signal ends the process. *)
FaultEnds(t) ==
    /\ pc[t] = "fault"
    /\ ~handlers
    /\ ended' = TRUE
    /\ UNCHANGED <<list_vars, handlers, run_async, task_vars, pc>>

(* The error is displayed; RemoveHandlers. *)
Report(t) ==
    /\ pc[t] = "report"
    /\ handlers' = FALSE
    /\ Goto(t, "exit")
    /\ UNCHANGED <<list_vars, run_async, task_vars, ended>>

(* exit(val), return val *)
Exit(t) ==
    /\ pc[t] = "exit"
    /\ ended' = TRUE
    /\ UNCHANGED <<list_vars, handlers, run_async, task_vars, pc>>

-----------------------------------------------------------------------------
(* main(): pthread_create may fail. *)
CreateWorker(created) ==
    /\ pc["main"] = "create worker"
    /\ run_async' = created
    /\ pc' = [pc EXCEPT !["main"] = "create slow",
                        !["worker"] = IF created THEN "link" ELSE @]
    /\ UNCHANGED <<list_vars, handlers, task_vars, ended>>

(* A failure of the second leaves the first running. *)
CreateSlow(created) ==
    /\ pc["main"] = "create slow"
    /\ run_async
    /\ run_async' = created
    /\ pc' = [pc EXCEPT !["main"] = "service",
                        !["slow"] = IF created THEN "link" ELSE @]
    /\ UNCHANGED <<list_vars, handlers, task_vars, ended>>

CreateNone ==
    /\ pc["main"] = "create slow"
    /\ ~run_async
    /\ Goto("main", "service")
    /\ UNCHANGED <<list_vars, handlers, run_async, task_vars, ended>>

(* A faulty variant: the tasks are always run here. *)
DoTasksHere(t) == Goto(t, "do tasks")

(* A faulty variant: they are never run here. *)
DoTasksNever(t) == UNCHANGED pc

(* if (!the_websocket->run_async) the_websocket->chatroom_tasks->do_tasks() *)
DoTasksUnlessAsync(t) ==
    IF run_async THEN UNCHANGED pc ELSE Goto(t, "do tasks")

(* LWS_CALLBACK_RECEIVE: add_task, then do_tasks unless run_async. *)
Receive(kind) ==
    /\ pc["main"] = "service"
    /\ Len(received) < MaxMessages
    /\ received' = Append(received, kind)
    /\ DoTasksUnlessAsync("main")
    /\ UNCHANGED <<list_vars, handlers, run_async, front, slow_tasks, next_task, corrupt, ran,
                   answered, ended>>

-----------------------------------------------------------------------------
(* tasks::do_tasks, by the worker and, without run_async, the main thread. *)
Empty == front = Len(received) + 1

(* while (!chatroom_tasks->empty()) *)
DoTasks(t) ==
    /\ t # "slow"
    /\ pc[t] = "do tasks"
    /\ IF Empty THEN t = "main" /\ Goto(t, "service") ELSE Goto(t, "dequeue")
    /\ UNCHANGED <<list_vars, handlers, run_async, task_vars, ended>>

(* item = front->item, and the node is remembered.  If another thread has  *)
(* emptied the queue, do_tasks runs its last task again.                   *)
Dequeue(t) ==
    /\ pc[t] = "dequeue"
    /\ IF Empty
       THEN corrupt' = TRUE /\ UNCHANGED <<next_task, pc>>
       ELSE /\ next_task' = [next_task EXCEPT ![t] = front]
            /\ Goto(t, "advance")
            /\ UNCHANGED corrupt
    /\ UNCHANGED <<list_vars, handlers, run_async, received, front, slow_tasks, ran, answered,
                   ended>>

(* front = front->next, and the node is deleted: again, or one that holds  *)
(* a task, if another thread remembers it too.                             *)
Advance(t) ==
    /\ pc[t] = "advance"
    /\ front' = front + 1
    /\ corrupt' = (front # next_task[t])
    /\ Goto(t, "run")
    /\ UNCHANGED <<list_vars, handlers, run_async, received, slow_tasks, next_task, ran,
                   answered, ended>>

(* chatcommands has a place more than there are commands: after the last   *)
(* one a null pointer is called.                                           *)
CommandFound(kind) == kind # "unknown"

(* task::receivedmessage.  A login adds a slow task and, unless run_async, *)
(* runs it here; the answer of another server may end in a fault.          *)
Run(t) ==
    LET k == next_task[t]
    IN  /\ pc[t] = "run"
        /\ ran' = Append(ran, k)
        /\ IF ~CommandFound(received[k])
           THEN Goto(t, "fault") /\ UNCHANGED <<slow_tasks, answered>>
           ELSE IF received[k] = "login" /\ run_async
           THEN slow_tasks' = slow_tasks + 1 /\ answered' = answered \cup {k} /\ Goto(t, "do tasks")
           ELSE /\ \/ Goto(t, "do tasks") /\ answered' = answered \cup {k}
                   \/ received[k] = "login" /\ Goto(t, "fault") /\ UNCHANGED answered
                /\ UNCHANGED slow_tasks
        /\ UNCHANGED <<list_vars, handlers, run_async, received, front, next_task, corrupt, ended>>

(* The slow thread runs a slow task, which may end in a fault. *)
RunSlow ==
    /\ pc["slow"] = "do tasks"
    /\ slow_tasks > 0
    /\ slow_tasks' = slow_tasks - 1
    /\ Goto("slow", "do tasks") \/ Goto("slow", "fault")
    /\ UNCHANGED <<list_vars, handlers, run_async, received, front, next_task, corrupt, ran,
                   answered, ended>>

-----------------------------------------------------------------------------
ThreadStep(t) ==
    \/ Link(t) \/ Publish(t)
    \/ Handler(t) \/ FaultEnds(t) \/ Report(t) \/ Exit(t)
    \/ DoTasks(t) \/ Dequeue(t) \/ Advance(t) \/ Run(t)

MainStep == CreateNone \/ \E created \in BOOLEAN : CreateWorker(created) \/ CreateSlow(created)

Alive == ~ended /\ ~corrupt

Next ==
    /\ Alive
    /\ \/ \E t \in Threads : ThreadStep(t) \/ FaultAgain(t)
       \/ MainStep \/ RunSlow
       \/ \E kind \in Kinds : Receive(kind)

(* Every thread runs; nobody has to send a message. *)
Fairness ==
    /\ \A t \in Threads : WF_vars(Alive /\ ThreadStep(t))
    /\ WF_vars(Alive /\ MainStep)
    /\ WF_vars(Alive /\ RunSlow)

Spec == Init /\ [][Next]_vars /\ Fairness
-----------------------------------------------------------------------------
TypeOK ==
    /\ error_thread_list \in Threads \cup {Null}
    /\ next \in [Threads -> Threads \cup {Null}]
    /\ handlers \in BOOLEAN /\ run_async \in BOOLEAN
    /\ received \in Seq(Kinds)
    /\ front \in 1 .. Len(received) + 1 \/ corrupt
    /\ slow_tasks \in 0 .. MaxMessages
    /\ next_task \in [Threads -> 0 .. MaxMessages]
    /\ answered \subseteq 1 .. MaxMessages

Entered(t) == pc[t] \notin {"none", "link", "publish"}

(* The handler finds every thread that has started, unless the worker and  *)
(* the slow thread entered themselves behind the same head of the list     *)
(* (error_signals.cpp:56): then one of these two is lost, never the main   *)
(* thread.                                                                 *)
FoundUnlessTogether ==
    \A t \in Threads :
        Entered(t) => \/ GetThread(t)
                      \/ t # "main" /\ Entered("worker") /\ next["worker"] = next["slow"]

HalfStarted == Entered("worker") /\ pc["slow"] = "none" /\ ~run_async

(* The tasks are run one after the other, each once, by one thread, unless *)
(* the second pthread_create failed when the first thread was running      *)
(* (websocket.cpp:357).                                                    *)
OnceUnlessHalfStarted ==
    corrupt \/ ran # [k \in 1 .. Len(ran) |-> k] => HalfStarted

FoundForGood(t) == GetThread(t) /\ \A s \in Threads : pc[s] # "publish"

(* A fault of a thread the handler finds ends the process, also if other   *)
(* threads fault at the same time (error_signals.cpp:78); a thread that is *)
(* about to enter itself can still take it out of the list.                *)
FaultEndsProcess ==
    \A t \in Threads : pc[t] = "fault" /\ FoundForGood(t) ~> ended \/ corrupt

Lost(t) == pc[t] = "fault" /\ ~GetThread(t)

(* Every message is taken on, by the worker or by the main thread, unless  *)
(* the process ends or the thread that took the one before it faults and   *)
(* is not found.                                                           *)
EveryMessageRuns ==
    \A k \in 1 .. MaxMessages :
        Len(received) >= k ~> \/ k \in ToSet(ran)
                              \/ ended \/ corrupt
                              \/ \E t \in Threads : Lost(t)

(* "Send a message back to the original client.  Message wasn't            *)
(* understood." (task.cpp, chatcommand.cpp:60)                             *)
UnknownIsAnswered ==
    \A k \in 1 .. MaxMessages :
        Len(received) >= k /\ received[k] = "unknown" ~> k \in answered
=============================================================================
