------------------------------ MODULE TaskQueue ------------------------------
(***************************************************************************)
(* The hand-over of tasks between two threads in src/server/tasks.cpp.     *)
(* One thread calls add_task; another loops over wait_for_tasks and        *)
(* do_tasks (websocket::task_thread_routine).  The server has two of       *)
(* these: chatroom_tasks (main thread -> worker) and slow_tasks (worker -> *)
(* slow thread).                                                           *)
(*                                                                         *)
(* queue_mutex protects nothing: it is a signal, locked while the queue is *)
(* empty.  add_task unlocks it from a thread that did not lock it, so it   *)
(* is a two-valued variable without an owner.  pthread_mutex_trylock       *)
(* leaves it locked whatever it was.                                       *)
(*                                                                         *)
(* The linked list is the queue ConcurrentQueue.tla implements; here it    *)
(* changes when `front' or `back' moves, which is what empty() compares.   *)
(***************************************************************************)
EXTENDS Naturals, Sequences

CONSTANTS Delay,     \* delay_in_seconds: 0 waits forever
          MaxTasks   \* bound: how many tasks are added in a behaviour

ASSUME TaskQueueAssumption == Delay \in Nat /\ MaxTasks \in Nat

VARIABLES
    queue,       \* chatroom_tasks; tasks are numbered as they are added
    current,     \* next_task, the local of do_tasks
    queue_mutex, \* "locked" or "unlocked"
    adder,       \* where the adding thread is in add_task
    was_queue_empty, \* the local of add_task
    worker,      \* where the other thread is in its loop
    added,       \* how many tasks were passed to add_task
    done         \* the task dotask() ran last

mutex == <<queue_mutex>>
adding == <<adder, was_queue_empty, added>>
working == <<worker, done>>
vars == <<queue, current, queue_mutex, adding, working>>

Tasks == 1 .. MaxTasks

List == INSTANCE Fifo WITH Items <- Tasks, NoItem <- 0, taken <- current

empty == queue = << >>

-----------------------------------------------------------------------------
(* tasks::tasks() locks the mutex; task_thread_routine starts at           *)
(* wait_for_tasks.                                                         *)
Init ==
    /\ List!Init
    /\ queue_mutex = "locked"
    /\ adder = "idle"
    /\ was_queue_empty = FALSE
    /\ worker = "wait"
    /\ added = 0
    /\ done = 0

(* add_task: was_queue_empty = chatroom_tasks->empty() *)
AddTask ==
    /\ adder = "idle"
    /\ added < MaxTasks
    /\ added' = added + 1
    /\ was_queue_empty' = empty
    /\ adder' = "enqueue"
    /\ UNCHANGED <<queue, current, mutex, working>>

(* A faulty variant: the test is inverted. *)
EnqueueTaskInverted ==
    /\ adder = "enqueue"
    /\ List!Enqueue(added)
    /\ adder' = IF was_queue_empty THEN "idle" ELSE "trylock"
    /\ UNCHANGED <<was_queue_empty, added, mutex, working>>

(* add_task: chatroom_tasks->enqueue(task); if (was_queue_empty) *)
EnqueueTask ==
    /\ adder = "enqueue"
    /\ List!Enqueue(added)
    /\ adder' = IF was_queue_empty THEN "trylock" ELSE "idle"
    /\ UNCHANGED <<was_queue_empty, added, mutex, working>>

(* add_task: pthread_mutex_trylock(&queue_mutex) *)
AdderTryLock ==
    /\ adder = "trylock"
    /\ queue_mutex' = "locked"
    /\ adder' = "unlock"
    /\ UNCHANGED <<queue, current, was_queue_empty, added, working>>

(* add_task: pthread_mutex_unlock(&queue_mutex) *)
AdderUnlock ==
    /\ adder = "unlock"
    /\ queue_mutex' = "unlocked"
    /\ adder' = "idle"
    /\ UNCHANGED <<queue, current, was_queue_empty, added, working>>

(* wait_for_tasks: return at once if the queue is not empty, else (timed)  *)
(* lock the mutex: at once when it is unlocked, or else sleep.             *)
WaitForTasks ==
    /\ worker = "wait"
    /\ worker' = IF empty THEN "lock" ELSE "loop"
    /\ UNCHANGED <<queue, current, mutex, adding, done>>

Lock ==
    /\ worker = "lock"
    /\ worker' = IF queue_mutex = "unlocked" THEN "recheck" ELSE "asleep"
    /\ queue_mutex' = "locked"
    /\ UNCHANGED <<queue, current, adding, done>>

WakeUp ==
    /\ worker = "asleep"
    /\ queue_mutex = "unlocked"
    /\ queue_mutex' = "locked"
    /\ worker' = "recheck"
    /\ UNCHANGED <<queue, current, adding, done>>

(* A faulty variant: the two kinds of lock are swapped. *)
TimeoutSwapped ==
    /\ worker = "asleep"
    /\ Delay = 0
    /\ worker' = "recheck"
    /\ UNCHANGED <<queue, current, mutex, adding, done>>

(* pthread_mutex_timedlock gives up; pthread_mutex_lock never does. *)
Timeout ==
    /\ worker = "asleep"
    /\ Delay > 0
    /\ worker' = "recheck"
    /\ UNCHANGED <<queue, current, mutex, adding, done>>

(* wait_for_tasks: if there are tasks, the mutex should be unlocked *)
Recheck ==
    /\ worker = "recheck"
    /\ worker' = IF empty THEN "loop" ELSE "trylock"
    /\ UNCHANGED <<queue, current, mutex, adding, done>>

WorkerTryLock ==
    /\ worker = "trylock"
    /\ queue_mutex' = "locked"
    /\ worker' = "unlock"
    /\ UNCHANGED <<queue, current, adding, done>>

WorkerUnlock ==
    /\ worker = "unlock"
    /\ queue_mutex' = "unlocked"
    /\ worker' = "loop"
    /\ UNCHANGED <<queue, current, adding, done>>

(* do_tasks: while (!chatroom_tasks->empty()) *)
DoTasks ==
    /\ worker = "loop"
    /\ worker' = IF empty THEN "finish" ELSE "dequeue"
    /\ UNCHANGED <<queue, current, mutex, adding, done>>

(* A faulty variant: the task is left in the queue. *)
PeekTask ==
    /\ worker = "dequeue"
    /\ current' = Head(queue)
    /\ worker' = "run"
    /\ UNCHANGED <<queue, mutex, adding, done>>

(* do_tasks: chatroom_tasks->dequeue(next_task) *)
DequeueTask ==
    /\ worker = "dequeue"
    /\ List!Dequeue
    /\ worker' = "run"
    /\ UNCHANGED <<mutex, adding, done>>

(* do_tasks: next_task->dotask(); delete next_task *)
RunTask ==
    /\ worker = "run"
    /\ done' = current
    /\ worker' = "loop"
    /\ UNCHANGED <<queue, current, mutex, adding>>

(* do_tasks: the queue should be empty, pthread_mutex_trylock *)
FinishTasks ==
    /\ worker = "finish"
    /\ queue_mutex' = "locked"
    /\ worker' = "wait"
    /\ UNCHANGED <<queue, current, adding, done>>

Adder == EnqueueTask \/ AdderTryLock \/ AdderUnlock

Worker ==
    \/ WaitForTasks \/ Lock \/ WakeUp \/ Timeout
    \/ Recheck \/ WorkerTryLock \/ WorkerUnlock
    \/ DoTasks \/ DequeueTask \/ RunTask \/ FinishTasks

Next == AddTask \/ Adder \/ Worker

(* Both threads are scheduled, and time passes for a timed lock.  Nothing  *)
(* says that a client sends another message: no fairness on AddTask.       *)
Fairness == WF_vars(Adder) /\ WF_vars(Worker)

Spec == Init /\ [][Next]_vars
FairSpec == Spec /\ Fairness

-----------------------------------------------------------------------------
TypeOK ==
    /\ queue \in Seq(Tasks)
    /\ current \in Nat
    /\ queue_mutex \in {"locked", "unlocked"}
    /\ adder \in {"idle", "enqueue", "trylock", "unlock"}
    /\ was_queue_empty \in BOOLEAN
    /\ worker \in {"wait", "lock", "asleep", "recheck", "trylock", "unlock",
                   "loop", "dequeue", "run", "finish"}
    /\ added \in 0 .. MaxTasks
    /\ done \in Nat

(* How many tasks the worker has taken from the list and finished or is    *)
(* running, and how many the adder has put there.                          *)
Dequeued == IF worker = "run" THEN done + 1 ELSE done
Enqueued == IF adder = "enqueue" THEN added - 1 ELSE added

(* Each task is run once, in the order of the add_task calls: between the  *)
(* tasks that ran and those still to be enqueued, the list holds the rest  *)
(* without a gap or a repetition.                                          *)
OnceInOrder ==
    /\ Dequeued + Len(queue) = Enqueued
    /\ \A k \in 1 .. Len(queue) : queue[k] = Dequeued + k
    /\ worker = "run" => current = done + 1

(* Tasks are waiting, the worker sleeps, and nobody is about to wake it. *)
Overslept ==
    /\ worker = "asleep"
    /\ queue_mutex = "locked"
    /\ ~empty
    /\ adder \notin {"trylock", "unlock"}

(* tasks.cpp:27, "if there's a task waiting, this function returns         *)
(* immediately", and tasks.h:20 are not kept: the worker may take and      *)
(* finish the old task before the new one is enqueued, and add_task then   *)
(* leaves the mutex locked.  The worker oversleeps in this way only: the   *)
(* latest add_task had read a non-empty queue.  One that saw the queue     *)
(* empty always wakes the worker, in whatever order the two threads'       *)
(* trylock, unlock and timeout steps come.                                 *)
OversleptOnlyAfterStaleRead == Overslept => ~was_queue_empty

(* Every task is run at last, even one whose wake-up was lost. *)
EveryTaskRuns == \A t \in Tasks : added >= t ~> done >= t
=============================================================================
