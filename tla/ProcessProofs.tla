---------------------------- MODULE ProcessProofs ----------------------------
(***************************************************************************)
(* Theorems about Process, for any number of messages: whom the signal     *)
(* handler finds, and that the tasks are run once, in order.               *)
(***************************************************************************)
EXTENDS Process, SequenceTheorems, TLAPS

-----------------------------------------------------------------------------
(* Where each thread may be.                                               *)

FaultLabels == {"fault", "report", "exit"}
TaskLabels == {"dequeue", "advance", "run"}
StartLabels == {"link", "publish"}
BusyLabels == {"do tasks"} \cup TaskLabels

PcTyped ==
    /\ DOMAIN pc = Threads
    /\ pc["main"] \in {"create worker", "create slow", "service"}
                          \cup StartLabels \cup BusyLabels \cup FaultLabels
    /\ pc["worker"] \in {"none"} \cup StartLabels \cup BusyLabels \cup FaultLabels
    /\ pc["slow"] \in {"none", "do tasks"} \cup StartLabels \cup FaultLabels

(* The main thread starts the others one after the other, and run_async    *)
(* says whether it could.                                                  *)
Starting ==
    /\ run_async \in BOOLEAN
    /\ pc["main"] \in {"link", "publish", "create worker"} =>
          run_async /\ pc["worker"] = "none" /\ pc["slow"] = "none"
    /\ pc["main"] = "create slow" =>
          pc["slow"] = "none" /\ (run_async <=> pc["worker"] # "none")
    /\ pc["main"] \notin {"link", "publish", "create worker", "create slow"} =>
          /\ run_async <=> pc["slow"] # "none"
          /\ run_async => pc["worker"] # "none"
    /\ pc["main"] \in BusyLabels \cup FaultLabels => ~run_async

(* The list of threads.  The main thread is its last entry; the worker and *)
(* the slow thread point to it or to each other, and the head is the one   *)
(* that entered itself last.                                               *)
Linked(t) == pc[t] \notin {"none", "link"}

Other(t) == IF t = "worker" THEN "slow" ELSE "worker"

ListInv ==
    /\ next \in [Threads -> Threads \cup {Null}]
    /\ next["main"] = Null
    /\ error_thread_list = Null <=> ~Entered("main")
    /\ error_thread_list = "main" <=>
          Entered("main") /\ ~Entered("worker") /\ ~Entered("slow")
    /\ error_thread_list \in Threads \cup {Null}
    /\ \A t \in {"worker", "slow"} :
          /\ Linked(t) <=> next[t] # Null
          /\ Linked(t) => next[t] \in {"main", Other(t)}
          /\ error_thread_list = t => Entered(t)
          /\ next[t] = Other(t) => Entered(Other(t)) /\ next[Other(t)] = "main"
          /\ next[t] = Other(t) /\ Entered(t) => error_thread_list = t

(* Each thread but the first starts when main created it.                  *)
EnteredInTurn ==
    \A t \in {"worker", "slow"} : pc[t] # "none" => Entered("main")

StartInv == PcTyped /\ Starting /\ EnteredInTurn /\ ListInv

-----------------------------------------------------------------------------
LEMMA InitStart == Init => StartInv
<1>. SUFFICES ASSUME Init PROVE StartInv
  OBVIOUS
<1>. USE DEF Threads, StartLabels, TaskLabels, BusyLabels, FaultLabels
<1>1. PcTyped
  BY DEF Init, PcTyped
<1>2. Starting
  BY DEF Init, Starting
<1>3. EnteredInTurn
  BY DEF Init, EnteredInTurn
<1>4. ListInv
  BY DEF Init, ListInv, Linked, Other, Entered, Null
<1>. QED
  BY <1>1, <1>2, <1>3, <1>4 DEF StartInv

(* The variables StartInv is about. *)
LEMMA SameStart ==
    ASSUME StartInv, UNCHANGED <<pc, error_thread_list, next, run_async>>
    PROVE  StartInv'
BY DEF StartInv, PcTyped, Starting, EnteredInTurn, ListInv, Entered, Linked

(* A step inside the threads' loops changes nothing that StartInv is about *)
(* but the place of one thread.                                            *)
LEMMA LoopStart ==
    ASSUME StartInv, NEW t \in Threads, NEW label,
           UNCHANGED <<error_thread_list, next, run_async>>, Goto(t, label),
           \/ pc[t] \in BusyLabels /\ label \in BusyLabels \cup {"fault"} /\ t # "slow"
           \/ t = "main" /\ pc[t] = "service" /\ label = "do tasks" /\ ~run_async
           \/ t = "main" /\ pc[t] = "do tasks" /\ label = "service"
           \/ t = "slow" /\ pc[t] = "do tasks" /\ label \in {"do tasks", "fault"}
           \/ pc[t] \in FaultLabels /\ label \in FaultLabels
    PROVE  StartInv'
<1>. USE DEF StartInv, PcTyped, Threads, StartLabels, TaskLabels, BusyLabels, FaultLabels
<1>1. pc' = [pc EXCEPT ![t] = label]
  BY DEF Goto
<1>2. PcTyped'
  BY <1>1
<1>3. Starting'
  BY <1>1 DEF Starting
<1>4. EnteredInTurn'
  BY <1>1 DEF EnteredInTurn, Entered
<1>5. ListInv'
  <2>1. \A s \in Threads : (Entered(s)' <=> Entered(s)) /\ (Linked(s)' <=> Linked(s))
    BY <1>1 DEF Entered, Linked
  <2>. QED
    BY <2>1 DEF ListInv, Other
<1>. QED
  BY <1>2, <1>3, <1>4, <1>5

(* loop->next = error_thread_list: the entry is not in the list yet.       *)
LEMMA LinkStart == ASSUME StartInv, NEW t \in Threads, Link(t) PROVE StartInv'
<1>. USE DEF StartInv, PcTyped, Threads, StartLabels, TaskLabels, BusyLabels, FaultLabels
<1>1. /\ pc[t] = "link" /\ pc' = [pc EXCEPT ![t] = "publish"]
      /\ next' = [next EXCEPT ![t] = error_thread_list]
      /\ UNCHANGED <<error_thread_list, run_async>>
  BY DEF Link, Goto
<1>2. PcTyped'
  BY <1>1
<1>3. Starting'
  BY <1>1 DEF Starting
<1>4. EnteredInTurn'
  BY <1>1 DEF EnteredInTurn, Entered
<1>5. ListInv'
  BY <1>1 DEF ListInv, Entered, Linked, Other, Starting, EnteredInTurn, Null
<1>. QED
  BY <1>2, <1>3, <1>4, <1>5

(* error_thread_list = loop: from here on the thread is found.             *)
LEMMA PublishStart == ASSUME StartInv, NEW t \in Threads, Publish(t) PROVE StartInv'
<1>. USE DEF StartInv, PcTyped, Threads, StartLabels, TaskLabels, BusyLabels, FaultLabels
<1>1. /\ pc[t] = "publish"
      /\ pc' = [pc EXCEPT ![t] = IF t = "main" THEN "create worker" ELSE "do tasks"]
      /\ error_thread_list' = t
      /\ UNCHANGED <<next, run_async>>
  BY DEF Publish, Goto
<1>2. PcTyped'
  BY <1>1
<1>3. Starting'
  BY <1>1 DEF Starting
<1>4. EnteredInTurn'
  BY <1>1 DEF EnteredInTurn, Entered
<1>5. ListInv'
  BY <1>1 DEF ListInv, Entered, Linked, Other, Starting, EnteredInTurn, Null
<1>. QED
  BY <1>2, <1>3, <1>4, <1>5

(* pthread_create: the new thread is at its first instruction.             *)
LEMMA CreateStart == ASSUME StartInv, MainStep PROVE StartInv'
<1>. USE DEF StartInv, PcTyped, Threads, StartLabels, TaskLabels, BusyLabels, FaultLabels
<1>1. ASSUME NEW created \in BOOLEAN, CreateWorker(created) PROVE StartInv'
  BY <1>1 DEF CreateWorker, Starting, EnteredInTurn, ListInv, Entered, Linked, Other, Null,
              list_vars
<1>2. ASSUME NEW created \in BOOLEAN, CreateSlow(created) PROVE StartInv'
  BY <1>2 DEF CreateSlow, Starting, EnteredInTurn, ListInv, Entered, Linked, Other, Null,
              list_vars
<1>3. ASSUME CreateNone PROVE StartInv'
  BY <1>3 DEF CreateNone, Goto, Starting, EnteredInTurn, ListInv, Entered, Linked, Other, Null,
              list_vars
<1>. QED
  BY <1>1, <1>2, <1>3 DEF MainStep

LEMMA StepStart == StartInv /\ [Next]_vars => StartInv'
<1>. SUFFICES ASSUME StartInv, [Next]_vars PROVE StartInv'
  OBVIOUS
<1>. USE DEF TaskLabels, BusyLabels, FaultLabels, list_vars
<1>1. CASE UNCHANGED vars
  BY <1>1, SameStart DEF vars
<1>2. ASSUME NEW t \in Threads, Link(t) \/ Publish(t) PROVE StartInv'
  BY <1>2, LinkStart, PublishStart
<1>3. CASE MainStep
  BY <1>3, CreateStart
<1>4. ASSUME NEW t \in Threads, Handler(t) \/ Report(t) PROVE StartInv'
  BY <1>4, LoopStart DEF Handler, Report, Goto
<1>5. ASSUME NEW t \in Threads, FaultAgain(t) \/ FaultEnds(t) \/ Exit(t) PROVE StartInv'
  BY <1>5, SameStart DEF FaultAgain, FaultEnds, Exit, vars
<1>6. ASSUME NEW t \in Threads, DoTasks(t) PROVE StartInv'
  <2>1. CASE Empty
    BY <1>6, <2>1, LoopStart DEF DoTasks
  <2>2. CASE ~Empty
    BY <1>6, <2>2, LoopStart DEF DoTasks
  <2>. QED
    BY <2>1, <2>2
<1>7. ASSUME NEW t \in Threads, Dequeue(t) \/ Advance(t) PROVE StartInv'
  <2>1. t # "slow"
    BY <1>7 DEF Dequeue, Advance, StartInv, PcTyped, StartLabels
  <2>2. CASE Goto(t, "advance") \/ Goto(t, "run")
    BY <1>7, <2>1, <2>2, LoopStart DEF Dequeue, Advance
  <2>3. CASE UNCHANGED pc
    BY <1>7, <2>3, SameStart DEF Dequeue, Advance
  <2>. QED
    BY <1>7, <2>2, <2>3 DEF Dequeue, Advance
<1>8. ASSUME NEW t \in Threads, Run(t) PROVE StartInv'
  <2>1. t # "slow" /\ (Goto(t, "fault") \/ Goto(t, "do tasks"))
    BY <1>8 DEF Run, StartInv, PcTyped, StartLabels
  <2>. QED
    BY <1>8, <2>1, LoopStart DEF Run
<1>9. CASE RunSlow
  BY <1>9, LoopStart DEF RunSlow, Threads
<1>10. ASSUME NEW kind \in Kinds, Receive(kind) PROVE StartInv'
  <2>1. CASE run_async
    BY <1>10, <2>1, SameStart DEF Receive, DoTasksUnlessAsync
  <2>2. CASE ~run_async
    BY <1>10, <2>2, LoopStart DEF Receive, DoTasksUnlessAsync, Threads
  <2>. QED
    BY <2>1, <2>2
<1>. QED
  BY <1>1, <1>2, <1>3, <1>4, <1>5, <1>6, <1>7, <1>8, <1>9, <1>10 DEF Next, ThreadStep

LEMMA AlwaysStart == Spec => []StartInv
BY InitStart, StepStart, PTL DEF Spec

(* The handler finds every thread that has started, unless the worker and  *)
(* the slow thread pointed to the same head (error_signals.cpp:56); the    *)
(* main thread it always finds.                                            *)
THEOREM HandlerFinds == Spec => []FoundUnlessTogether
<1>1. StartInv => FoundUnlessTogether
  BY DEF StartInv, PcTyped, Starting, EnteredInTurn, ListInv, Entered, Linked, Other, Null,
         Threads, FoundUnlessTogether, GetThread, StartLabels
<1>. QED
  BY <1>1, AlwaysStart, PTL

-----------------------------------------------------------------------------
(* The tasks.  As long as only one of the worker and the main thread runs  *)
(* them, the one it holds is the last one that left the queue.             *)

TaskTyped ==
    /\ received \in Seq(Kinds)
    /\ front \in Nat
    /\ next_task \in [Threads -> Nat]
    /\ ran \in Seq(Nat)

Doers == {"main", "worker"}
Holding == \E t \in Doers : pc[t] = "run"

InTurn ==
    /\ ~corrupt
    /\ front \in 1 .. Len(received) + 1
    /\ \A t \in Doers :
          /\ pc[t] \in {"dequeue", "advance"} => front <= Len(received)
          /\ pc[t] = "advance" => next_task[t] = front
          /\ pc[t] = "run" => next_task[t] = front - 1
    /\ Len(ran) = front - (IF Holding THEN 2 ELSE 1)
    /\ \A k \in 1 .. Len(ran) : ran[k] = k

TaskInv == TaskTyped /\ (~HalfStarted => InTurn)

IndInv == StartInv /\ TaskInv

-----------------------------------------------------------------------------
LEMMA InitTask == Init => TaskInv
<1>. SUFFICES ASSUME Init PROVE TaskInv
  OBVIOUS
<1>1. << >> \in Seq(Kinds) /\ << >> \in Seq(Nat) /\ Len(<< >>) = 0
  BY EmptySeq
<1>2. TaskTyped
  BY <1>1 DEF Init, TaskTyped
<1>3. InTurn
  BY <1>1 DEF Init, InTurn, Holding, Doers, Threads
<1>. QED
  BY <1>2, <1>3 DEF TaskInv

(* Once half started, always: the main thread creates nobody any more.     *)
LEMMA HalfStartedForGood ==
    ASSUME StartInv, [Next]_vars, HalfStarted PROVE HalfStarted'
<1>1. /\ DOMAIN pc = Threads /\ pc["slow"] = "none" /\ ~run_async
      /\ pc["worker"] \notin {"none", "link", "publish"}
      /\ pc["main"] \notin {"create worker", "create slow"}
  BY DEF StartInv, PcTyped, Starting, HalfStarted, Entered
<1>. USE <1>1 DEF HalfStarted, Entered, Threads, Goto, Kinds
<1>2. CASE UNCHANGED vars
  BY <1>2 DEF vars
<1>3. CASE MainStep
  BY <1>3 DEF MainStep, CreateNone, CreateWorker, CreateSlow
<1>4. ASSUME NEW t \in Threads, ThreadStep(t) PROVE HalfStarted'
  <2>1. pc[t] # "none" /\ run_async' = run_async
    BY <1>4 DEF ThreadStep, Link, Publish, Handler, FaultEnds, Report, Exit, DoTasks, Dequeue,
                Advance, Run
  <2>2. \/ UNCHANGED pc
        \/ \E label : pc' = [pc EXCEPT ![t] = label] /\ label \notin {"none", "link"}
                    /\ (label = "publish" => pc[t] = "link")
    BY <1>4 DEF ThreadStep, Link, Publish, Handler, FaultEnds, Report, Exit, DoTasks, Dequeue,
                Advance, Run
  <2>. QED
    BY <2>1, <2>2
<1>5. ASSUME NEW t \in Threads, FaultAgain(t) PROVE HalfStarted'
  BY <1>5 DEF FaultAgain, vars
<1>6. CASE RunSlow
  BY <1>6 DEF RunSlow
<1>7. ASSUME NEW kind \in Kinds, Receive(kind) PROVE HalfStarted'
  BY <1>7 DEF Receive, DoTasksUnlessAsync
<1>. QED
  BY <1>2, <1>3, <1>4, <1>5, <1>6, <1>7 DEF Next

(* Unless half started, the main thread runs tasks or the worker does, and *)
(* not both.                                                               *)
LEMMA OneDoer ==
    ASSUME StartInv, ~HalfStarted
    PROVE  /\ ~(pc["main"] \in BusyLabels /\ pc["worker"] \in BusyLabels)
           /\ pc["slow"] \notin TaskLabels
BY DEF StartInv, PcTyped, Starting, HalfStarted, Entered, BusyLabels, TaskLabels, FaultLabels,
       StartLabels

(* A step that takes no task and no thread in or out of its hands.         *)
LEMMA SameTask ==
    ASSUME StartInv, StartInv', TaskInv, HalfStarted => HalfStarted',
           UNCHANGED <<received, front, next_task, corrupt, ran>>,
           \A t \in Doers : pc'[t] \in TaskLabels \/ pc[t] \in TaskLabels => pc'[t] = pc[t]
    PROVE  TaskInv'
<1>1. Holding' <=> Holding
  BY DEF Holding, Doers, TaskLabels
<1>. QED
  BY <1>1 DEF TaskInv, TaskTyped, InTurn, Doers, TaskLabels

(* do_tasks, of the worker or the main thread.                             *)
LEMMA DoTasksTask ==
    ASSUME StartInv, StartInv', TaskInv, HalfStarted => HalfStarted',
           NEW t \in Threads, DoTasks(t)
    PROVE  TaskInv'
<1>. USE DEF Threads, Doers, Holding
<1>1. /\ t \in Doers /\ pc[t] = "do tasks" /\ DOMAIN pc = Threads
      /\ UNCHANGED <<received, front, next_task, corrupt, ran>>
  BY DEF DoTasks, StartInv, PcTyped, task_vars
<1>2. CASE Empty
  BY <1>1, <1>2, SameTask DEF DoTasks, Goto, TaskLabels
<1>3. CASE ~Empty
  <2>1. pc' = [pc EXCEPT ![t] = "dequeue"] /\ front # Len(received) + 1
    BY <1>3 DEF DoTasks, Goto, Empty
  <2>2. Holding' <=> Holding
    BY <1>1, <2>1
  <2>3. TaskTyped'
    BY <1>1 DEF TaskInv, TaskTyped
  <2>4. ASSUME ~HalfStarted PROVE InTurn'
    <3>1. InTurn /\ Len(received) \in Nat
      BY <2>4, LenProperties DEF TaskInv, TaskTyped
    <3>2. front' <= Len(received')
      <4>1. front \in 1 .. Len(received) + 1
        BY <3>1 DEF InTurn
      <4>2. front <= Len(received)
        BY <2>1, <3>1, <4>1
      <4>. QED
        BY <1>1, <4>2
    <3>. QED
      BY <1>1, <2>1, <2>2, <3>1, <3>2 DEF InTurn
  <2>. QED
    BY <2>3, <2>4 DEF TaskInv
<1>. QED
  BY <1>2, <1>3

(* The two halves of a dequeue: with one doer the node it remembers is     *)
(* still the front when it moves on.                                       *)
LEMMA DequeueTask ==
    ASSUME StartInv, StartInv', TaskInv, HalfStarted => HalfStarted',
           NEW t \in Threads, Dequeue(t)
    PROVE  TaskInv'
<1>. USE DEF Threads, Doers, Holding
<1>1. /\ t \in Doers /\ pc[t] = "dequeue" /\ DOMAIN pc = Threads
      /\ UNCHANGED <<received, front, ran>>
  BY DEF Dequeue, StartInv, PcTyped, StartLabels, FaultLabels
<1>2. CASE Empty
  <2>1. UNCHANGED <<next_task, pc>>
    BY <1>2 DEF Dequeue
  <2>2. HalfStarted
    BY <1>1, <1>2, LenProperties DEF TaskInv, TaskTyped, InTurn, Empty
  <2>. QED
    BY <1>1, <2>1, <2>2 DEF TaskInv, TaskTyped
<1>3. CASE ~Empty
  <2>1. /\ next_task' = [next_task EXCEPT ![t] = front] /\ corrupt' = corrupt
        /\ pc' = [pc EXCEPT ![t] = "advance"]
    BY <1>3 DEF Dequeue, Goto
  <2>2. Holding' <=> Holding
    BY <1>1, <2>1
  <2>3. TaskTyped'
    BY <1>1, <2>1 DEF TaskInv, TaskTyped
  <2>4. ASSUME ~HalfStarted PROVE InTurn'
    BY <1>1, <2>1, <2>2, <2>4 DEF TaskInv, TaskTyped, InTurn
  <2>. QED
    BY <2>3, <2>4 DEF TaskInv
<1>. QED
  BY <1>2, <1>3

LEMMA AdvanceTask ==
    ASSUME StartInv, StartInv', TaskInv, HalfStarted => HalfStarted',
           NEW t \in Threads, Advance(t)
    PROVE  TaskInv'
<1>. USE DEF Threads, Doers, Holding
<1>1. /\ t \in Doers /\ pc[t] = "advance" /\ DOMAIN pc = Threads
      /\ front' = front + 1 /\ corrupt' = (front # next_task[t])
      /\ pc' = [pc EXCEPT ![t] = "run"]
      /\ UNCHANGED <<received, next_task, ran>>
  BY DEF Advance, Goto, StartInv, PcTyped, StartLabels, FaultLabels
<1>2. TaskTyped'
  BY <1>1 DEF TaskInv, TaskTyped
<1>3. ASSUME ~HalfStarted PROVE InTurn'
  <2>1. InTurn /\ Len(received) \in Nat /\ Len(ran) \in Nat /\ front \in Nat
    BY <1>3, LenProperties DEF TaskInv, TaskTyped
  <2>2. \A s \in Doers : s # t => pc[s] \notin TaskLabels
    BY <1>1, <1>3, OneDoer DEF TaskLabels, BusyLabels
  <2>3. ~Holding /\ Holding'
    BY <1>1, <2>2 DEF TaskLabels
  <2>4. front = next_task[t] /\ front <= Len(received)
    BY <1>1, <2>1 DEF InTurn
  <2>5. \A s \in Doers : s # t => pc'[s] \notin TaskLabels
    BY <1>1, <2>2
  <2>6. ~corrupt'
    BY <1>1, <2>4
  <2>7. front' \in 1 .. Len(received') + 1
    BY <1>1, <2>1, <2>4
  <2>8. Len(ran') = front' - (IF Holding' THEN 2 ELSE 1)
    BY <1>1, <2>1, <2>3 DEF InTurn
  <2>9. \A s \in Doers :
          /\ pc'[s] \in {"dequeue", "advance"} => front' <= Len(received')
          /\ pc'[s] = "advance" => next_task'[s] = front'
          /\ pc'[s] = "run" => next_task'[s] = front' - 1
    BY <1>1, <2>1, <2>4, <2>5 DEF TaskLabels
  <2>. QED
    BY <1>1, <2>1, <2>6, <2>7, <2>8, <2>9 DEF InTurn
<1>. QED
  BY <1>2, <1>3 DEF TaskInv

(* A task is run: the one after the last one that was.                     *)
LEMMA RunTask ==
    ASSUME StartInv, StartInv', TaskInv, HalfStarted => HalfStarted',
           NEW t \in Threads, Run(t)
    PROVE  TaskInv'
<1>. USE DEF Threads, Doers, Holding
<1>1. /\ t \in Doers /\ pc[t] = "run" /\ DOMAIN pc = Threads
      /\ ran' = Append(ran, next_task[t])
      /\ pc' = [pc EXCEPT ![t] = "fault"] \/ pc' = [pc EXCEPT ![t] = "do tasks"]
      /\ UNCHANGED <<received, front, next_task, corrupt>>
  BY DEF Run, Goto, StartInv, PcTyped, StartLabels, FaultLabels
<1>. ran \in Seq(Nat) /\ next_task[t] \in Nat
  BY <1>1 DEF TaskInv, TaskTyped
<1>2. /\ ran' \in Seq(Nat) /\ Len(ran) \in Nat /\ Len(ran') = Len(ran) + 1
      /\ \A k \in 1 .. Len(ran) : ran'[k] = ran[k]
      /\ ran'[Len(ran) + 1] = next_task[t]
  <2>1. ran' = Append(ran, next_task[t])
    BY <1>1
  <2>. QED
    BY <2>1, AppendProperties, LenProperties
<1>3. TaskTyped'
  BY <1>1, <1>2 DEF TaskInv, TaskTyped
<1>4. ASSUME ~HalfStarted PROVE InTurn'
  <2>1. InTurn /\ Len(received) \in Nat /\ front \in Nat
    BY <1>4, LenProperties DEF TaskInv, TaskTyped
  <2>2. \A s \in Doers : s # t => pc[s] \notin TaskLabels
    BY <1>1, <1>4, OneDoer DEF TaskLabels, BusyLabels
  <2>3. Holding /\ \A s \in Doers : pc'[s] \notin TaskLabels
    BY <1>1, <2>2 DEF TaskLabels
  <2>4. Len(ran) = front - 2 /\ next_task[t] = front - 1
    BY <1>1, <2>1, <2>3 DEF InTurn
  <2>5. Len(ran') = front' - (IF Holding' THEN 2 ELSE 1)
    <3>1. Len(ran') = front - 1
      BY <1>2, <2>1, <2>4
    <3>2. ~Holding' /\ front' = front
      BY <1>1, <2>3 DEF TaskLabels
    <3>. QED
      BY <3>1, <3>2
  <2>6. \A k \in 1 .. Len(ran') : ran'[k] = k
    BY <1>2, <2>1, <2>4 DEF InTurn
  <2>. QED
    BY <1>1, <2>1, <2>3, <2>5, <2>6 DEF InTurn, TaskLabels
<1>. QED
  BY <1>3, <1>4 DEF TaskInv

(* A message arrives: its task comes behind the others.                    *)
LEMMA ReceiveTask ==
    ASSUME StartInv, StartInv', TaskInv, HalfStarted => HalfStarted',
           NEW kind \in Kinds, Receive(kind)
    PROVE  TaskInv'
<1>. USE DEF Threads, Doers, Holding
<1>1. /\ DOMAIN pc = Threads /\ pc["main"] = "service"
      /\ received' = Append(received, kind)
      /\ UNCHANGED pc \/ pc' = [pc EXCEPT !["main"] = "do tasks"]
      /\ UNCHANGED <<front, next_task, corrupt, ran>>
  BY DEF Receive, DoTasksUnlessAsync, Goto, StartInv, PcTyped
<1>2. received' \in Seq(Kinds) /\ Len(received) \in Nat /\ Len(received') = Len(received) + 1
  BY <1>1, AppendProperties, LenProperties DEF TaskInv, TaskTyped
<1>3. \A s \in Doers : pc'[s] \in TaskLabels \/ pc[s] \in TaskLabels => pc'[s] = pc[s]
  BY <1>1 DEF TaskLabels
<1>4. Holding' <=> Holding
  BY <1>3 DEF TaskLabels
<1>5. TaskTyped'
  BY <1>1, <1>2 DEF TaskInv, TaskTyped
<1>6. ASSUME ~HalfStarted PROVE InTurn'
  <2>1. InTurn /\ front \in Nat
    BY <1>6 DEF TaskInv, TaskTyped
  <2>2. front' \in 1 .. Len(received') + 1
    <3>1. front \in 1 .. Len(received) + 1
      BY <2>1 DEF InTurn
    <3>2. front \in 1 .. Len(received') + 1
      BY <1>2, <3>1
    <3>. QED
      BY <1>1, <3>2
  <2>3. \A t \in Doers :
          /\ pc'[t] \in {"dequeue", "advance"} => front' <= Len(received')
          /\ pc'[t] = "advance" => next_task'[t] = front'
          /\ pc'[t] = "run" => next_task'[t] = front' - 1
    <3>1. ASSUME front <= Len(received) PROVE front <= Len(received')
      BY <1>2, <2>1, <3>1
    <3>. QED
      BY <1>1, <1>3, <2>1, <3>1 DEF InTurn, TaskLabels
  <2>4. Len(ran') = front' - (IF Holding' THEN 2 ELSE 1)
    BY <1>1, <1>4, <2>1 DEF InTurn
  <2>. QED
    BY <1>1, <2>1, <2>2, <2>3, <2>4 DEF InTurn
<1>. QED
  BY <1>5, <1>6 DEF TaskInv

LEMMA StepTask == StartInv /\ StartInv' /\ TaskInv /\ [Next]_vars => TaskInv'
<1>. SUFFICES ASSUME StartInv, StartInv', TaskInv, [Next]_vars PROVE TaskInv'
  OBVIOUS
<1>1. HalfStarted => HalfStarted'
  BY HalfStartedForGood
<1>2. DOMAIN pc = Threads
  BY DEF StartInv, PcTyped
<1>3. CASE UNCHANGED vars
  BY <1>1, <1>3, SameTask DEF vars, task_vars
<1>4. CASE MainStep \/ RunSlow
  <2>1. UNCHANGED <<received, front, next_task, corrupt, ran>>
    BY <1>4 DEF MainStep, CreateNone, CreateWorker, CreateSlow, RunSlow, task_vars
  <2>2. \A t \in Doers : pc'[t] \in TaskLabels \/ pc[t] \in TaskLabels => pc'[t] = pc[t]
    <3>. USE <1>2 DEF Doers, Threads, TaskLabels, Goto
    <3>1. ASSUME NEW created \in BOOLEAN, CreateWorker(created) 
          PROVE  \A t \in Doers :
                     pc'[t] \in TaskLabels \/ pc[t] \in TaskLabels => pc'[t] = pc[t]
      BY <3>1 DEF CreateWorker, StartInv, Starting
    <3>2. ASSUME NEW created \in BOOLEAN, CreateSlow(created) 
          PROVE  \A t \in Doers :
                     pc'[t] \in TaskLabels \/ pc[t] \in TaskLabels => pc'[t] = pc[t]
      BY <3>2 DEF CreateSlow
    <3>3. CASE CreateNone \/ RunSlow
      BY <3>3 DEF CreateNone, RunSlow
    <3>. QED
      BY <1>4, <3>1, <3>2, <3>3 DEF MainStep
  <2>. QED
    BY <1>1, <2>1, <2>2, SameTask
<1>5. ASSUME NEW t \in Threads,
             Link(t) \/ Publish(t) \/ Handler(t) \/ FaultEnds(t) \/ FaultAgain(t)
                 \/ Report(t) \/ Exit(t)
      PROVE  TaskInv'
  BY <1>1, <1>2, <1>5, SameTask
     DEF Link, Publish, Handler, FaultEnds, FaultAgain, Report, Exit, vars, task_vars, Goto,
         Doers, Threads, TaskLabels
<1>6. ASSUME NEW t \in Threads, DoTasks(t) \/ Dequeue(t) \/ Advance(t) \/ Run(t)
      PROVE  TaskInv'
  BY <1>1, <1>6, DoTasksTask, DequeueTask, AdvanceTask, RunTask
<1>7. ASSUME NEW kind \in Kinds, Receive(kind) PROVE TaskInv'
  BY <1>1, <1>7, ReceiveTask
<1>. QED
  BY <1>3, <1>4, <1>5, <1>6, <1>7 DEF Next, ThreadStep

LEMMA AlwaysInv == Spec => []IndInv
<1>1. Init => IndInv
  BY InitStart, InitTask DEF IndInv
<1>2. IndInv /\ [Next]_vars => IndInv'
  BY StepStart, StepTask DEF IndInv
<1>. QED
  BY <1>1, <1>2, PTL DEF Spec

(* The tasks are run one after the other, each once, by one thread, unless *)
(* the second pthread_create failed after the first (websocket.cpp:357).   *)
THEOREM TasksRunOnce == Spec => []OnceUnlessHalfStarted
<1>1. ASSUME IndInv, ~HalfStarted PROVE ~corrupt /\ ran = [k \in 1 .. Len(ran) |-> k]
  <2>1. InTurn /\ ran \in Seq(Nat)
    BY <1>1 DEF IndInv, TaskInv, TaskTyped
  <2>2. ran \in [1 .. Len(ran) -> Nat]
    BY <2>1, LenProperties
  <2>. QED
    BY <2>1, <2>2 DEF InTurn
<1>2. IndInv => OnceUnlessHalfStarted
  BY <1>1 DEF OnceUnlessHalfStarted
<1>. QED
  BY <1>2, AlwaysInv, PTL
=============================================================================
