---------------------------- MODULE MessagesProofs ----------------------------
(***************************************************************************)
(* Theorems about the way of a command from the client to its answer.      *)
(* Each is a task: it is run once and in order, and a wake-up is lost in   *)
(* one way only (TaskQueue).  The server reads in it what the client wrote *)
(* if both count alike, whatever the text; and the parts of the answer fit *)
(* unless it is a long list (Messages).                                    *)
(***************************************************************************)
EXTENDS TaskQueue, Messages, SequenceTheorems, WellFoundedInduction, TLAPS

(* List is a queue of its own: its actions, as steps of this module. *)
LEMMA ListActions ==
    /\ List!Init <=> queue = << >> /\ current = 0
    /\ List!Enqueue(added) <=> queue' = Append(queue, added) /\ current' = current
    /\ List!Dequeue <=> queue # << >> /\ current' = Head(queue) /\ queue' = Tail(queue)
BY DEF List!Init, List!Enqueue, List!Dequeue

-----------------------------------------------------------------------------
(* What the invariants rest on.                                            *)

(* Only the worker takes tasks, so the one it has seen is still there; and *)
(* only the adder adds them, so a queue it has seen empty stays empty.     *)
SeenIsTrue ==
    /\ worker = "dequeue" => queue # << >>
    /\ adder = "enqueue" /\ was_queue_empty => queue = << >>

(* A worker on its way to sleep while there is a task, the adder having    *)
(* seen the queue empty, finds the mutex unlocked or is about to.          *)
WakeUpDue ==
    was_queue_empty /\ ~empty /\ worker \in {"lock", "asleep"}
        => adder \in {"trylock", "unlock"} \/ queue_mutex = "unlocked"

IndInv == TypeOK /\ SeenIsTrue /\ OnceInOrder /\ WakeUpDue

-----------------------------------------------------------------------------
LEMMA InitInv == Init => IndInv
<1>1. << >> \in Seq(Tasks) /\ Len(<< >>) = 0
  BY EmptySeq
<1>2. Init => queue = << >> /\ current = 0
  BY ListActions DEF Init
<1>3. Init => TypeOK
  <2>1. Init => was_queue_empty \in BOOLEAN
    BY DEF Init
  <2>. QED
    BY <1>1, <1>2, <2>1, TaskQueueAssumption DEF Init, TypeOK
<1>4. Init => OnceInOrder
  BY <1>1, <1>2 DEF Init, OnceInOrder, Dequeued, Enqueued
<1>5. Init => SeenIsTrue /\ WakeUpDue
  BY DEF Init, SeenIsTrue, WakeUpDue
<1>. QED
  BY <1>3, <1>4, <1>5 DEF IndInv

(* The thread that adds tasks: the new one comes behind all the others.    *)
LEMMA AdderInv == ASSUME IndInv, AddTask \/ Adder PROVE IndInv'
<1>. USE DEF IndInv, TypeOK, SeenIsTrue, OnceInOrder, WakeUpDue, Dequeued, Enqueued, empty,
             mutex, adding, working
<1>1. CASE AddTask
  <2>1. /\ UNCHANGED <<queue, current, queue_mutex, worker, done>>
        /\ adder = "idle" /\ adder' = "enqueue" /\ added < MaxTasks /\ added' = added + 1
        /\ was_queue_empty' = empty
    BY <1>1 DEF AddTask
  <2>2. TypeOK'
    BY <2>1, TaskQueueAssumption
  <2>3. SeenIsTrue'
    BY <2>1
  <2>4. OnceInOrder'
    BY <2>1
  <2>5. WakeUpDue'
    BY <2>1
  <2>. QED
    BY <2>2, <2>3, <2>4, <2>5
<1>2. CASE EnqueueTask
  <2>1. queue' = Append(queue, added) /\ current' = current
    BY <1>2, ListActions DEF EnqueueTask
  <2>2. Len(queue) \in Nat
    BY LenProperties
  <2>3. added \in Tasks
    BY <1>2, <2>2, TaskQueueAssumption DEF EnqueueTask, Tasks
  <2>4. /\ queue' \in Seq(Tasks)
        /\ Len(queue') = Len(queue) + 1
        /\ \A k \in 1 .. Len(queue) : queue'[k] = queue[k]
        /\ queue'[Len(queue) + 1] = added
    BY <2>1, <2>3, AppendProperties
  <2>5. /\ UNCHANGED <<was_queue_empty, added, queue_mutex, worker, done>>
        /\ adder = "enqueue" /\ adder' = IF was_queue_empty THEN "trylock" ELSE "idle"
    BY <1>2 DEF EnqueueTask
  <2>6. TypeOK' /\ SeenIsTrue'
    BY <2>1, <2>4, <2>5
  <2>7. OnceInOrder'
    <3>1. Dequeued \in Nat /\ Dequeued' = Dequeued /\ added \in Nat /\ Enqueued' = added
      BY <2>3, <2>5, TaskQueueAssumption DEF Tasks
    <3>2. Dequeued' + Len(queue') = Enqueued'
      BY <2>2, <2>4, <2>5, <3>1
    <3>3. \A k \in 1 .. Len(queue') : queue'[k] = Dequeued' + k
      BY <2>2, <2>4, <2>5, <3>1
    <3>4. worker' = "run" => current' = done' + 1
      BY <2>1, <2>5
    <3>. QED
      BY <3>2, <3>3, <3>4
  <2>8. WakeUpDue'
    BY <2>4, <2>5
  <2>. QED
    BY <2>6, <2>7, <2>8
<1>3. CASE AdderTryLock
  BY <1>3 DEF AdderTryLock
<1>4. CASE AdderUnlock
  BY <1>4 DEF AdderUnlock
<1>. QED
  BY <1>1, <1>2, <1>3, <1>4 DEF Adder

(* The worker: it takes the oldest task, which is the next in the order.   *)
LEMMA WorkerInv == ASSUME IndInv, Worker PROVE IndInv'
<1>. USE DEF IndInv, TypeOK, SeenIsTrue, OnceInOrder, WakeUpDue, Dequeued, Enqueued, empty,
             mutex, adding, working
<1>1. CASE WaitForTasks
  BY <1>1 DEF WaitForTasks
<1>2. CASE Lock \/ WakeUp \/ Timeout
  BY <1>2 DEF Lock, WakeUp, Timeout
<1>3. CASE Recheck \/ WorkerTryLock \/ WorkerUnlock
  BY <1>3 DEF Recheck, WorkerTryLock, WorkerUnlock
<1>4. CASE DoTasks
  BY <1>4 DEF DoTasks
<1>5. CASE DequeueTask
  <2>1. queue # << >> /\ current' = Head(queue) /\ queue' = Tail(queue)
    BY <1>5, ListActions DEF DequeueTask
  <2>2. /\ queue' \in Seq(Tasks)
        /\ Len(queue') = Len(queue) - 1
        /\ \A k \in 1 .. Len(queue') : queue'[k] = queue[k + 1]
    BY <2>1, HeadTailProperties
  <2>3. Len(queue) \in Nat \ {0} /\ Head(queue) = queue[1]
    BY <2>1, EmptySeq
  <2>4. current' = done + 1
    BY <1>5, <2>1, <2>3 DEF DequeueTask
  <2>. QED
    BY <1>5, <2>1, <2>2, <2>3, <2>4 DEF DequeueTask
<1>6. CASE RunTask
  BY <1>6 DEF RunTask
<1>7. CASE FinishTasks
  BY <1>7 DEF FinishTasks
<1>. QED
  BY <1>1, <1>2, <1>3, <1>4, <1>5, <1>6, <1>7 DEF Worker

LEMMA StepInv == IndInv /\ [Next]_vars => IndInv'
<1>1. IndInv /\ UNCHANGED vars => IndInv'
  BY DEF IndInv, TypeOK, SeenIsTrue, OnceInOrder, WakeUpDue, Dequeued, Enqueued, empty,
         vars, mutex, adding, working
<1>. QED
  BY <1>1, AdderInv, WorkerInv DEF Next

LEMMA AlwaysInv == Spec => []IndInv
BY InitInv, StepInv, PTL DEF Spec

-----------------------------------------------------------------------------
(* Between the tasks that ran and those still to be enqueued, the list     *)
(* holds the rest without a gap or a repetition, for any number of tasks   *)
(* and however the steps of add_task and do_tasks come.                    *)
THEOREM TasksOnceInOrder == Spec => []OnceInOrder
<1>1. IndInv => OnceInOrder
  BY DEF IndInv
<1>. QED
  BY <1>1, AlwaysInv, PTL

(* The worker sleeps while a task waits only if the latest add_task read a *)
(* queue that was not empty (tasks.cpp:52), timed lock or not.             *)
THEOREM WakeUpsLostOneWay == Spec => []OversleptOnlyAfterStaleRead
<1>1. IndInv => OversleptOnlyAfterStaleRead
  BY DEF IndInv, TypeOK, SeenIsTrue, WakeUpDue, OversleptOnlyAfterStaleRead, Overslept, empty
<1>. QED
  BY <1>1, AlwaysInv, PTL

-----------------------------------------------------------------------------
(* How long the parts of a message are, whatever is in them.               *)

IsSeq(s) == \E S : s \in Seq(S)
Long(s, n) == IsSeq(s) /\ Len(s) = n

LEMMA LongConcat ==
    ASSUME NEW s, NEW m \in Nat, Long(s, m), NEW t, NEW n \in Nat, Long(t, n)
    PROVE  Long(s \o t, m + n)
<1>1. PICK S : s \in Seq(S)
  BY DEF Long, IsSeq
<1>2. PICK T : t \in Seq(T)
  BY DEF Long, IsSeq
<1>3. s \in Seq(S \cup T) /\ t \in Seq(S \cup T)
  BY <1>1, <1>2
<1>4. s \o t \in Seq(S \cup T) /\ Len(s \o t) = Len(s) + Len(t)
  BY <1>3, ConcatProperties
<1>. QED
  BY <1>4 DEF Long, IsSeq

LEMMA Least ==
    ASSUME NEW T, T \subseteq Nat, T # {}
    PROVE  \E m \in T : \A k \in T : m <= k
<1>1. PICK x \in T : \A y \in T : ~ (<<y, x>> \in OpToRel(<, Nat))
  BY NatLessThanWellFounded, WFMin
<1>2. ASSUME NEW y \in T PROVE ~(y < x)
  <2>1. ~ (<<y, x>> \in OpToRel(<, Nat))
    BY <1>1
  <2>2. y < x => <<y, x>> \in OpToRel(<, Nat)
    BY DEF OpToRel
  <2>. QED
    BY <2>1, <2>2
<1>. QED
  BY <1>2

(* The first m of the sequences, one after the other. *)
Flattens(g, seqs, m) ==
    g = [i \in 1 .. m |-> IF i = 1 THEN seqs[i] ELSE g[i - 1] \o seqs[i]]

(* FlattenSeq's recursion has a solution. *)
LEMMA FlattensExists ==
    ASSUME NEW seqs, NEW n \in Nat
    PROVE  \E g : Flattens(g, seqs, n)
<1>. DEFINE Bad == {m \in Nat : ~\E g : Flattens(g, seqs, m)}
<1>. SUFFICES ASSUME Bad # {} PROVE FALSE
  OBVIOUS
<1>1. PICK m \in Bad : \A k \in Bad : m <= k
  <2>1. Bad \subseteq Nat
    OBVIOUS
  <2>. HIDE DEF Bad
  <2>. QED
    BY <2>1, Least
<1>2. m \in Nat /\ ~\E g : Flattens(g, seqs, m)
  OBVIOUS
<1>3. m # 0
  <2>. DEFINE g == [i \in 1 .. 0 |-> 0]
  <2>1. Flattens(g, seqs, 0)
    BY DEF Flattens
  <2>. QED
    BY <1>2, <2>1
<1>4. m - 1 \in Nat /\ ~(m <= m - 1)
  BY <1>2, <1>3
<1>5. PICK g : Flattens(g, seqs, m - 1)
  <2>1. m - 1 \notin Bad
    <3>. HIDE DEF Bad
    <3>. QED
      BY <1>1, <1>4
  <2>. QED
    BY <1>4, <2>1
<1>. HIDE DEF Bad
<1>. DEFINE e == IF m = 1 THEN seqs[m] ELSE g[m - 1] \o seqs[m]
            h == [i \in 1 .. m |-> IF i = m THEN e ELSE g[i]]
<1>6. \A i \in 1 .. m - 1 : g[i] = IF i = 1 THEN seqs[i] ELSE g[i - 1] \o seqs[i]
  BY <1>5 DEF Flattens
<1>7. \A i \in 1 .. m : h[i] = IF i = m THEN e ELSE g[i]
  OBVIOUS
<1>8. ASSUME NEW i \in 1 .. m
      PROVE  h[i] = IF i = 1 THEN seqs[i] ELSE h[i - 1] \o seqs[i]
  <2>. HIDE DEF h
  <2>1. CASE i = m
    <3>1. h[i] = e
      BY <1>7, <2>1
    <3>2. m # 1 => m - 1 \in 1 .. m /\ m - 1 # m
      BY <1>2, <1>3
    <3>3. m # 1 => h[m - 1] = g[m - 1]
      BY <1>7, <3>2
    <3>. QED
      BY <2>1, <3>1, <3>3
  <2>2. CASE i # m
    <3>1. i \in 1 .. m - 1 /\ (i # 1 => i - 1 \in 1 .. m /\ i - 1 # m)
      BY <1>2, <2>2
    <3>2. h[i] = g[i] /\ (i # 1 => h[i - 1] = g[i - 1])
      BY <1>7, <2>2, <3>1
    <3>. QED
      BY <1>6, <3>1, <3>2
  <2>. QED
    BY <2>1, <2>2
<1>9. Flattens(h, seqs, m)
  BY <1>8 DEF Flattens
<1>. QED
  BY <1>2, <1>9

(* n sequences of c elements each make one of n * c. *)
LEMMA LongFlat ==
    ASSUME NEW n \in Nat, NEW seqs, Long(seqs, n),
           NEW c \in Nat, \A i \in 1 .. n : Long(seqs[i], c)
    PROVE  Long(FlattenSeq(seqs), n * c)
<1>1. CASE n = 0
  <2>1. FlattenSeq(seqs) = seqs /\ n * c = 0
    BY <1>1 DEF FlattenSeq, Long
  <2>. QED
    BY <1>1, <2>1
<1>2. CASE n # 0
  <2>. DEFINE g == CHOOSE f : Flattens(f, seqs, n)
  <2>1. FlattenSeq(seqs) = g[n]
    <3>1. Len(seqs) = n /\ ~(Len(seqs) = 0)
      BY <1>2 DEF Long
    <3>. QED
      BY <3>1 DEF FlattenSeq, Flattens
  <2>2. Flattens(g, seqs, n)
    BY FlattensExists
  <2>. HIDE DEF g
  <2>3. \A i \in 1 .. n : g[i] = IF i = 1 THEN seqs[i] ELSE g[i - 1] \o seqs[i]
    BY <2>2 DEF Flattens
  <2>. DEFINE Bad == {i \in 1 .. n : ~Long(g[i], i * c)}
  <2>4. Bad = {}
    <3>. SUFFICES ASSUME Bad # {} PROVE FALSE
      OBVIOUS
    <3>1. PICK i \in Bad : \A k \in Bad : i <= k
      <4>1. Bad \subseteq Nat
        OBVIOUS
      <4>. HIDE DEF Bad
      <4>. QED
        BY <4>1, Least
    <3>2. i \in 1 .. n /\ ~Long(g[i], i * c)
      OBVIOUS
    <3>3. i # 1
      <4>1. 1 * c = c
        OBVIOUS
      <4>. QED
        BY <2>3, <3>2, <4>1
    <3>4. i - 1 \in 1 .. n /\ i - 1 \in Nat /\ ~(i <= i - 1)
      BY <3>2, <3>3
    <3>5. Long(g[i - 1], (i - 1) * c)
      <4>1. i - 1 \notin Bad
        <5>. HIDE DEF Bad
        <5>. QED
          BY <3>1, <3>4
      <4>. QED
        BY <3>4, <4>1
    <3>. HIDE DEF Bad
    <3>6. (i - 1) * c \in Nat /\ (i - 1) * c + c = i * c
      BY <3>2, <3>4
    <3>7. Long(g[i - 1] \o seqs[i], (i - 1) * c + c)
      BY <3>2, <3>5, <3>6, LongConcat
    <3>8. g[i] = g[i - 1] \o seqs[i]
      BY <2>3, <3>2, <3>3
    <3>. QED
      BY <3>2, <3>6, <3>7, <3>8
  <2>5. n \in 1 .. n
    BY <1>2
  <2>. QED
    BY <2>1, <2>4, <2>5
<1>. QED
  BY <1>1, <1>2

LEMMA LongTuples ==
    ASSUME NEW a, NEW b, NEW c, NEW d, NEW e, NEW f
    PROVE  /\ Long(<<a>>, 1) /\ Long(<<a, b>>, 2) /\ Long(<<a, b, c>>, 3)
           /\ Long(<<a, b, c, d>>, 4) /\ Long(<<a, b, c, d, e, f>>, 6)
<1>1. <<a>> \in Seq({a}) /\ <<a, b>> \in Seq({a, b}) /\ <<a, b, c>> \in Seq({a, b, c})
  OBVIOUS
<1>2. <<a, b, c, d>> \in Seq({a, b, c, d}) /\ <<a, b, c, d, e, f>> \in Seq({a, b, c, d, e, f})
  OBVIOUS
<1>. QED
  BY <1>1, <1>2 DEF Long, IsSeq

LEMMA LongFunction ==
    ASSUME NEW n \in Nat, NEW f, DOMAIN f = 1 .. n, f = [k \in 1 .. n |-> f[k]]
    PROVE  Long(f, n)
<1>1. f \in [1 .. n -> {f[k] : k \in 1 .. n}]
  OBVIOUS
<1>2. f \in Seq({f[k] : k \in 1 .. n}) /\ Len(f) = n
  BY <1>1
<1>. QED
  BY <1>2 DEF Long, IsSeq

LEMMA LongDomain ==
    ASSUME NEW s, NEW n \in Nat, Long(s, n)
    PROVE  DOMAIN s = 1 .. n
<1>1. PICK S : s \in Seq(S)
  BY DEF Long, IsSeq
<1>. QED
  BY <1>1 DEF Long

LEMMA LongParts ==
    ASSUME NEW n, NEW b, NEW u
    PROVE  /\ Long(AddNumber(n), 2) /\ Long(AddText(b), 3)
           /\ Long(AddUser(u), 1) \/ Long(AddUser(u), 5)
           /\ Long(UserMeant(u), 2)
<1>1. Long(AddNumber(n), 2) /\ Long(AddText(b), 3)
  BY LongTuples DEF AddNumber, AddText
<1>2. Long(UserMeant(u), 2)
  BY LongTuples DEF UserMeant
<1>3. CASE u = Nobody
  BY <1>1, <1>2, <1>3, LongTuples DEF AddUser
<1>4. CASE u # Nobody
  <2>1. Long(AddNumber(u.userid), 2) /\ Long(AddText(u.username), 3)
    BY LongTuples DEF AddNumber, AddText
  <2>2. Long(AddNumber(u.userid) \o AddText(u.username), 2 + 3)
    BY <2>1, LongConcat
  <2>. QED
    BY <1>1, <1>2, <1>4, <2>2 DEF AddUser
<1>. QED
  BY <1>3, <1>4

LEMMA LongNumbers ==
    ASSUME NEW s, NEW n \in Nat, Long(s, n)
    PROVE  Long(AddNumbers(s), n * 2) /\ Long(Numbers(s), n)
<1>1. DOMAIN s = 1 .. n
  BY LongDomain
<1>. DEFINE f == [k \in DOMAIN s |-> AddNumber(s[k])]
            g == [k \in DOMAIN s |-> Number(s[k])]
<1>2. Long(f, n) /\ Long(g, n)
  <2>1. DOMAIN f = 1 .. n /\ f = [k \in 1 .. n |-> f[k]]
    BY <1>1
  <2>2. DOMAIN g = 1 .. n /\ g = [k \in 1 .. n |-> g[k]]
    BY <1>1
  <2>. HIDE DEF f, g
  <2>. QED
    BY <2>1, <2>2, LongFunction
<1>3. \A k \in 1 .. n : Long(f[k], 2)
  BY <1>1, LongParts
<1>. HIDE DEF f
<1>4. Long(FlattenSeq(f), n * 2)
  BY <1>2, <1>3, LongFlat
<1>. QED
  BY <1>2, <1>4 DEF f, AddNumbers, Numbers

LEMMA LongRepeated ==
    ASSUME NEW n \in Nat, NEW s, NEW c \in Nat, Long(s, c)
    PROVE  Long(Repeated(n, s), n * c)
<1>. DEFINE f == [k \in 1 .. n |-> s]
<1>1. DOMAIN f = 1 .. n /\ f = [k \in 1 .. n |-> f[k]] /\ \A k \in 1 .. n : Long(f[k], c)
  OBVIOUS
<1>. HIDE DEF f
<1>2. Long(f, n)
  BY <1>1, LongFunction
<1>3. Long(FlattenSeq(f), n * c)
  BY <1>1, <1>2, LongFlat
<1>. QED
  BY <1>3 DEF f, Repeated

LEMMA LongMessage ==
    ASSUME NEW body, NEW n \in Nat, Long(body, n), NEW m
    PROVE  /\ Long(Message(body, m).parts, 1 + n + 1)
           /\ Message(body, m).meant = m
<1>1. Long(<<Text(<<"(">>)>>, 1) /\ Long(<<Text(<<")">>)>>, 1)
  BY LongTuples
<1>2. Long(<<Text(<<"(">>)>> \o body, 1 + n)
  BY <1>1, LongConcat
<1>3. Long((<<Text(<<"(">>)>> \o body) \o <<Text(<<")">>)>>, (1 + n) + 1)
  BY <1>1, <1>2, LongConcat
<1>. QED
  BY <1>3 DEF Message

(* What is not a list has places enough, whatever it says. *)
Short(m) == \E k \in 1 .. BIGLIST_SIZE : Long(m.parts, k)

LEMMA ShortFits == ASSUME NEW m, Short(m) PROVE Fits(m.parts)
<1>1. PICK k \in 1 .. BIGLIST_SIZE : Long(m.parts, k)
  BY DEF Short
<1>2. Len(m.parts) = k /\ k <= BIGLIST_SIZE
  BY <1>1 DEF Long, BIGLIST_SIZE
<1>. QED
  BY <1>2 DEF Fits

LEMMA ShortIf ==
    ASSUME NEW body, NEW n \in 0 .. 40, Long(body, n), NEW m
    PROVE  Short(Message(body, m))
<1>1. Long(Message(body, m).parts, 1 + n + 1)
  BY LongMessage
<1>2. 1 + n + 1 \in 1 .. BIGLIST_SIZE
  BY DEF BIGLIST_SIZE
<1>. QED
  BY <1>1, <1>2 DEF Short

LEMMA ShortTexts ==
    ASSUME NEW id, NEW text
    PROVE  /\ Short(chat(id, text)) /\ Short(msg(id, text)) /\ Short(snap_message(text))
           /\ Short(chatroomcreated(id, text)) /\ Short(error(text, id))
           /\ Short(incorrect_system_password(id))
<1>1. /\ Long(AddText(text), 3) /\ Long(AddNumber(id), 2)
      /\ Long(AddNumbers(<<id, 2, 3, 4>>), 8) /\ Long(AddNumbers(<<id, 2, 3>>), 6)
      /\ Long(AddNumbers(<<id, 2>>), 4)
  <2>1. 4 * 2 = 8 /\ 3 * 2 = 6 /\ 2 * 2 = 4
    OBVIOUS
  <2>2. Long(<<id, 2, 3, 4>>, 4) /\ Long(<<id, 2, 3>>, 3) /\ Long(<<id, 2>>, 2)
    BY LongTuples
  <2>3. /\ Long(AddNumbers(<<id, 2, 3, 4>>), 4 * 2) /\ Long(AddNumbers(<<id, 2, 3>>), 3 * 2)
        /\ Long(AddNumbers(<<id, 2>>), 2 * 2)
    BY <2>2, LongNumbers
  <2>. QED
    BY <2>1, <2>3, LongParts
<1>2. /\ Long(AddNumbers(<<1, 2, 3, 4>>), 8) /\ Long(AddNumbers(<<0, 6>>), 4)
      /\ Long(AddNumbers(<<4, 5>>), 4)
  <2>1. 4 * 2 = 8 /\ 2 * 2 = 4
    OBVIOUS
  <2>2. Long(<<1, 2, 3, 4>>, 4) /\ Long(<<0, 6>>, 2) /\ Long(<<4, 5>>, 2)
    BY LongTuples
  <2>3. /\ Long(AddNumbers(<<1, 2, 3, 4>>), 4 * 2) /\ Long(AddNumbers(<<0, 6>>), 2 * 2)
        /\ Long(AddNumbers(<<4, 5>>), 2 * 2)
    BY <2>2, LongNumbers
  <2>. QED
    BY <2>1, <2>3
<1>3. Short(chat(id, text))
  <2>1. Long(AddNumbers(<<id, 2, 3, 4>>) \o AddText(text), 8 + 3)
    BY <1>1, LongConcat
  <2>. QED
    BY <2>1, ShortIf DEF chat
<1>4. Short(msg(id, text))
  <2>1. Long(AddNumbers(<<id, 2, 3>>) \o AddText(text), 6 + 3)
    BY <1>1, LongConcat
  <2>. QED
    BY <2>1, ShortIf DEF msg
<1>5. Short(snap_message(text))
  <2>. DEFINE blank == <<Text(<<" ">>)>>
              four == AddNumbers(<<1, 2, 3, 4>>)
              two == AddNumbers(<<0, 6>>)
  <2>1. Long(blank, 1) /\ Long(four, 8) /\ Long(two, 4)
    BY <1>2, LongTuples
  <2>2. snap_message(text).parts = Message(four \o blank \o two \o AddText(text), << >>).parts
    BY DEF snap_message, Message
  <2>. HIDE DEF blank, four, two
  <2>3. Long(four \o blank, 8 + 1)
    BY <2>1, LongConcat
  <2>4. Long(four \o blank \o two, 9 + 4)
    BY <2>1, <2>3, LongConcat
  <2>5. Long(four \o blank \o two \o AddText(text), 13 + 3)
    BY <1>1, <2>4, LongConcat
  <2>6. Short(Message(four \o blank \o two \o AddText(text), << >>))
    BY <2>5, ShortIf
  <2>. QED
    BY <2>2, <2>6 DEF Short
<1>6. Short(chatroomcreated(id, text))
  <2>1. Long(AddNumbers(<<id, 2>>) \o AddText(text), 4 + 3)
    BY <1>1, LongConcat
  <2>2. Long(AddNumbers(<<id, 2>>) \o AddText(text) \o AddNumbers(<<4, 5>>), 7 + 4)
    BY <1>2, <2>1, LongConcat
  <2>. QED
    BY <2>2, ShortIf DEF chatroomcreated
<1>7. Short(error(text, id))
  <2>1. Long(AddText(text) \o AddNumber(id), 3 + 2)
    BY <1>1, LongConcat
  <2>. QED
    BY <2>1, ShortIf DEF error
<1>8. Short(incorrect_system_password(id))
  <2>. DEFINE body == <<Text(<<"2", ",", "a">>), Number(id)>>
              values == <<Text(<<"a">>), Number(id)>>
  <2>1. Long(body, 2)
    BY LongTuples
  <2>2. incorrect_system_password(id) = Message(body, values)
    BY DEF incorrect_system_password
  <2>. HIDE DEF body, values
  <2>. QED
    BY <2>1, <2>2, ShortIf
<1>. QED
  BY <1>3, <1>4, <1>5, <1>6, <1>7, <1>8

LEMMA ShortUsers ==
    ASSUME NEW id, NEW u, NEW text
    PROVE  /\ Short(userjoinedchatroom(id, u)) /\ Short(userleftchatroom(id, u))
           /\ Short(privatemessage(u, text))
<1>1. PICK n \in {1, 5} : Long(AddUser(u), n)
  BY LongParts
<1>2. Long(AddNumbers(<<id, 2, 3>>), 6)
  <2>1. Long(<<id, 2, 3>>, 3)
    BY LongTuples
  <2>2. Long(AddNumbers(<<id, 2, 3>>), 3 * 2)
    BY <2>1, LongNumbers
  <2>3. 3 * 2 = 6
    OBVIOUS
  <2>. QED
    BY <2>2, <2>3
<1>3. Long(AddNumbers(<<id, 2, 3>>) \o AddUser(u), 6 + n)
  BY <1>1, <1>2, LongConcat
<1>4. ASSUME NEW k PROVE Long(AddNumbers(<<id, 2, 3>>) \o AddUser(u) \o AddNumber(k), 6 + n + 2)
  <2>1. 6 + n \in Nat /\ Long(AddNumber(k), 2)
    BY <1>1, LongParts
  <2>. QED
    BY <1>3, <2>1, LongConcat
<1>5. Short(userjoinedchatroom(id, u)) /\ Short(userleftchatroom(id, u))
  <2>1. 6 + n + 2 \in 0 .. 40
    BY <1>1
  <2>. QED
    BY <1>4, <2>1, ShortIf DEF userjoinedchatroom, userleftchatroom
<1>6. Short(privatemessage(u, text))
  <2>1. Long(AddNumber(1) \o AddUser(u), 2 + n)
    BY <1>1, LongParts, LongConcat
  <2>2. Long(AddNumber(1) \o AddUser(u) \o AddText(text), 2 + n + 3)
    <3>1. 2 + n \in Nat /\ Long(AddText(text), 3)
      BY <1>1, LongParts
    <3>. QED
      BY <2>1, <3>1, LongConcat
  <2>3. 2 + n + 3 \in 0 .. 40
    BY <1>1
  <2>. QED
    BY <2>2, <2>3, ShortIf DEF privatemessage
<1>. QED
  BY <1>5, <1>6

(* A list of n entries has nine or seven places for each. *)
LEMMA LongLists ==
    ASSUME NEW n \in Nat, NEW id, NEW name, NEW u
    PROVE  /\ Long(chatroomlist(id, n, name).parts, n * 9 + 4)
           /\ Long(chatroomlist(id, n, name).meant, n * 4 + 1)
           /\ Long(users(id, n, u).parts, n * 7 + 4)
           /\ Long(users(id, n, u).meant, n * 3 + 1)
           /\ \E c \in {3, 7} : Long(usersinchatroom(id, n, u).parts, n * c + 6)
           /\ Long(usersinchatroom(id, n, u).meant, n * 3 + 2)
<1>1. /\ n * 9 \in Nat /\ n * 7 \in Nat /\ n * 3 \in Nat /\ n * 4 \in Nat
      /\ \A c \in {3, 7} : n * c \in Nat
  OBVIOUS
<1>2. ASSUME NEW k PROVE Long(AddNumber(k), 2)
  BY LongParts
<1>3. ASSUME NEW j, NEW k PROVE Long(AddNumbers(<<j, k>>), 4) /\ Long(Numbers(<<j, k>>), 2)
  <2>1. Long(<<j, k>>, 2)
    BY LongTuples
  <2>2. Long(AddNumbers(<<j, k>>), 2 * 2) /\ Long(Numbers(<<j, k>>), 2)
    BY <2>1, LongNumbers
  <2>3. 2 * 2 = 4
    OBVIOUS
  <2>. QED
    BY <2>2, <2>3
<1>4. ASSUME NEW head, NEW h \in Nat, Long(head, h), NEW entry, NEW c \in Nat, Long(entry, c)
      PROVE  Long(head \o Repeated(n, entry), h + n * c)
  <2>1. n * c \in Nat /\ Long(Repeated(n, entry), n * c)
    BY <1>4, LongRepeated
  <2>. QED
    BY <1>4, <2>1, LongConcat
<1>5. /\ Long(chatroomlist(id, n, name).parts, n * 9 + 4)
      /\ Long(chatroomlist(id, n, name).meant, n * 4 + 1)
  <2>. DEFINE entry == AddNumber(2) \o AddText(name) \o AddNumbers(<<4, 5>>)
              value == <<Number(2), Text(name)>> \o Numbers(<<4, 5>>)
              body == AddNumber(id) \o Repeated(n, entry)
              values == <<Number(id)>> \o Repeated(n, value)
  <2>1. Long(entry, 9)
    <3>1. Long(AddNumber(2) \o AddText(name), 2 + 3)
      BY LongParts, LongConcat
    <3>2. Long(entry, 5 + 4)
      BY <1>3, <3>1, LongConcat
    <3>. QED
      BY <3>2
  <2>2. Long(value, 4)
    <3>1. Long(<<Number(2), Text(name)>>, 2)
      BY LongTuples
    <3>2. Long(value, 2 + 2)
      BY <1>3, <3>1, LongConcat
    <3>. QED
      BY <3>2
  <2>3. chatroomlist(id, n, name) = Message(body, values)
    BY DEF chatroomlist
  <2>. HIDE DEF entry, value
  <2>4. Long(body, 2 + n * 9)
    BY <1>2, <1>4, <2>1
  <2>5. Long(values, 1 + n * 4)
    <3>1. Long(<<Number(id)>>, 1)
      BY LongTuples
    <3>. QED
      BY <1>4, <2>2, <3>1
  <2>. HIDE DEF body, values
  <2>6. Long(Message(body, values).parts, 1 + (2 + n * 9) + 1) /\ Message(body, values).meant = values
    BY <1>1, <2>4, LongMessage
  <2>7. 1 + (2 + n * 9) + 1 = n * 9 + 4 /\ 1 + n * 4 = n * 4 + 1
    BY <1>1
  <2>. QED
    BY <2>3, <2>5, <2>6, <2>7
<1>6. /\ Long(users(id, n, u).parts, n * 7 + 4)
      /\ Long(users(id, n, u).meant, n * 3 + 1)
  <2>. DEFINE entry == AddNumber(u.userid) \o AddText(u.username) \o AddNumber(1)
              value == UserMeant(u) \o <<Number(1)>>
              body == AddNumber(id) \o Repeated(n, entry)
              values == <<Number(id)>> \o Repeated(n, value)
  <2>1. Long(entry, 7)
    <3>1. Long(AddNumber(u.userid) \o AddText(u.username), 2 + 3)
      BY LongParts, LongConcat
    <3>2. Long(entry, 5 + 2)
      BY <1>2, <3>1, LongConcat
    <3>. QED
      BY <3>2
  <2>2. Long(value, 3)
    <3>1. Long(<<Number(1)>>, 1) /\ Long(UserMeant(u), 2)
      BY LongTuples, LongParts
    <3>2. Long(value, 2 + 1)
      BY <3>1, LongConcat
    <3>. QED
      BY <3>2
  <2>3. users(id, n, u) = Message(body, values)
    BY DEF users
  <2>. HIDE DEF entry, value
  <2>4. Long(body, 2 + n * 7)
    BY <1>2, <1>4, <2>1
  <2>5. Long(values, 1 + n * 3)
    <3>1. Long(<<Number(id)>>, 1)
      BY LongTuples
    <3>. QED
      BY <1>4, <2>2, <3>1
  <2>. HIDE DEF body, values
  <2>6. Long(Message(body, values).parts, 1 + (2 + n * 7) + 1) /\ Message(body, values).meant = values
    BY <1>1, <2>4, LongMessage
  <2>7. 1 + (2 + n * 7) + 1 = n * 7 + 4 /\ 1 + n * 3 = n * 3 + 1
    BY <1>1
  <2>. QED
    BY <2>3, <2>5, <2>6, <2>7
<1>7. /\ \E c \in {3, 7} : Long(usersinchatroom(id, n, u).parts, n * c + 6)
      /\ Long(usersinchatroom(id, n, u).meant, n * 3 + 2)
  <2>. DEFINE entry == AddNumber(3) \o AddUser(u)
              value == <<Number(3)>> \o UserMeant(u)
              body == AddNumbers(<<id, 2>>) \o Repeated(n, entry)
              values == Numbers(<<id, 2>>) \o Repeated(n, value)
  <2>1. PICK c \in {3, 7} : Long(entry, c)
    <3>1. PICK k \in {1, 5} : Long(AddUser(u), k)
      BY LongParts
    <3>2. Long(entry, 2 + k)
      BY <1>2, <3>1, LongConcat
    <3>3. 2 + k \in {3, 7}
      BY <3>1
    <3>. QED
      BY <3>2, <3>3
  <2>2. Long(value, 3)
    <3>1. Long(<<Number(3)>>, 1) /\ Long(UserMeant(u), 2)
      BY LongTuples, LongParts
    <3>2. Long(value, 1 + 2)
      BY <3>1, LongConcat
    <3>. QED
      BY <3>2
  <2>3. usersinchatroom(id, n, u) = Message(body, values)
    BY DEF usersinchatroom
  <2>. HIDE DEF entry, value
  <2>4. Long(body, 4 + n * c)
    BY <1>3, <1>4, <2>1
  <2>5. Long(values, 2 + n * 3)
    BY <1>3, <1>4, <2>2
  <2>. HIDE DEF body, values
  <2>6. Long(Message(body, values).parts, 1 + (4 + n * c) + 1) /\ Message(body, values).meant = values
    BY <1>1, <2>1, <2>4, LongMessage
  <2>7. 1 + (4 + n * c) + 1 = n * c + 6 /\ 2 + n * 3 = n * 3 + 2
    BY <1>1, <2>1
  <2>. QED
    BY <2>1, <2>3, <2>5, <2>6, <2>7
<1>. QED
  BY <1>5, <1>6, <1>7

-----------------------------------------------------------------------------
(* What the server may answer, kind by kind. *)

AnswerKinds == DOMAIN PageAsks \cup {"incorrect_system_password"}

LEMMA Kinds ==
    ASSUME NEW n
    PROVE  \E id, text, u :
              /\ MessageOf("chat", n) = chat(id, text)
              /\ MessageOf("msg", n) = msg(id, text)
              /\ MessageOf("snap", n) = snap_message(text)
              /\ MessageOf("chatroomcreated", n) = chatroomcreated(id, text)
              /\ MessageOf("userjoinedchatroom", n) = userjoinedchatroom(id, u)
              /\ MessageOf("userleftchatroom", n) = userleftchatroom(id, u)
              /\ MessageOf("privatemessage", n) = privatemessage(u, text)
              /\ MessageOf("error", n) = error(<<"a", " ", "a">>, id)
              /\ MessageOf("incorrect_system_password", n) = incorrect_system_password(id)
              /\ MessageOf("chatroomlist", n) = chatroomlist(id, n, text)
              /\ MessageOf("users", n) = users(id, n, u)
              /\ MessageOf("usersinchatroom", n) = usersinchatroom(id, n, u)
<1>. DEFINE texts == {k \in DOMAIN parsed : ServerAsks[request.command][k] = "s"}
            text == IF texts = {} THEN <<"a">>
                    ELSE parsed[CHOOSE k \in texts : \A j \in texts : j <= k]
            id == IF request.command = "sendtoall" THEN parsed[2] ELSE parsed[1]
            u == IF request.command = "adduser" THEN [userid |-> 5, username |-> text] ELSE Nobody
<1>1. ASSUME NEW kind
      PROVE  MessageOf(kind, n) =
                CASE kind = "chat" -> chat(id, text)
                  [] kind = "msg" -> msg(id, text)
                  [] kind = "snap" -> snap_message(text)
                  [] kind = "chatroomcreated" -> chatroomcreated(id, text)
                  [] kind = "userjoinedchatroom" -> userjoinedchatroom(id, u)
                  [] kind = "userleftchatroom" -> userleftchatroom(id, u)
                  [] kind = "privatemessage" -> privatemessage(u, text)
                  [] kind = "error" -> error(<<"a", " ", "a">>, id)
                  [] kind = "incorrect_system_password" -> incorrect_system_password(id)
                  [] kind = "chatroomlist" -> chatroomlist(id, n, text)
                  [] kind = "users" -> users(id, n, u)
                  [] kind = "usersinchatroom" -> usersinchatroom(id, n, u)
  BY DEF MessageOf
<1>. HIDE DEF texts, text, id, u
<1>2. /\ MessageOf("chat", n) = chat(id, text)
      /\ MessageOf("msg", n) = msg(id, text)
      /\ MessageOf("snap", n) = snap_message(text)
      /\ MessageOf("chatroomcreated", n) = chatroomcreated(id, text)
      /\ MessageOf("userjoinedchatroom", n) = userjoinedchatroom(id, u)
      /\ MessageOf("userleftchatroom", n) = userleftchatroom(id, u)
      /\ MessageOf("privatemessage", n) = privatemessage(u, text)
      /\ MessageOf("error", n) = error(<<"a", " ", "a">>, id)
      /\ MessageOf("incorrect_system_password", n) = incorrect_system_password(id)
      /\ MessageOf("chatroomlist", n) = chatroomlist(id, n, text)
      /\ MessageOf("users", n) = users(id, n, u)
      /\ MessageOf("usersinchatroom", n) = usersinchatroom(id, n, u)
  BY <1>1
<1>. QED
  BY <1>2

(* A message that has no place for its parts is a list of six entries or   *)
(* more.                                                                   *)
LEMMA OnlyLongLists ==
    ASSUME NEW kind \in AnswerKinds, NEW n \in Nat, ~Fits(MessageOf(kind, n).parts)
    PROVE  kind \in Lists /\ Len(MessageOf(kind, n).meant) \div PerEntry[kind] > 5
<1>1. PICK id, text, u :
         /\ MessageOf("chat", n) = chat(id, text)
         /\ MessageOf("msg", n) = msg(id, text)
         /\ MessageOf("snap", n) = snap_message(text)
         /\ MessageOf("chatroomcreated", n) = chatroomcreated(id, text)
         /\ MessageOf("userjoinedchatroom", n) = userjoinedchatroom(id, u)
         /\ MessageOf("userleftchatroom", n) = userleftchatroom(id, u)
         /\ MessageOf("privatemessage", n) = privatemessage(u, text)
         /\ MessageOf("error", n) = error(<<"a", " ", "a">>, id)
         /\ MessageOf("incorrect_system_password", n) = incorrect_system_password(id)
         /\ MessageOf("chatroomlist", n) = chatroomlist(id, n, text)
         /\ MessageOf("users", n) = users(id, n, u)
         /\ MessageOf("usersinchatroom", n) = usersinchatroom(id, n, u)
  BY Kinds
<1>2. ~Short(MessageOf(kind, n))
  BY ShortFits
<1>3. kind \notin {"chat", "msg", "snap", "chatroomcreated", "error", "incorrect_system_password"}
  BY <1>1, <1>2, ShortTexts
<1>4. kind \notin {"userjoinedchatroom", "userleftchatroom", "privatemessage"}
  BY <1>1, <1>2, ShortUsers
<1>5. kind \in {"chatroomlist", "users", "usersinchatroom"}
  BY <1>3, <1>4 DEF AnswerKinds, PageAsks
<1>6. CASE kind = "chatroomlist"
  <2>1. Len(MessageOf(kind, n).parts) = n * 9 + 4 /\ Len(MessageOf(kind, n).meant) = n * 4 + 1
    <3>1. MessageOf(kind, n) = chatroomlist(id, n, text)
      BY <1>1, <1>6
    <3>2. Long(chatroomlist(id, n, text).parts, n * 9 + 4) /\ Long(chatroomlist(id, n, text).meant, n * 4 + 1)
      BY LongLists
    <3>. QED
      BY <3>1, <3>2 DEF Long
  <2>2. n * 9 + 4 > 50
    BY <2>1 DEF Fits, BIGLIST_SIZE
  <2>3. (n * 4 + 1) \div 4 > 5
    BY <2>2
  <2>4. PerEntry[kind] = 4
    BY <1>6 DEF PerEntry
  <2>. QED
    BY <1>6, <2>1, <2>3, <2>4 DEF Lists
<1>7. CASE kind = "users"
  <2>1. Len(MessageOf(kind, n).parts) = n * 7 + 4 /\ Len(MessageOf(kind, n).meant) = n * 3 + 1
    <3>1. MessageOf(kind, n) = users(id, n, u)
      BY <1>1, <1>7
    <3>2. Long(users(id, n, u).parts, n * 7 + 4) /\ Long(users(id, n, u).meant, n * 3 + 1)
      BY LongLists
    <3>. QED
      BY <3>1, <3>2 DEF Long
  <2>2. n * 7 + 4 > 50
    BY <2>1 DEF Fits, BIGLIST_SIZE
  <2>3. (n * 3 + 1) \div 3 > 5
    BY <2>2
  <2>4. PerEntry[kind] = 3
    BY <1>7 DEF PerEntry
  <2>. QED
    BY <1>7, <2>1, <2>3, <2>4 DEF Lists
<1>8. CASE kind = "usersinchatroom"
  <2>0. MessageOf(kind, n) = usersinchatroom(id, n, u)
    BY <1>1, <1>8
  <2>1. PICK c \in {3, 7} : Len(MessageOf(kind, n).parts) = n * c + 6
    <3>1. \E c \in {3, 7} : Long(usersinchatroom(id, n, u).parts, n * c + 6)
      BY LongLists
    <3>. QED
      BY <2>0, <3>1 DEF Long
  <2>2. Len(MessageOf(kind, n).meant) = n * 3 + 2
    <3>1. Long(usersinchatroom(id, n, u).meant, n * 3 + 2)
      BY LongLists
    <3>. QED
      BY <2>0, <3>1 DEF Long
  <2>3. n * c + 6 > 50
    BY <2>1 DEF Fits, BIGLIST_SIZE
  <2>4. n > 6
    BY <2>3
  <2>5. (n * 3 + 2) \div 3 > 5
    BY <2>4
  <2>6. PerEntry[kind] = 3
    BY <1>8 DEF PerEntry
  <2>. QED
    BY <1>8, <2>2, <2>5, <2>6 DEF Lists
<1>. QED
  BY <1>5, <1>6, <1>7, <1>8

LEMMA FaultOfLists == ShortListsFit /\ [MessageNext]_message_vars => ShortListsFit'
<1>1. ASSUME NEW kind \in AnswerKinds, NEW n \in 0 .. MaxEntries, ServerAnswers(kind, n)
      PROVE  ShortListsFit'
  <2>1. n \in Nat
    BY MessagesAssumption
  <2>2. CASE Fits(MessageOf(kind, n).parts)
    BY <1>1, <2>2 DEF ServerAnswers, ShortListsFit
  <2>3. CASE ~Fits(MessageOf(kind, n).parts)
    <3>1. meant' = MessageOf(kind, n).meant /\ answer' = kind
      BY <1>1, <2>3 DEF ServerAnswers
    <3>2. kind \in Lists /\ Len(MessageOf(kind, n).meant) \div PerEntry[kind] > 5
      BY <2>1, <2>3, OnlyLongLists
    <3>. QED
      BY <3>1, <3>2 DEF ShortListsFit
  <2>. QED
    BY <2>2, <2>3
<1>2. ASSUME ClientSends \/ ServerParses \/ ServerRefuses \/ BuildLoginUrl
      PROVE  phase' # "fault"
  BY <1>2 DEF ClientSends, ServerParses, ServerRefuses, BuildLoginUrl
<1>3. ASSUME MessageIsSet \/ MessageArrives \/ PageReads
      PROVE  phase' # "fault"
  BY <1>3 DEF MessageIsSet, MessageArrives, PageReads
<1>4. ASSUME phase' # "fault" PROVE ShortListsFit'
  BY <1>4 DEF ShortListsFit
<1>5. ASSUME ShortListsFit, UNCHANGED message_vars PROVE ShortListsFit'
  BY <1>5 DEF ShortListsFit, message_vars
<1>. QED
  BY <1>1, <1>2, <1>3, <1>4, <1>5 DEF MessageNext, AnswerKinds

(* The server ends for want of places in a stringbuilder only at a list of *)
(* more than five rooms, users or clients (stringbuilder.cpp:100): every   *)
(* other message fits, whatever its texts and numbers, and so do all the   *)
(* shorter lists, however many entries there may be in the end.            *)
THEOREM OnlyLongListsEndTheServer == MessageSpec => []ShortListsFit
<1>1. MessageInit => ShortListsFit
  BY DEF MessageInit, ShortListsFit
<1>. QED
  BY <1>1, FaultOfLists, PTL DEF MessageSpec

-----------------------------------------------------------------------------
(* Numbers: what is written digit by digit is read digit by digit.         *)

(* The recursion of Messages!ValueOf. *)
Values(v, s) ==
    v = [k \in 0 .. Len(s) |-> IF k = 0 THEN 0 ELSE 10 * v[k - 1] + DigitValue(s[k])]

LEMMA DigitIs == \A d \in 0 .. 9 : /\ IsDigit(Digit(d))
                                   /\ DigitValue(Digit(d)) = d
<1>. SUFFICES ASSUME NEW d \in 0 .. 9
              PROVE  IsDigit(Digit(d)) /\ DigitValue(Digit(d)) = d
  OBVIOUS
<1>1. DOMAIN Digits = 1 .. 10 /\ d + 1 \in 1 .. 10
  BY DEF Digits
<1>2. \A j, k \in 1 .. 10 : Digits[j] = Digits[k] => j = k
  BY DEF Digits
<1>4. \A k \in 1 .. 10 : Digits[k] \in ToSet(Digits)
  BY <1>1 DEF ToSet
<1>5. (CHOOSE k \in DOMAIN Digits : Digits[k] = Digits[d + 1]) = d + 1
  <2>. DEFINE j == CHOOSE k \in DOMAIN Digits : Digits[k] = Digits[d + 1]
  <2>1. j \in 1 .. 10 /\ Digits[j] = Digits[d + 1]
    BY <1>1
  <2>. HIDE DEF j
  <2>2. j = d + 1
    BY <1>1, <1>2, <2>1
  <2>. QED
    BY <2>2 DEF j
<1>6. DigitValue(Digit(d)) = (d + 1) - 1
  BY <1>5 DEF DigitValue, Digit
<1>. QED
  BY <1>1, <1>4, <1>6 DEF Digit, IsDigit

LEMMA CommaIs == ~IsDigit(",")
<1>1. DOMAIN Digits = 1 .. 10 /\ \A k \in 1 .. 10 : Digits[k] # ","
  BY DEF Digits
<1>. QED
  BY <1>1 DEF IsDigit, ToSet

LEMMA ValuesExist ==
    ASSUME NEW S, NEW s \in Seq(S)
    PROVE  \E v : Values(v, s)
<1>. DEFINE Up(v, n) == v = [k \in 0 .. n |-> IF k = 0 THEN 0 ELSE 10 * v[k - 1] + DigitValue(s[k])]
            Bad == {m \in Nat : ~\E v : Up(v, m)}
<1>1. Len(s) \in Nat
  OBVIOUS
<1>. SUFFICES ASSUME Bad # {} PROVE FALSE
  <2>1. Bad = {} => \E v : Up(v, Len(s))
    BY <1>1
  <2>2. Bad = {}
    OBVIOUS
  <2>3. \A v : Up(v, Len(s)) => Values(v, s)
    BY DEF Values
  <2>. HIDE DEF Up, Bad
  <2>. QED
    BY <2>1, <2>2, <2>3
<1>2. PICK m \in Bad : \A k \in Bad : m <= k
  <2>1. Bad \subseteq Nat
    OBVIOUS
  <2>. HIDE DEF Bad
  <2>. QED
    BY <2>1, Least
<1>3. m \in Nat /\ ~\E v : Up(v, m)
  OBVIOUS
<1>4. m # 0
  <2>. DEFINE z == [k \in 0 .. 0 |-> 0]
  <2>1. \A k \in 0 .. 0 : k = 0
    OBVIOUS
  <2>2. Up(z, 0)
    BY <2>1
  <2>. QED
    BY <1>3, <2>2
<1>5. m - 1 \in Nat /\ ~(m <= m - 1)
  BY <1>3, <1>4
<1>6. PICK v : Up(v, m - 1)
  <2>1. m - 1 \notin Bad
    <3>. HIDE DEF Bad
    <3>. QED
      BY <1>2, <1>5
  <2>. QED
    BY <1>5, <2>1
<1>. HIDE DEF Bad
<1>. DEFINE e == 10 * v[m - 1] + DigitValue(s[m])
            w == [k \in 0 .. m |-> IF k = m THEN e ELSE v[k]]
<1>7. \A k \in 0 .. m - 1 : v[k] = IF k = 0 THEN 0 ELSE 10 * v[k - 1] + DigitValue(s[k])
  BY <1>6
<1>8. \A k \in 0 .. m : w[k] = IF k = m THEN e ELSE v[k]
  OBVIOUS
<1>9. ASSUME NEW k \in 0 .. m
      PROVE  w[k] = IF k = 0 THEN 0 ELSE 10 * w[k - 1] + DigitValue(s[k])
  <2>. HIDE DEF w
  <2>1. CASE k = m
    <3>1. m - 1 \in 0 .. m /\ m - 1 # m
      BY <1>3, <1>5
    <3>2. w[k] = e /\ w[m - 1] = v[m - 1]
      BY <1>8, <2>1, <3>1
    <3>. QED
      BY <1>4, <2>1, <3>2
  <2>2. CASE k # m
    <3>1. k \in 0 .. m - 1 /\ (k # 0 => k - 1 \in 0 .. m /\ k - 1 # m)
      BY <1>3, <2>2
    <3>2. w[k] = v[k] /\ (k # 0 => w[k - 1] = v[k - 1])
      BY <1>8, <2>2, <3>1
    <3>. HIDE DEF e
    <3>. QED
      BY <1>7, <3>1, <3>2
  <2>. QED
    BY <2>1, <2>2
<1>10. Up(w, m)
  BY <1>9
<1>. QED
  BY <1>3, <1>10

LEMMA ValueIs ==
    ASSUME NEW S, NEW s \in Seq(S)
    PROVE  \E v : /\ ValueOf(s) = v[Len(s)] /\ v[0] = 0
                  /\ \A k \in 1 .. Len(s) : v[k] = 10 * v[k - 1] + DigitValue(s[k])
<1>. DEFINE v == CHOOSE f : Values(f, s)
<1>1. ValueOf(s) = v[Len(s)]
  BY DEF ValueOf, Values
<1>2. Values(v, s)
  BY ValuesExist
<1>. HIDE DEF v
<1>3. \A k \in 0 .. Len(s) : v[k] = IF k = 0 THEN 0 ELSE 10 * v[k - 1] + DigitValue(s[k])
  BY <1>2 DEF Values
<1>4. Len(s) \in Nat /\ \A k \in 1 .. Len(s) : k \in 0 .. Len(s) /\ k # 0
  OBVIOUS
<1>. QED
  BY <1>1, <1>3, <1>4

(* Two such functions agree where the sequences do. *)
LEMMA ValueAppend ==
    ASSUME NEW S, NEW s \in Seq(S), NEW c \in S
    PROVE  ValueOf(Append(s, c)) = 10 * ValueOf(s) + DigitValue(c)
<1>. DEFINE t == Append(s, c)
<1>1. t \in Seq(S) /\ Len(t) = Len(s) + 1 /\ t[Len(s) + 1] = c /\ Len(s) \in Nat
  OBVIOUS
<1>2. \A k \in 1 .. Len(s) : t[k] = s[k]
  OBVIOUS
<1>. HIDE DEF t
<1>3. PICK v : /\ ValueOf(s) = v[Len(s)] /\ v[0] = 0
               /\ \A k \in 1 .. Len(s) : v[k] = 10 * v[k - 1] + DigitValue(s[k])
  BY ValueIs
<1>4. PICK w : /\ ValueOf(t) = w[Len(t)] /\ w[0] = 0
               /\ \A k \in 1 .. Len(t) : w[k] = 10 * w[k - 1] + DigitValue(t[k])
  BY <1>1, ValueIs
<1>. DEFINE Bad == {k \in 0 .. Len(s) : w[k] # v[k]}
<1>5. Bad = {}
  <2>. SUFFICES ASSUME Bad # {} PROVE FALSE
    OBVIOUS
  <2>1. PICK m \in Bad : \A k \in Bad : m <= k
    <3>1. Bad \subseteq Nat
      OBVIOUS
    <3>. HIDE DEF Bad
    <3>. QED
      BY <3>1, Least
  <2>2. m \in 0 .. Len(s) /\ w[m] # v[m]
    OBVIOUS
  <2>3. m # 0
    BY <1>3, <1>4, <2>2
  <2>4. m \in 1 .. Len(s) /\ m \in 1 .. Len(t) /\ m - 1 \in 0 .. Len(s) /\ ~(m <= m - 1)
    BY <1>1, <2>2, <2>3
  <2>5. w[m - 1] = v[m - 1]
    <3>1. m - 1 \notin Bad
      <4>. HIDE DEF Bad
      <4>. QED
        BY <2>1, <2>4
    <3>. QED
      BY <2>4, <3>1
  <2>6. w[m] = 10 * w[m - 1] + DigitValue(t[m]) /\ v[m] = 10 * v[m - 1] + DigitValue(s[m])
    BY <1>3, <1>4, <2>4
  <2>. HIDE DEF Bad
  <2>. QED
    BY <1>2, <2>2, <2>4, <2>5, <2>6
<1>6. w[Len(s)] = v[Len(s)]
  BY <1>1, <1>5
<1>7. ValueOf(t) = 10 * w[Len(s)] + DigitValue(c)
  <2>1. Len(t) \in 1 .. Len(t) /\ Len(t) - 1 = Len(s)
    BY <1>1
  <2>2. w[Len(t)] = 10 * w[Len(t) - 1] + DigitValue(t[Len(t)])
    BY <1>4, <2>1
  <2>. QED
    BY <1>1, <1>4, <2>1, <2>2
<1>. QED
  BY <1>3, <1>6, <1>7 DEF t

(* The recursion of Messages!Decimal, up to m. *)
Decimals(f, m) ==
    f = [n \in 0 .. m |-> IF n < 10 THEN <<Digit(n)>> ELSE Append(f[n \div 10], Digit(n % 10))]

LEMMA Tenth == \A n \in Nat : n >= 10 => /\ n \div 10 \in Nat /\ n \div 10 < n /\ n % 10 \in 0 .. 9
                                         /\ n = 10 * (n \div 10) + (n % 10)
OBVIOUS

LEMMA DecimalsExist == \A m \in Nat : \E f : Decimals(f, m)
<1>. DEFINE Bad == {m \in Nat : ~\E f : Decimals(f, m)}
<1>. SUFFICES ASSUME Bad # {} PROVE FALSE
  OBVIOUS
<1>1. PICK m \in Bad : \A k \in Bad : m <= k
  <2>1. Bad \subseteq Nat
    OBVIOUS
  <2>. HIDE DEF Bad
  <2>. QED
    BY <2>1, Least
<1>2. m \in Nat /\ ~\E f : Decimals(f, m)
  OBVIOUS
<1>3. m # 0
  <2>. DEFINE z == [n \in 0 .. 0 |-> <<Digit(n)>>]
  <2>1. \A n \in 0 .. 0 : n < 10
    OBVIOUS
  <2>2. Decimals(z, 0)
    BY <2>1 DEF Decimals
  <2>. QED
    BY <1>2, <2>2
<1>4. m - 1 \in Nat /\ ~(m <= m - 1)
  BY <1>2, <1>3
<1>5. PICK f : Decimals(f, m - 1)
  <2>1. m - 1 \notin Bad
    <3>. HIDE DEF Bad
    <3>. QED
      BY <1>1, <1>4
  <2>. QED
    BY <1>4, <2>1
<1>. HIDE DEF Bad
<1>. DEFINE e == IF m < 10 THEN <<Digit(m)>> ELSE Append(f[m \div 10], Digit(m % 10))
            g == [n \in 0 .. m |-> IF n = m THEN e ELSE f[n]]
<1>6. \A n \in 0 .. m - 1 :
          f[n] = IF n < 10 THEN <<Digit(n)>> ELSE Append(f[n \div 10], Digit(n % 10))
  BY <1>5 DEF Decimals
<1>7. \A n \in 0 .. m : g[n] = IF n = m THEN e ELSE f[n]
  OBVIOUS
<1>8. ASSUME NEW n \in 0 .. m
      PROVE  g[n] = IF n < 10 THEN <<Digit(n)>> ELSE Append(g[n \div 10], Digit(n % 10))
  <2>. HIDE DEF g
  <2>1. n >= 10 => n \div 10 \in 0 .. m /\ n \div 10 # m
    BY <1>2, Tenth
  <2>2. n >= 10 => g[n \div 10] = f[n \div 10]
    BY <1>7, <2>1
  <2>3. CASE n = m
    <3>1. g[n] = e
      BY <1>7, <2>3
    <3>. QED
      BY <1>2, <2>2, <2>3, <3>1
  <2>4. CASE n # m
    <3>1. n \in 0 .. m - 1
      BY <1>2, <2>4
    <3>2. g[n] = f[n]
      BY <1>7, <2>4
    <3>. HIDE DEF e
    <3>. QED
      BY <1>6, <2>2, <3>1, <3>2
  <2>. QED
    BY <2>3, <2>4
<1>9. Decimals(g, m)
  BY <1>8 DEF Decimals
<1>. QED
  BY <1>2, <1>9

LEMMA DecimalsAgree ==
    ASSUME NEW m \in Nat, NEW k \in Nat, NEW f, NEW g, Decimals(f, m), Decimals(g, k)
    PROVE  \A n \in 0 .. m : n <= k => f[n] = g[n]
<1>. DEFINE Bad == {n \in 0 .. m : n <= k /\ f[n] # g[n]}
<1>. SUFFICES ASSUME Bad # {} PROVE FALSE
  OBVIOUS
<1>1. PICK n \in Bad : \A j \in Bad : n <= j
  <2>1. Bad \subseteq Nat
    OBVIOUS
  <2>. HIDE DEF Bad
  <2>. QED
    BY <2>1, Least
<1>2. n \in 0 .. m /\ n \in 0 .. k /\ f[n] # g[n]
  OBVIOUS
<1>3. f[n] = IF n < 10 THEN <<Digit(n)>> ELSE Append(f[n \div 10], Digit(n % 10))
  BY <1>2 DEF Decimals
<1>4. g[n] = IF n < 10 THEN <<Digit(n)>> ELSE Append(g[n \div 10], Digit(n % 10))
  BY <1>2 DEF Decimals
<1>5. n >= 10
  BY <1>2, <1>3, <1>4
<1>6. n \div 10 \in 0 .. m /\ n \div 10 <= k /\ ~(n <= n \div 10)
  BY <1>2, <1>5, Tenth
<1>7. f[n \div 10] = g[n \div 10]
  <2>1. n \div 10 \notin Bad
    <3>. HIDE DEF Bad
    <3>. QED
      BY <1>1, <1>6
  <2>. QED
    BY <1>6, <2>1
<1>. HIDE DEF Bad
<1>. QED
  BY <1>2, <1>3, <1>4, <1>7

LEMMA DecimalIs ==
    \A n \in Nat : Decimal[n] = IF n < 10 THEN <<Digit(n)>> ELSE Append(Decimal[n \div 10], Digit(n % 10))
<1>. DEFINE Is(d) == d = [n \in Nat |-> IF n < 10 THEN <<Digit(n)>> ELSE Append(d[n \div 10], Digit(n % 10))]
            upto(m) == CHOOSE f : Decimals(f, m)
            d0 == [n \in Nat |-> upto(n)[n]]
<1>1. \A m \in Nat : Decimals(upto(m), m)
  BY DecimalsExist
<1>. HIDE DEF upto
<1>2. ASSUME NEW n \in Nat
      PROVE  d0[n] = IF n < 10 THEN <<Digit(n)>> ELSE Append(d0[n \div 10], Digit(n % 10))
  <2>1. upto(n)[n] = IF n < 10 THEN <<Digit(n)>> ELSE Append(upto(n)[n \div 10], Digit(n % 10))
    <3>1. n \in 0 .. n
      OBVIOUS
    <3>. QED
      BY <1>1, <3>1 DEF Decimals
  <2>2. n >= 10 => upto(n)[n \div 10] = upto(n \div 10)[n \div 10]
    <3>. SUFFICES ASSUME n >= 10 PROVE upto(n)[n \div 10] = upto(n \div 10)[n \div 10]
      OBVIOUS
    <3>. DEFINE q == n \div 10
    <3>1. q \in Nat /\ q \in 0 .. n /\ q <= q
      BY Tenth
    <3>. HIDE DEF q
    <3>2. Decimals(upto(n), n) /\ Decimals(upto(q), q)
      BY <1>1, <3>1
    <3>3. upto(n)[q] = upto(q)[q]
      BY <3>1, <3>2, DecimalsAgree
    <3>. QED
      BY <3>3 DEF q
  <2>3. d0[n] = upto(n)[n]
    OBVIOUS
  <2>4. n >= 10 => d0[n \div 10] = upto(n \div 10)[n \div 10]
    BY Tenth
  <2>. HIDE DEF d0
  <2>. QED
    BY <2>1, <2>2, <2>3, <2>4
<1>3. Is(d0)
  <2>. HIDE DEF d0
  <2>1. d0 = [n \in Nat |-> d0[n]]
    BY DEF d0
  <2>. QED
    BY <1>2, <2>1
<1>4. Is(Decimal)
  <2>1. Decimal = CHOOSE d : Is(d)
    BY DEF Decimal
  <2>2. \E d : Is(d)
    <3>. HIDE DEF Is, d0
    <3>. QED
      BY <1>3
  <2>. HIDE DEF Is
  <2>. QED
    BY <2>1, <2>2
<1>. QED
  BY <1>4

(* A number has a digit at least, only digits, and their value. *)
LEMMA DecimalReads ==
    \A n \in Nat : /\ Decimal[n] \in Seq(ToSet(Digits)) /\ Len(Decimal[n]) >= 1
                   /\ ValueOf(Decimal[n]) = n
<1>. DEFINE D == ToSet(Digits)
            Reads10(n) == Decimal[n] \in Seq(D) /\ Len(Decimal[n]) >= 1 /\ ValueOf(Decimal[n]) = n
            Bad == {n \in Nat : ~Reads10(n)}
<1>. SUFFICES ASSUME Bad # {} PROVE FALSE
  OBVIOUS
<1>1. PICK n \in Bad : \A k \in Bad : n <= k
  <2>1. Bad \subseteq Nat
    OBVIOUS
  <2>. HIDE DEF Bad
  <2>. QED
    BY <2>1, Least
<1>2. n \in Nat /\ ~Reads10(n)
  OBVIOUS
<1>3. \A d \in 0 .. 9 : Digit(d) \in D /\ DigitValue(Digit(d)) = d
  BY DigitIs DEF IsDigit
<1>4. n >= 10 => Reads10(n \div 10)
  <2>. SUFFICES ASSUME n >= 10 PROVE Reads10(n \div 10)
    OBVIOUS
  <2>1. n \div 10 \in Nat /\ ~(n <= n \div 10)
    BY <1>2, Tenth
  <2>2. n \div 10 \notin Bad
    <3>. HIDE DEF Bad
    <3>. QED
      BY <1>1, <2>1
  <2>. QED
    BY <2>1, <2>2
<1>. HIDE DEF Bad
<1>. HIDE DEF D
<1>5. CASE n < 10
  <2>1. n \in 0 .. 9 /\ Decimal[n] = <<Digit(n)>>
    <3>1. n \in Nat
      BY <1>2
    <3>2. Decimal[n] = IF n < 10 THEN <<Digit(n)>> ELSE Append(Decimal[n \div 10], Digit(n % 10))
      BY <3>1, DecimalIs
    <3>. QED
      BY <1>5, <3>1, <3>2
  <2>2. << >> \in Seq(D) /\ Append(<< >>, Digit(n)) = <<Digit(n)>>
    OBVIOUS
  <2>3. ValueOf(<< >>) = 0
    <3>1. Len(<< >>) = 0
      OBVIOUS
    <3>. QED
      BY <2>2, <3>1, ValueIs
  <2>4. ValueOf(<<Digit(n)>>) = 10 * 0 + n
    BY <1>3, <2>1, <2>2, <2>3, ValueAppend
  <2>5. <<Digit(n)>> \in Seq(D) /\ Len(<<Digit(n)>>) = 1
    BY <1>3, <2>1
  <2>. QED
    BY <1>2, <2>1, <2>4, <2>5
<1>6. CASE n >= 10
  <2>1. Decimal[n] = Append(Decimal[n \div 10], Digit(n % 10)) /\ n % 10 \in 0 .. 9
    <3>1. n \in Nat
      BY <1>2
    <3>2. Decimal[n] = IF n < 10 THEN <<Digit(n)>> ELSE Append(Decimal[n \div 10], Digit(n % 10))
      BY <3>1, DecimalIs
    <3>3. n % 10 \in 0 .. 9 /\ ~(n < 10)
      BY <1>6, <3>1, Tenth
    <3>. QED
      BY <3>2, <3>3
  <2>2. Decimal[n \div 10] \in Seq(D) /\ Len(Decimal[n \div 10]) >= 1 /\ ValueOf(Decimal[n \div 10]) = n \div 10
    BY <1>4, <1>6
  <2>3. ValueOf(Decimal[n]) = 10 * ValueOf(Decimal[n \div 10]) + (n % 10)
    BY <1>3, <2>1, <2>2, ValueAppend
  <2>4. ValueOf(Decimal[n]) = n
    BY <1>2, <1>6, <2>2, <2>3, Tenth
  <2>5. Decimal[n] \in Seq(D) /\ Len(Decimal[n]) = Len(Decimal[n \div 10]) + 1
    BY <1>3, <2>1, <2>2
  <2>. QED
    BY <1>2, <2>2, <2>4, <2>5
<1>. QED
  BY <1>2, <1>5, <1>6

-----------------------------------------------------------------------------
(* How the server takes a parameter from the front of what is left.        *)

LEMMA SubSeqIs ==
    ASSUME NEW S, NEW t \in Seq(S), NEW s, \A i \in 1 .. Len(t) : s[i] = t[i]
    PROVE  SubSeq(s, 1, Len(t)) = t
<1>1. Len(t) \in Nat /\ Len(t) \in Int /\ 1 \in Int /\ Len(t) - 1 + 1 = Len(t)
  BY LenProperties
<1>2. \A i \in 1 .. Len(t) : s[i] \in S
  BY ElementOfSeq
<1>. DEFINE u == SubSeq(s, 1, Len(t))
<1>3. /\ u \in Seq(S) /\ Len(u) = IF 1 <= Len(t) THEN Len(t) - 1 + 1 ELSE 0
      /\ \A i \in 1 .. Len(t) - 1 + 1 : u[i] = s[1 + i - 1]
  BY <1>1, <1>2, SubSeqProperties
<1>. HIDE DEF u
<1>4. Len(u) = Len(t) /\ \A i \in 1 .. Len(t) : 1 + i - 1 = i
  BY <1>1, <1>3
<1>5. \A i \in 1 .. Len(t) : u[i] = t[i]
  BY <1>1, <1>3, <1>4
<1>6. u = t
  BY <1>3, <1>4, <1>5, SeqEqual
<1>. QED
  BY <1>6 DEF u

LEMMA FrontBack ==
    ASSUME NEW S, NEW s \in Seq(S), NEW r \in Seq(S)
    PROVE  /\ SubSeq(s \o r, 1, Len(s)) = s
           /\ SubSeq(s \o r, Len(s) + 1, Len(s \o r)) = r
           /\ s \o r \in Seq(S) /\ Len(s \o r) = Len(s) + Len(r)
<1>. DEFINE t == s \o r
<1>1. /\ t \in Seq(S) /\ Len(t) = Len(s) + Len(r) /\ Len(s) \in Nat /\ Len(r) \in Nat
      /\ \A i \in 1 .. Len(s) + Len(r) : t[i] = IF i <= Len(s) THEN s[i] ELSE r[i - Len(s)]
  BY ConcatProperties, LenProperties
<1>. HIDE DEF t
<1>2. SubSeq(t, 1, Len(s)) = s
  <2>1. \A i \in 1 .. Len(s) : t[i] \in S /\ t[i] = s[i]
    BY <1>1, ElementOfSeq
  <2>. QED
    BY <2>1, SubSeqIs
<1>3. SubSeq(t, Len(s) + 1, Len(t)) = r
  <2>1. \A i \in Len(s) + 1 .. Len(t) : t[i] \in S
    <3>1. \A i \in Len(s) + 1 .. Len(t) : i \in 1 .. Len(t)
      BY <1>1
    <3>. QED
      BY <1>1, <3>1, ElementOfSeq
  <2>. DEFINE u == SubSeq(t, Len(s) + 1, Len(t))
              m == Len(s) + 1
  <2>2. m \in Int /\ Len(t) \in Int /\ Len(t) - m + 1 = Len(r) /\ (m <= Len(t) <=> Len(r) > 0)
    BY <1>1
  <2>3. /\ u \in Seq(S) /\ Len(u) = IF m <= Len(t) THEN Len(t) - m + 1 ELSE 0
        /\ \A i \in 1 .. Len(t) - m + 1 : u[i] = t[m + i - 1]
    BY <2>1, <2>2, SubSeqProperties
  <2>. HIDE DEF u
  <2>4. Len(u) = Len(r)
    BY <1>1, <2>2, <2>3
  <2>5. \A i \in 1 .. Len(r) : u[i] = r[i]
    <3>. SUFFICES ASSUME NEW i \in 1 .. Len(r) PROVE u[i] = r[i]
      OBVIOUS
    <3>1. u[i] = t[m + i - 1]
      BY <2>2, <2>3
    <3>2. m + i - 1 = Len(s) + i /\ Len(s) + i \in 1 .. Len(s) + Len(r)
          /\ ~(Len(s) + i <= Len(s)) /\ (Len(s) + i) - Len(s) = i
      BY <1>1
    <3>3. t[Len(s) + i] = r[(Len(s) + i) - Len(s)]
      BY <1>1, <3>2
    <3>. QED
      BY <3>1, <3>2, <3>3
  <2>6. u = r
    BY <2>3, <2>4, <2>5, SeqEqual
  <2>. QED
    BY <2>6 DEF u
<1>. QED
  BY <1>1, <1>2, <1>3 DEF t

(* The first byte that is no digit. *)
Stop(input) ==
    LET I == {i \in 1 .. Len(input) : ~IsDigit(input[i])}
    IN  IF I # {} THEN Min(I) ELSE 0

LEMMA LongIs ==
    \A input : LET stop == Stop(input)
               IN  GetLong(input) = [value |-> ValueOf(IF stop = 0 THEN input ELSE SubSeq(input, 1, stop - 1)),
                                     rest |-> IF stop = 0 THEN << >> ELSE RemoveFromFront(input, stop),
                                     success |-> stop = 0 \/ input[stop] = ","]
BY DEF GetLong, SelectInSeq, Stop

LEMMA StopAt ==
    ASSUME NEW S, NEW input \in Seq(S), NEW p \in 1 .. Len(input), ~IsDigit(input[p]),
           \A i \in 1 .. Len(input) : i < p => IsDigit(input[i])
    PROVE  Stop(input) = p
<1>. DEFINE I == {i \in 1 .. Len(input) : ~IsDigit(input[i])}
<1>1. p \in I /\ \A i \in I : p <= i
  BY LenProperties
<1>2. \A x \in I : (\A y \in I : x <= y) => x = p
  BY <1>1, LenProperties
<1>3. Min(I) = p
  <2>. HIDE DEF I
  <2>. QED
    BY <1>1, <1>2 DEF Min
<1>. QED
  BY <1>1, <1>3 DEF Stop

LEMMA StopNowhere ==
    ASSUME NEW input, \A i \in 1 .. Len(input) : IsDigit(input[i])
    PROVE  Stop(input) = 0
BY DEF Stop

(* Digits, one byte more, and the rest. *)
LEMMA StopBehind ==
    ASSUME NEW S, NEW d \in Seq(S), NEW c \in Seq(S), NEW r \in Seq(S),
           Len(c) = 1, ~IsDigit(c[1]), \A i \in 1 .. Len(d) : IsDigit(d[i])
    PROVE  /\ Len(d) + 1 # 0 /\ (Len(d) + 1) - 1 = Len(d)
           /\ Stop((d \o c) \o r) = Len(d) + 1 /\ ((d \o c) \o r)[Len(d) + 1] = c[1]
           /\ SubSeq((d \o c) \o r, 1, Len(d)) = d
           /\ RemoveFromFront((d \o c) \o r, Len(d) + 1) = r
<1>. DEFINE dc == d \o c
            p == Len(d) + 1
            input == dc \o r
<1>1. Len(d) \in Nat /\ Len(r) \in Nat /\ input = dc \o r
  BY LenProperties
<1>. HIDE DEF input
<1>2. /\ dc \in Seq(S) /\ Len(dc) = p
      /\ \A i \in 1 .. p : dc[i] = IF i <= Len(d) THEN d[i] ELSE c[i - Len(d)]
  <2>1. /\ dc \in Seq(S) /\ Len(dc) = Len(d) + Len(c)
        /\ \A i \in 1 .. Len(d) + Len(c) : dc[i] = IF i <= Len(d) THEN d[i] ELSE c[i - Len(d)]
    BY ConcatProperties
  <2>. HIDE DEF dc
  <2>. QED
    BY <2>1
<1>3. SubSeq(dc, 1, Len(d)) = d
  BY FrontBack
<1>. HIDE DEF dc
<1>4. p \in Nat /\ p - 1 = Len(d) /\ p # 0 /\ p >= 1
  BY <1>1
<1>. HIDE DEF p
<1>5. /\ input \in Seq(S) /\ Len(input) = p + Len(r)
      /\ \A i \in 1 .. p + Len(r) : input[i] = IF i <= p THEN dc[i] ELSE r[i - p]
  BY <1>1, <1>2, ConcatProperties
<1>6. SubSeq(input, p + 1, Len(input)) = r
  BY <1>1, <1>2, FrontBack
<1>7. p \in 1 .. Len(input) /\ ~(p > Len(input))
  BY <1>1, <1>4, <1>5
<1>8. input[p] = c[1]
  <2>1. p \in 1 .. p + Len(r) /\ p <= p /\ ~(p <= Len(d)) /\ p - Len(d) = 1 /\ p \in 1 .. p
    BY <1>1, <1>4
  <2>2. input[p] = dc[p] /\ dc[p] = c[1]
    BY <1>2, <1>5, <2>1
  <2>. QED
    BY <2>2
<1>9. ASSUME NEW i \in 1 .. Len(input), i < p
      PROVE  input[i] = d[i] /\ i \in 1 .. Len(d)
  <2>1. i \in 1 .. p + Len(r) /\ i <= p /\ i <= Len(d) /\ i \in 1 .. p /\ i \in 1 .. Len(d)
    BY <1>1, <1>4, <1>5, <1>9
  <2>. QED
    BY <1>2, <1>5, <2>1
<1>10. Stop(input) = p
  <2>1. \A i \in 1 .. Len(input) : i < p => IsDigit(input[i])
    BY <1>9
  <2>2. ~IsDigit(input[p])
    BY <1>8
  <2>. QED
    BY <1>5, <1>7, <2>1, <2>2, StopAt
<1>11. SubSeq(input, 1, Len(d)) = d
  <2>1. \A i \in 1 .. Len(d) : i \in 1 .. Len(input) /\ i < p
    BY <1>1, <1>4, <1>5
  <2>2. \A i \in 1 .. Len(d) : input[i] = d[i]
    BY <1>9, <2>1
  <2>. QED
    BY <2>2, SubSeqIs
<1>12. RemoveFromFront(input, p) = r
  <2>1. RemoveFromFront(input, p) = SubSeq(input, p + 1, Len(input))
    BY <1>7 DEF RemoveFromFront
  <2>. QED
    BY <1>6, <2>1
<1>. QED
  BY <1>4, <1>8, <1>10, <1>11, <1>12 DEF p, input, dc

LEMMA OneIs == ASSUME NEW S, NEW x \in S
               PROVE  <<x>> \in Seq(S) /\ Len(<<x>>) = 1 /\ <<x>>[1] = x
OBVIOUS

(* What separates two parameters, apart from what it looks like. *)
Comma == <<",">>

LEMMA CommaFacts == Len(Comma) = 1 /\ ~IsDigit(Comma[1]) /\ Comma[1] = ","
<1>1. Len(Comma) = 1 /\ Comma[1] = ","
  BY DEF Comma
<1>. QED
  BY <1>1, CommaIs

LEMMA LongParsed ==
    ASSUME NEW S, NEW d \in Seq(S), NEW c \in Seq(S), NEW r \in Seq(S), NEW n,
           Len(c) = 1, ~IsDigit(c[1]), c[1] = Comma[1], ValueOf(d) = n,
           \A i \in 1 .. Len(d) : IsDigit(d[i])
    PROVE  /\ GetLong((d \o c) \o r) = [value |-> n, rest |-> r, success |-> TRUE]
           /\ GetLong(d) = [value |-> n, rest |-> << >>, success |-> TRUE]
<1>. DEFINE p == Len(d) + 1
            input == (d \o c) \o r
<1>2. /\ p # 0 /\ p - 1 = Len(d) /\ Stop(input) = p /\ input[p] = c[1]
      /\ SubSeq(input, 1, Len(d)) = d /\ RemoveFromFront(input, p) = r
  BY StopBehind
<1>. HIDE DEF p, input
<1>3. Stop(input) # 0 /\ input[p] = "," /\ Stop(d) = 0
  BY <1>2, CommaFacts, StopNowhere
<1>4. GetLong(input) = [value |-> n, rest |-> r, success |-> TRUE]
  BY <1>2, <1>3, LongIs
<1>5. GetLong(d) = [value |-> n, rest |-> << >>, success |-> TRUE]
  BY <1>3, LongIs
<1>. QED
  BY <1>4, <1>5 DEF input

(* Digits, a comma, the rest; or digits alone. *)
LEMMA LongIsRead ==
    ASSUME NEW S, ToSet(Digits) \subseteq S, Comma \in Seq(S), NEW n \in Nat, NEW r \in Seq(S)
    PROVE  /\ GetLong((Decimal[n] \o Comma) \o r) = [value |-> n, rest |-> r, success |-> TRUE]
           /\ GetLong(Decimal[n]) = [value |-> n, rest |-> << >>, success |-> TRUE]
           /\ Decimal[n] \in Seq(S)
<1>1. Decimal[n] \in Seq(ToSet(Digits)) /\ ValueOf(Decimal[n]) = n
  BY DecimalReads
<1>2. Decimal[n] \in Seq(S)
  BY <1>1, SeqMonotonic
<1>3. \A i \in 1 .. Len(Decimal[n]) : IsDigit(Decimal[n][i])
  BY <1>1, ElementOfSeq DEF IsDigit
<1>4. \A d \in Seq(S) :
         ValueOf(d) = n /\ (\A i \in 1 .. Len(d) : IsDigit(d[i]))
         => /\ GetLong((d \o Comma) \o r) = [value |-> n, rest |-> r, success |-> TRUE]
            /\ GetLong(d) = [value |-> n, rest |-> << >>, success |-> TRUE]
  <2>. SUFFICES ASSUME NEW d \in Seq(S), ValueOf(d) = n, \A i \in 1 .. Len(d) : IsDigit(d[i])
                PROVE  /\ GetLong((d \o Comma) \o r) = [value |-> n, rest |-> r, success |-> TRUE]
                       /\ GetLong(d) = [value |-> n, rest |-> << >>, success |-> TRUE]
    OBVIOUS
  <2>. QED
    BY CommaFacts, LongParsed
<1>. QED
  BY <1>1, <1>2, <1>3, <1>4

LEMMA MiddleIs ==
    ASSUME NEW S, NEW t \in Seq(S), NEW m \in Nat, NEW s, \A i \in 1 .. Len(t) : s[m + i] = t[i]
    PROVE  SubSeq(s, m + 1, m + Len(t)) = t
<1>. DEFINE u == SubSeq(s, m + 1, m + Len(t))
            a == m + 1
            b == m + Len(t)
<1>1. Len(t) \in Nat /\ a \in Int /\ b \in Int /\ b - a + 1 = Len(t) /\ (a <= b <=> 1 <= Len(t))
  BY LenProperties
<1>2. \A i \in a .. b : s[i] \in S
  <2>. SUFFICES ASSUME NEW i \in a .. b PROVE s[i] \in S
    OBVIOUS
  <2>1. i - m \in 1 .. Len(t) /\ m + (i - m) = i
    BY <1>1
  <2>2. s[m + (i - m)] = t[i - m]
    BY <2>1
  <2>3. t[i - m] \in S
    BY <2>1, ElementOfSeq
  <2>. QED
    BY <2>1, <2>2, <2>3
<1>. HIDE DEF a, b
<1>3. /\ u \in Seq(S) /\ Len(u) = IF a <= b THEN b - a + 1 ELSE 0
      /\ \A i \in 1 .. b - a + 1 : u[i] = s[a + i - 1]
  <2>1. u = SubSeq(s, a, b)
    BY DEF a, b
  <2>. HIDE DEF u
  <2>. QED
    BY <1>1, <1>2, <2>1, SubSeqProperties
<1>. HIDE DEF u
<1>4. Len(u) = Len(t)
  BY <1>1, <1>3
<1>5. ASSUME NEW i \in 1 .. Len(t) PROVE u[i] = t[i]
  <2>1. a + i - 1 = m + i
    BY <1>1 DEF a
  <2>2. u[i] = s[a + i - 1]
    BY <1>1, <1>3
  <2>. QED
    BY <2>1, <2>2
<1>6. u = t
  BY <1>3, <1>4, <1>5, SeqEqual
<1>. QED
  BY <1>6 DEF u

(* What is between the brackets of a message. *)
LEMMA InsideIs ==
    ASSUME NEW S, NEW f \in Seq(S), NEW open \in S, NEW close \in S
    PROVE  Substr((<<open>> \o f) \o <<close>>, 1, Len((<<open>> \o f) \o <<close>>) - 2) = f
<1>. DEFINE a == <<open>>
            z == <<close>>
            af == a \o f
            m == af \o z
<1>1. a \in Seq(S) /\ Len(a) = 1 /\ z \in Seq(S) /\ Len(z) = 1 /\ Len(f) \in Nat
  BY OneIs, LenProperties
<1>. HIDE DEF a, z
<1>2. /\ af \in Seq(S) /\ Len(af) = Len(a) + Len(f)
      /\ \A i \in 1 .. Len(a) + Len(f) : af[i] = IF i <= Len(a) THEN a[i] ELSE f[i - Len(a)]
  BY <1>1, ConcatProperties
<1>. HIDE DEF af
<1>3. /\ Len(m) = Len(af) + Len(z)
      /\ \A i \in 1 .. Len(af) + Len(z) : m[i] = IF i <= Len(af) THEN af[i] ELSE z[i - Len(af)]
  <2>1. /\ Len(af \o z) = Len(af) + Len(z)
        /\ \A i \in 1 .. Len(af) + Len(z) : (af \o z)[i] = IF i <= Len(af) THEN af[i] ELSE z[i - Len(af)]
    <3>1. af \in Seq(S) /\ z \in Seq(S)
      BY <1>1, <1>2
    <3>. QED
      BY <3>1, ConcatProperties, Zenon
  <2>2. m = af \o z
    OBVIOUS
  <2>. HIDE DEF m
  <2>. QED
    BY <2>1, <2>2
<1>. HIDE DEF m
<1>4. Len(m) = Len(f) + 2 /\ ~(1 < 0) /\ ~(1 >= Len(m)) /\ 1 + (Len(m) - 2) = 1 + Len(f)
      /\ ~(1 + (Len(m) - 2) > Len(m)) /\ 1 + 1 = 2
  BY <1>1, <1>2, <1>3
<1>5. Substr(m, 1, Len(m) - 2) = SubSeq(m, 1 + 1, 1 + Len(f))
  BY <1>4 DEF Substr
<1>6. \A i \in 1 .. Len(f) : m[1 + i] = f[i]
  <2>. SUFFICES ASSUME NEW i \in 1 .. Len(f) PROVE m[1 + i] = f[i]
    OBVIOUS
  <2>1. /\ 1 + i \in 1 .. Len(af) + Len(z) /\ 1 + i <= Len(af) /\ 1 + i \in 1 .. Len(a) + Len(f)
        /\ ~(1 + i <= Len(a)) /\ (1 + i) - Len(a) = i
    BY <1>1, <1>2
  <2>2. m[1 + i] = af[1 + i]
    BY <1>3, <2>1
  <2>3. af[1 + i] = f[(1 + i) - Len(a)]
    BY <1>2, <2>1
  <2>. QED
    BY <2>1, <2>2, <2>3
<1>7. SubSeq(m, 1 + 1, 1 + Len(f)) = f
  BY <1>6, MiddleIs
<1>. QED
  BY <1>5, <1>7 DEF m, af, a, z

(* A text is read by its length, whatever is in it and behind it. *)
LEMMA TextIsRead ==
    ASSUME NEW S, ToSet(Digits) \subseteq S, Comma \in Seq(S), NEW b \in Seq(S), NEW t \in Seq(S)
    PROVE  GetString((Decimal[Len(b)] \o Comma) \o (b \o t)) = [value |-> b, rest |-> t, success |-> TRUE]
<1>. DEFINE r == b \o t
            input == (Decimal[Len(b)] \o Comma) \o r
<1>1. /\ SubSeq(r, 1, Len(b)) = b /\ SubSeq(r, Len(b) + 1, Len(r)) = t
      /\ r \in Seq(S) /\ Len(r) = Len(b) + Len(t) /\ Len(b) \in Nat /\ Len(t) \in Nat
  BY FrontBack, LenProperties
<1>. HIDE DEF r
<1>2. GetLong(input) = [value |-> Len(b), rest |-> r, success |-> TRUE]
  BY <1>1, LongIsRead
<1>. HIDE DEF input
<1>3. Substr(r, 0, Len(b)) = b
  <2>1. CASE Len(r) = 0
    <3>1. Len(b) = 0 /\ 0 >= Len(r)
      BY <1>1, <2>1
    <3>2. b = << >>
      BY <3>1, EmptySeq
    <3>. QED
      BY <3>1, <3>2 DEF Substr
  <2>2. CASE Len(r) # 0
    <3>1. ~(0 < 0) /\ ~(0 >= Len(r)) /\ 0 + 1 = 1 /\ 0 + Len(b) = Len(b) /\ ~(0 + Len(b) > Len(r))
      BY <1>1, <2>2
    <3>2. Substr(r, 0, Len(b)) = SubSeq(r, 1, Len(b))
      BY <3>1 DEF Substr
    <3>. QED
      BY <1>1, <3>2
  <2>. QED
    BY <2>1, <2>2
<1>4. RemoveFromFront(r, Len(b)) = t
  <2>1. ~(Len(b) > Len(r))
    BY <1>1
  <2>. QED
    BY <1>1, <2>1 DEF RemoveFromFront
<1>5. Len(b) <= Len(r)
  BY <1>1
<1>6. GetString(input) = [value |-> b, rest |-> t, success |-> TRUE]
  <2>. DEFINE length == GetLong(input)
  <2>1. length.value = Len(b) /\ length.rest = r /\ length.success = TRUE
    BY <1>2
  <2>2. GetString(input) = [value |-> Substr(length.rest, 0, length.value),
                            rest |-> RemoveFromFront(length.rest, length.value),
                            success |-> length.success /\ length.value <= Len(length.rest)]
    BY DEF GetString
  <2>. HIDE DEF length
  <2>3. (length.success /\ length.value <= Len(length.rest)) = TRUE
    BY <1>5, <2>1
  <2>. QED
    BY <1>3, <1>4, <2>1, <2>2, <2>3
<1>. QED
  BY <1>6 DEF input, r

(* With a length that is too small something else is read. *)
LEMMA TextIsCut ==
    ASSUME NEW S, ToSet(Digits) \subseteq S, Comma \in Seq(S), NEW b \in Seq(S), NEW t \in Seq(S),
           NEW n \in Nat, n < Len(b)
    PROVE  GetString((Decimal[n] \o Comma) \o (b \o t)).value # b
<1>. DEFINE r == b \o t
            input == (Decimal[n] \o Comma) \o r
<1>1. r \in Seq(S) /\ Len(r) = Len(b) + Len(t) /\ Len(b) \in Nat /\ Len(t) \in Nat
  BY FrontBack, LenProperties
<1>. HIDE DEF r
<1>2. GetLong(input) = [value |-> n, rest |-> r, success |-> TRUE]
  BY <1>1, LongIsRead
<1>. HIDE DEF input
<1>3. GetString(input).value = Substr(r, 0, n)
  BY <1>2 DEF GetString
<1>4. ~(0 < 0) /\ ~(0 >= Len(r)) /\ 0 + 1 = 1 /\ 0 + n = n /\ ~(0 + n > Len(r)) /\ n \in Int
  BY <1>1
<1>5. Substr(r, 0, n) = SubSeq(r, 1, n)
  BY <1>4 DEF Substr
<1>6. \A i \in 1 .. n : r[i] \in S
  <2>1. \A i \in 1 .. n : i \in 1 .. Len(r)
    BY <1>1
  <2>. QED
    BY <1>1, <2>1, ElementOfSeq
<1>7. Len(SubSeq(r, 1, n)) = n
  <2>1. Len(SubSeq(r, 1, n)) = IF 1 <= n THEN n - 1 + 1 ELSE 0
    BY <1>4, <1>6, SubSeqProperties
  <2>. QED
    BY <2>1
<1>8. GetString(input).value # b
  BY <1>1, <1>3, <1>5, <1>7
<1>. QED
  BY <1>8 DEF input, r

(* Concatenation is associative, with a name for what is put together      *)
(* first.                                                                  *)
Joins(st, s, t) == st = s \o t

LEMMA Together ==
    ASSUME NEW S, NEW s \in Seq(S), NEW t \in Seq(S), NEW st, Joins(st, s, t)
    PROVE  /\ st \in Seq(S) /\ Len(st) = Len(s) + Len(t)
           /\ \A i \in 1 .. Len(s) + Len(t) : st[i] = IF i <= Len(s) THEN s[i] ELSE t[i - Len(s)]
BY ConcatProperties DEF Joins

LEMMA RegroupAt ==
    ASSUME NEW S, NEW a \in Seq(S), NEW b \in Seq(S), NEW c \in Seq(S), NEW ab \in Seq(S), NEW bc \in Seq(S),
           NEW x \in Seq(S), NEW y \in Seq(S),
           Len(ab) = Len(a) + Len(b),
           \A i \in 1 .. Len(a) + Len(b) : ab[i] = IF i <= Len(a) THEN a[i] ELSE b[i - Len(a)],
           Len(bc) = Len(b) + Len(c),
           \A i \in 1 .. Len(b) + Len(c) : bc[i] = IF i <= Len(b) THEN b[i] ELSE c[i - Len(b)],
           Len(x) = Len(ab) + Len(c),
           \A i \in 1 .. Len(ab) + Len(c) : x[i] = IF i <= Len(ab) THEN ab[i] ELSE c[i - Len(ab)],
           Len(y) = Len(a) + Len(bc),
           \A i \in 1 .. Len(a) + Len(bc) : y[i] = IF i <= Len(a) THEN a[i] ELSE bc[i - Len(a)]
    PROVE  x = y
<1>1. Len(a) \in Nat /\ Len(b) \in Nat /\ Len(c) \in Nat
  BY LenProperties
<1>2. Len(x) = Len(y)
  BY <1>1
<1>3. ASSUME NEW i \in 1 .. Len(x) PROVE x[i] = y[i]
  <2>1. i \in 1 .. Len(ab) + Len(c) /\ i \in 1 .. Len(a) + Len(bc)
    BY <1>2
  <2>2. CASE i <= Len(a)
    <3>1. i <= Len(ab) /\ i \in 1 .. Len(a) + Len(b)
      BY <1>1, <2>1, <2>2
    <3>2. x[i] = ab[i] /\ ab[i] = a[i] /\ y[i] = a[i]
      BY <2>1, <2>2, <3>1
    <3>. QED
      BY <3>2
  <2>3. CASE ~(i <= Len(a)) /\ i <= Len(ab)
    <3>1. i \in 1 .. Len(a) + Len(b) /\ i - Len(a) <= Len(b) /\ i - Len(a) \in 1 .. Len(b) + Len(c)
      BY <1>1, <2>1, <2>3
    <3>2. x[i] = ab[i] /\ ab[i] = b[i - Len(a)]
      BY <2>1, <2>3, <3>1
    <3>3. y[i] = bc[i - Len(a)] /\ bc[i - Len(a)] = b[i - Len(a)]
      BY <2>1, <2>3, <3>1
    <3>. QED
      BY <3>2, <3>3
  <2>4. CASE ~(i <= Len(ab))
    <3>1. /\ ~(i <= Len(a)) /\ i - Len(a) \in 1 .. Len(b) + Len(c) /\ ~(i - Len(a) <= Len(b))
          /\ (i - Len(a)) - Len(b) = i - Len(ab)
      BY <1>1, <2>1, <2>4
    <3>2. x[i] = c[i - Len(ab)]
      BY <2>1, <2>4
    <3>3. y[i] = bc[i - Len(a)] /\ bc[i - Len(a)] = c[(i - Len(a)) - Len(b)]
      BY <2>1, <3>1
    <3>. QED
      BY <3>1, <3>2, <3>3
  <2>. QED
    BY <2>2, <2>3, <2>4
<1>. QED
  BY <1>2, <1>3, SeqEqual

LEMMA Regroup ==
    ASSUME NEW S, NEW a \in Seq(S), NEW b \in Seq(S), NEW c \in Seq(S),
           NEW ab, NEW bc, NEW x, NEW y, Joins(ab, a, b), Joins(bc, b, c), Joins(x, ab, c), Joins(y, a, bc)
    PROVE  x = y
<1>1. /\ ab \in Seq(S) /\ Len(ab) = Len(a) + Len(b)
      /\ \A i \in 1 .. Len(a) + Len(b) : ab[i] = IF i <= Len(a) THEN a[i] ELSE b[i - Len(a)]
  BY Together
<1>2. /\ bc \in Seq(S) /\ Len(bc) = Len(b) + Len(c)
      /\ \A i \in 1 .. Len(b) + Len(c) : bc[i] = IF i <= Len(b) THEN b[i] ELSE c[i - Len(b)]
  BY Together
<1>3. /\ x \in Seq(S) /\ Len(x) = Len(ab) + Len(c)
      /\ \A i \in 1 .. Len(ab) + Len(c) : x[i] = IF i <= Len(ab) THEN ab[i] ELSE c[i - Len(ab)]
  <2>1. ab \in Seq(S) /\ c \in Seq(S) /\ Joins(x, ab, c)
    BY <1>1
  <2>. QED
    BY <2>1, Together
<1>4. /\ y \in Seq(S) /\ Len(y) = Len(a) + Len(bc)
      /\ \A i \in 1 .. Len(a) + Len(bc) : y[i] = IF i <= Len(a) THEN a[i] ELSE bc[i - Len(a)]
  <2>1. a \in Seq(S) /\ bc \in Seq(S) /\ Joins(y, a, bc)
    BY <1>2
  <2>. QED
    BY <2>1, Together
<1>. QED
  BY <1>1, <1>2, <1>3, <1>4, RegroupAt

-----------------------------------------------------------------------------
(* Sequences put together one after the other: what stands in front of and *)
(* behind each of them.                                                    *)
Fronts(h, n, seqs, S) ==
    /\ h[0] = << >>
    /\ \A k \in 0 .. n : h[k] \in Seq(S)
    /\ \A k \in 1 .. n : h[k] = h[k - 1] \o seqs[k]

LEMMA FrontsExist ==
    ASSUME NEW S, NEW n \in Nat, n # 0, NEW seqs, Len(seqs) = n, \A k \in 1 .. n : seqs[k] \in Seq(S)
    PROVE  \E h : Fronts(h, n, seqs, S) /\ h[n] = FlattenSeq(seqs)
<1>. DEFINE g == CHOOSE f : Flattens(f, seqs, n)
<1>1. FlattenSeq(seqs) = g[n]
  BY DEF FlattenSeq, Flattens
<1>2. Flattens(g, seqs, n)
  BY FlattensExists
<1>. HIDE DEF g
<1>3. \A i \in 1 .. n : g[i] = IF i = 1 THEN seqs[i] ELSE g[i - 1] \o seqs[i]
  BY <1>2 DEF Flattens
<1>. DEFINE h == [k \in 0 .. n |-> IF k = 0 THEN << >> ELSE g[k]]
<1>4. h[0] = << >> /\ \A k \in 1 .. n : h[k] = g[k]
  OBVIOUS
<1>. HIDE DEF h
<1>5. << >> \in Seq(S)
  BY EmptySeq
<1>6. \A k \in 1 .. n : g[k] \in Seq(S)
  <2>. DEFINE Bad == {i \in 1 .. n : g[i] \notin Seq(S)}
  <2>. SUFFICES ASSUME Bad # {} PROVE FALSE
    OBVIOUS
  <2>1. PICK i \in Bad : \A k \in Bad : i <= k
    <3>1. Bad \subseteq Nat
      OBVIOUS
    <3>. HIDE DEF Bad
    <3>. QED
      BY <3>1, Least
  <2>2. i \in 1 .. n /\ g[i] \notin Seq(S)
    OBVIOUS
  <2>3. i # 1
    BY <1>3, <2>2
  <2>4. i - 1 \in 1 .. n /\ ~(i <= i - 1)
    BY <2>2, <2>3
  <2>5. g[i - 1] \in Seq(S)
    <3>1. i - 1 \notin Bad
      <4>. HIDE DEF Bad
      <4>. QED
        BY <2>1, <2>4
    <3>. QED
      BY <2>4, <3>1
  <2>. HIDE DEF Bad
  <2>6. g[i] = g[i - 1] \o seqs[i] /\ seqs[i] \in Seq(S)
    BY <1>3, <2>2, <2>3
  <2>. QED
    BY <2>2, <2>5, <2>6, ConcatProperties
<1>7. \A k \in 0 .. n : h[k] \in Seq(S)
  <2>1. \A k \in 0 .. n : k = 0 \/ k \in 1 .. n
    OBVIOUS
  <2>. QED
    BY <1>4, <1>5, <1>6, <2>1
<1>8. ASSUME NEW k \in 1 .. n PROVE h[k] = h[k - 1] \o seqs[k]
  <2>1. CASE k = 1
    <3>1. h[k] = seqs[k] /\ k - 1 = 0
      BY <1>3, <1>4, <2>1
    <3>2. h[k - 1] = << >>
      BY <1>4, <3>1
    <3>3. << >> \o seqs[k] = seqs[k]
      BY ConcatEmptySeq
    <3>. QED
      BY <3>1, <3>2, <3>3
  <2>2. CASE k # 1
    <3>1. k - 1 \in 1 .. n
      BY <2>2
    <3>. QED
      BY <1>3, <1>4, <2>2, <3>1
  <2>. QED
    BY <2>1, <2>2
<1>9. n \in 1 .. n
  OBVIOUS
<1>. QED
  BY <1>1, <1>4, <1>7, <1>8, <1>9 DEF Fronts

LEMMA FrontsBacks ==
    ASSUME NEW S, NEW n \in Nat, NEW seqs, \A k \in 1 .. n : seqs[k] \in Seq(S),
           NEW h, Fronts(h, n, seqs, S)
    PROVE  \A k \in 0 .. n : \E t \in Seq(S) : Joins(h[n], h[k], t)
<1>. DEFINE Is(k) == \E t \in Seq(S) : Joins(h[n], h[k], t)
            Bad == {j \in 0 .. n : ~Is(n - j)}
<1>1. Bad = {}
  <2>. SUFFICES ASSUME Bad # {} PROVE FALSE
    OBVIOUS
  <2>1. PICK j \in Bad : \A k \in Bad : j <= k
    <3>1. Bad \subseteq Nat
      OBVIOUS
    <3>. HIDE DEF Bad
    <3>. QED
      BY <3>1, Least
  <2>2. j \in 0 .. n /\ ~Is(n - j)
    OBVIOUS
  <2>3. j # 0
    <3>. SUFFICES ASSUME j = 0 PROVE FALSE
      OBVIOUS
    <3>1. n - j = n /\ n \in 0 .. n
      OBVIOUS
    <3>2. h[n] \in Seq(S)
      BY <3>1 DEF Fronts
    <3>3. << >> \in Seq(S) /\ h[n] = h[n] \o << >>
      BY <3>2, EmptySeq, ConcatEmptySeq
    <3>4. Is(n)
      BY <3>3 DEF Joins
    <3>. HIDE DEF Is, Bad
    <3>. QED
      BY <2>2, <3>1, <3>4
  <2>. DEFINE k == n - (j - 1)
  <2>4. j - 1 \in 0 .. n /\ ~(j <= j - 1) /\ k \in 1 .. n /\ k - 1 = n - j /\ k - 1 \in 0 .. n /\ k \in 0 .. n
    BY <2>2, <2>3
  <2>5. Is(k)
    <3>1. j - 1 \notin Bad
      <4>. HIDE DEF Bad
      <4>. QED
        BY <2>1, <2>4
    <3>. HIDE DEF Is
    <3>. QED
      BY <2>4, <3>1
  <2>. HIDE DEF k
  <2>6. PICK t \in Seq(S) : Joins(h[n], h[k], t)
    BY <2>5
  <2>7. h[k] = h[k - 1] \o seqs[k] /\ h[k - 1] \in Seq(S) /\ seqs[k] \in Seq(S)
    BY <2>4 DEF Fronts
  <2>. DEFINE r == seqs[k] \o t
              y == h[k - 1] \o r
  <2>8. Joins(h[n], h[k - 1], r)
    <3>1. Joins(r, seqs[k], t) /\ Joins(y, h[k - 1], r)
      BY DEF Joins
    <3>2. Joins(h[k], h[k - 1], seqs[k]) /\ Joins(h[n], h[k], t)
      BY <2>6, <2>7 DEF Joins
    <3>. HIDE DEF r, y, Is, Bad
    <3>3. h[n] = y
      BY <2>7, <3>1, <3>2, Regroup
    <3>. QED
      BY <3>1, <3>3
  <2>9. r \in Seq(S)
    BY <2>7, ConcatProperties
  <2>10. Is(k - 1)
    BY <2>8, <2>9
  <2>. HIDE DEF Is, Bad
  <2>. QED
    BY <2>2, <2>4, <2>10
<1>2. ASSUME NEW k \in 0 .. n PROVE Is(k)
  <2>1. n - k \in 0 .. n /\ n - (n - k) = k
    OBVIOUS
  <2>2. n - k \notin Bad
    <3>. HIDE DEF Bad
    <3>. QED
      BY <1>1
  <2>3. Is(n - (n - k))
    <3>. HIDE DEF Is
    <3>. QED
      BY <2>1, <2>2
  <2>. HIDE DEF Is, Bad
  <2>. QED
    BY <2>1, <2>3
<1>. QED
  BY <1>2

-----------------------------------------------------------------------------
(* The bytes of a text: its characters if none is wide, otherwise more of  *)
(* them.                                                                   *)
BytesOf(text, k) == IF text[k] \in Wide THEN WideBytes[text[k]] ELSE <<text[k]>>

LEMMA WideIs == \A c \in Wide : \E S : WideBytes[c] \in Seq(S) /\ Len(WideBytes[c]) \in {2, 3}
<1>1. Wide = {"u2", "u3"}
  BY DEF Wide, WideBytes
<1>2. WideBytes["u2"] = <<"u2-1", "u2-2">> /\ WideBytes["u3"] = <<"u3-1", "u3-2", "u3-3">>
  BY DEF WideBytes
<1>3. <<"u2-1", "u2-2">> \in Seq({"u2-1", "u2-2"}) /\ Len(<<"u2-1", "u2-2">>) = 2
  OBVIOUS
<1>4. <<"u3-1", "u3-2", "u3-3">> \in Seq({"u3-1", "u3-2", "u3-3"}) /\ Len(<<"u3-1", "u3-2", "u3-3">>) = 3
  OBVIOUS
<1>. QED
  BY <1>1, <1>2, <1>3, <1>4

LEMMA BytesFacts ==
    ASSUME NEW S, NEW text \in Seq(S), \A k \in 1 .. Len(text) : BytesOf(text, k) \in Seq(S),
           \A c \in Wide : Len(WideBytes[c]) \in {2, 3}
    PROVE  /\ Bytes(text) \in Seq(S) /\ Len(Bytes(text)) >= Len(text)
           /\ Plain(text) => Bytes(text) = text
           /\ ~Plain(text) => Len(Bytes(text)) > Len(text)
<1>. DEFINE n == Len(text)
            seqs == [k \in 1 .. n |-> BytesOf(text, k)]
<1>1. n \in Nat /\ DOMAIN text = 1 .. n
  BY LenProperties
<1>2. Bytes(text) = FlattenSeq(seqs)
  BY <1>1 DEF Bytes, BytesOf
<1>3. Plain(text) <=> \A k \in 1 .. n : text[k] \notin Wide
  BY <1>1 DEF Plain
<1>4. seqs \in Seq(Seq(S)) /\ Len(seqs) = n /\ \A k \in 1 .. n : seqs[k] = BytesOf(text, k) /\ seqs[k] \in Seq(S)
  BY <1>1
<1>. HIDE DEF n, seqs
<1>5. CASE n = 0
  <2>1. text = << >>
    BY <1>5, EmptySeq DEF n
  <2>2. seqs = << >> /\ FlattenSeq(seqs) = seqs
    BY <1>4, <1>5, EmptySeq DEF FlattenSeq
  <2>3. Plain(text)
    BY <1>3, <1>5
  <2>. QED
    <3>1. Bytes(text) = text
      BY <1>2, <2>1, <2>2
    <3>2. Len(Bytes(text)) = n /\ n >= n
      BY <1>1, <3>1 DEF n
    <3>. QED
      BY <2>3, <3>1, <3>2 DEF n
<1>6. CASE n # 0
  <2>1. PICK h : Fronts(h, n, seqs, S) /\ h[n] = FlattenSeq(seqs)
    BY <1>1, <1>4, <1>6, FrontsExist
  <2>2. /\ h[0] = << >> /\ \A k \in 0 .. n : h[k] \in Seq(S)
        /\ \A k \in 1 .. n : h[k] = h[k - 1] \o BytesOf(text, k) /\ BytesOf(text, k) \in Seq(S)
    BY <1>4, <2>1 DEF Fronts
  <2>. DEFINE Grows1(k) == /\ Len(h[k]) >= k
                           /\ (\E i \in 1 .. k : text[i] \in Wide) => Len(h[k]) > k
                           /\ (\A i \in 1 .. k : text[i] \notin Wide) => h[k] = SubSeq(text, 1, k)
              Bad == {k \in 0 .. n : ~Grows1(k)}
  <2>3. Bad = {}
    <3>. SUFFICES ASSUME Bad # {} PROVE FALSE
      OBVIOUS
    <3>1. PICK k \in Bad : \A j \in Bad : k <= j
      <4>1. Bad \subseteq Nat
        OBVIOUS
      <4>. HIDE DEF Bad
      <4>. QED
        BY <4>1, Least
    <3>2. k \in 0 .. n /\ ~Grows1(k)
      OBVIOUS
    <3>3. k # 0
      <4>1. Len(h[0]) = 0 /\ SubSeq(text, 1, 0) = << >>
        BY <2>2, EmptySeq, SubSeqEmpty
      <4>2. \A i \in 1 .. 0 : FALSE
        OBVIOUS
      <4>. QED
        BY <2>2, <3>2, <4>1, <4>2
    <3>4. k \in 1 .. n /\ k - 1 \in 0 .. n /\ ~(k <= k - 1)
      BY <1>1, <3>2, <3>3
    <3>5. Grows1(k - 1)
      <4>1. k - 1 \notin Bad
        <5>. HIDE DEF Bad
        <5>. QED
          BY <3>1, <3>4
      <4>. QED
        BY <3>4, <4>1
    <3>. HIDE DEF Bad
    <3>6. /\ h[k] = h[k - 1] \o BytesOf(text, k) /\ BytesOf(text, k) \in Seq(S) /\ h[k - 1] \in Seq(S)
          /\ Len(h[k]) = Len(h[k - 1]) + Len(BytesOf(text, k))
          /\ Len(h[k - 1]) \in Nat /\ Len(BytesOf(text, k)) \in Nat
      <4>1. h[k] = h[k - 1] \o BytesOf(text, k) /\ BytesOf(text, k) \in Seq(S) /\ h[k - 1] \in Seq(S)
        BY <2>2, <3>4
      <4>2. Len(h[k - 1] \o BytesOf(text, k)) = Len(h[k - 1]) + Len(BytesOf(text, k))
        BY <4>1, ConcatProperties
      <4>3. Len(h[k - 1]) \in Nat /\ Len(BytesOf(text, k)) \in Nat
        BY <4>1, LenProperties
      <4>. QED
        BY <4>1, <4>2, <4>3
    <3>7. /\ text[k] \in Wide => Len(BytesOf(text, k)) > 1
          /\ text[k] \notin Wide => BytesOf(text, k) = <<text[k]>> /\ Len(BytesOf(text, k)) = 1
      <4>1. CASE text[k] \in Wide
        <5>1. BytesOf(text, k) = WideBytes[text[k]]
          BY <4>1 DEF BytesOf
        <5>2. Len(WideBytes[text[k]]) \in {2, 3}
          BY <4>1
        <5>3. \A i \in {2, 3} : i > 1
          OBVIOUS
        <5>. QED
          BY <4>1, <5>1, <5>2, <5>3
      <4>2. CASE text[k] \notin Wide
        <5>1. BytesOf(text, k) = <<text[k]>>
          BY <4>2 DEF BytesOf
        <5>2. Len(<<text[k]>>) = 1
          OBVIOUS
        <5>. QED
          BY <4>2, <5>1, <5>2
      <4>. QED
        BY <4>1, <4>2
    <3>8. Len(BytesOf(text, k)) >= 1
      <4>1. Len(BytesOf(text, k)) > 1 \/ Len(BytesOf(text, k)) = 1
        BY <3>7
      <4>2. Len(BytesOf(text, k)) \in Nat
        BY <3>6
      <4>3. \A x \in Nat : x > 1 \/ x = 1 => x >= 1
        OBVIOUS
      <4>. QED
        BY <4>1, <4>2, <4>3
    <3>9. Len(h[k - 1]) >= k - 1
      BY <3>5
    <3>10. Len(h[k]) >= k
      BY <3>4, <3>6, <3>8, <3>9
    <3>11. ASSUME \E i \in 1 .. k : text[i] \in Wide PROVE Len(h[k]) > k
      <4>1. CASE text[k] \in Wide
        BY <3>4, <3>6, <3>7, <3>9, <4>1
      <4>2. CASE text[k] \notin Wide
        <5>1. \E i \in 1 .. k - 1 : text[i] \in Wide
          <6>1. PICK i \in 1 .. k : text[i] \in Wide
            BY <3>11
          <6>2. i # k /\ i \in 1 .. k - 1
            BY <3>4, <4>2, <6>1
          <6>. QED
            BY <6>1, <6>2
        <5>2. Len(h[k - 1]) > k - 1
          BY <3>5, <5>1
        <5>. QED
          BY <3>4, <3>6, <3>8, <5>2
      <4>. QED
        BY <4>1, <4>2
    <3>12. ASSUME \A i \in 1 .. k : text[i] \notin Wide PROVE h[k] = SubSeq(text, 1, k)
      <4>1. (\A i \in 1 .. k - 1 : text[i] \notin Wide) /\ text[k] \notin Wide
        <5>1. k \in 1 .. k /\ \A i \in 1 .. k - 1 : i \in 1 .. k
          BY <3>4
        <5>. QED
          BY <3>12, <5>1
      <4>2. h[k - 1] = SubSeq(text, 1, k - 1) /\ BytesOf(text, k) = <<text[k]>>
        BY <3>5, <3>7, <4>1
      <4>3. SubSeq(text, 1, k) = SubSeq(text, 1, k - 1) \o <<text[k]>>
        <5>1. 1 \in 1 .. Len(text) /\ k \in 1 .. Len(text)
          BY <1>1, <3>4 DEF n
        <5>. QED
          BY <5>1, SubSeqRecursiveSecond
      <4>. QED
        BY <3>6, <4>2, <4>3
    <3>. QED
      BY <3>2, <3>10, <3>11, <3>12
  <2>4. Grows1(n)
    <3>1. n \in 0 .. n /\ n \notin Bad
      <4>. HIDE DEF Bad
      <4>. QED
        BY <1>1, <2>3
    <3>. HIDE DEF Grows1
    <3>. QED
      BY <3>1
  <2>5. SubSeq(text, 1, n) = text
    BY SubSeqFull DEF n
  <2>6. n \in 0 .. n
    BY <1>1
  <2>. HIDE DEF Bad
  <2>. QED
    BY <1>2, <1>3, <2>1, <2>2, <2>4, <2>5, <2>6 DEF n
<1>. QED
  BY <1>5, <1>6

(* What is behind the same beginning is the same. *)
LEMMA Cancel ==
    ASSUME NEW S, NEW s \in Seq(S), NEW t \in Seq(S), NEW v \in Seq(S), NEW x, Joins(x, s, t), Joins(x, s, v)
    PROVE  t = v
<1>1. Len(s) \in Nat /\ Len(t) \in Nat /\ Len(v) \in Nat
  BY LenProperties
<1>2. /\ Len(x) = Len(s) + Len(t)
      /\ \A i \in 1 .. Len(s) + Len(t) : x[i] = IF i <= Len(s) THEN s[i] ELSE t[i - Len(s)]
  BY Together
<1>3. /\ Len(x) = Len(s) + Len(v)
      /\ \A i \in 1 .. Len(s) + Len(v) : x[i] = IF i <= Len(s) THEN s[i] ELSE v[i - Len(s)]
  BY Together
<1>4. Len(t) = Len(v)
  BY <1>1, <1>2, <1>3
<1>5. ASSUME NEW i \in 1 .. Len(t) PROVE t[i] = v[i]
  <2>. DEFINE k == Len(s) + i
  <2>1. /\ k \in 1 .. Len(s) + Len(t) /\ k \in 1 .. Len(s) + Len(v)
        /\ ~(k <= Len(s)) /\ k - Len(s) = i
    BY <1>1, <1>4
  <2>. HIDE DEF k
  <2>2. x[k] = t[k - Len(s)]
    BY <1>2, <2>1
  <2>3. x[k] = v[k - Len(s)]
    BY <1>3, <2>1
  <2>. QED
    BY <2>1, <2>2, <2>3
<1>. QED
  BY <1>4, <1>5, SeqEqual

(* What is left of the sequences behind each of them. *)
Rests(r, n, seqs, S) ==
    /\ r[n] = << >>
    /\ \A k \in 0 .. n : r[k] \in Seq(S)
    /\ \A k \in 1 .. n : Joins(r[k - 1], seqs[k], r[k])

(* Each of the sequences is in front of what is left behind it. *)
LEMMA RestsExist ==
    ASSUME NEW S, NEW n \in Nat, n # 0, NEW seqs, Len(seqs) = n, \A k \in 1 .. n : seqs[k] \in Seq(S)
    PROVE  \E r : Rests(r, n, seqs, S) /\ r[0] = FlattenSeq(seqs)
<1>1. PICK h : Fronts(h, n, seqs, S) /\ h[n] = FlattenSeq(seqs)
  BY FrontsExist
<1>. DEFINE rest(k) == CHOOSE t \in Seq(S) : Joins(h[n], h[k], t)
            r == [k \in 0 .. n |-> rest(k)]
<1>2. \A k \in 0 .. n : rest(k) \in Seq(S) /\ Joins(h[n], h[k], rest(k))
  <2>1. \A k \in 0 .. n : \E t \in Seq(S) : Joins(h[n], h[k], t)
    BY <1>1, FrontsBacks
  <2>. QED
    BY <2>1
<1>3. \A k \in 0 .. n : r[k] = rest(k)
  OBVIOUS
<1>. HIDE DEF rest, r
<1>4. \A k \in 0 .. n : r[k] \in Seq(S) /\ Joins(h[n], h[k], r[k])
  BY <1>2, <1>3
<1>5. /\ h[0] = << >> /\ 0 \in 0 .. n /\ n \in 0 .. n /\ \A k \in 0 .. n : h[k] \in Seq(S)
      /\ \A k \in 1 .. n : Joins(h[k], h[k - 1], seqs[k])
  <2>1. 0 \in 0 .. n /\ n \in 0 .. n
    OBVIOUS
  <2>2. h[0] = << >> /\ \A k \in 0 .. n : h[k] \in Seq(S)
    BY <1>1 DEF Fronts
  <2>3. \A k \in 1 .. n : h[k] = h[k - 1] \o seqs[k]
    BY <1>1 DEF Fronts
  <2>. QED
    BY <2>1, <2>2, <2>3 DEF Joins
<1>6. << >> \in Seq(S)
  BY EmptySeq
<1>7. r[0] = h[n]
  <2>1. h[n] = << >> \o r[0] /\ r[0] \in Seq(S)
    BY <1>4, <1>5 DEF Joins
  <2>2. << >> \o r[0] = r[0]
    BY <2>1, ConcatEmptySeq
  <2>. QED
    BY <2>1, <2>2
<1>8. r[n] = << >>
  <2>1. Joins(h[n], h[n], << >>)
    <3>1. h[n] \o << >> = h[n]
      BY <1>5, ConcatEmptySeq
    <3>. QED
      BY <3>1 DEF Joins
  <2>2. h[n] \in Seq(S) /\ r[n] \in Seq(S) /\ Joins(h[n], h[n], r[n])
    BY <1>4, <1>5
  <2>. QED
    BY <1>6, <2>1, <2>2, Cancel
<1>9. ASSUME NEW k \in 1 .. n PROVE Joins(r[k - 1], seqs[k], r[k])
  <2>1. k \in 0 .. n /\ k - 1 \in 0 .. n
    OBVIOUS
  <2>2. /\ Joins(h[n], h[k], r[k]) /\ Joins(h[k], h[k - 1], seqs[k]) /\ Joins(h[n], h[k - 1], r[k - 1])
        /\ r[k] \in Seq(S) /\ r[k - 1] \in Seq(S) /\ seqs[k] \in Seq(S) /\ h[k - 1] \in Seq(S)
    BY <1>4, <1>5, <2>1
  <2>. DEFINE u == seqs[k] \o r[k]
              y == h[k - 1] \o u
  <2>3. Joins(u, seqs[k], r[k]) /\ Joins(y, h[k - 1], u)
    BY DEF Joins
  <2>. HIDE DEF u, y
  <2>4. u \in Seq(S)
    BY <2>2, <2>3, Together
  <2>5. h[n] = y
    BY <2>2, <2>3, Regroup
  <2>6. u = r[k - 1]
    BY <2>2, <2>3, <2>4, <2>5, Cancel
  <2>. QED
    BY <2>3, <2>6
<1>. QED
  BY <1>1, <1>4, <1>7, <1>8, <1>9 DEF Rests

-----------------------------------------------------------------------------
(* How the server takes a command apart: the recursion of Messages!Parse,  *)
(* up to n, from what is left after the brackets are removed.              *)
Start(message) ==
    [values |-> << >>, rest |-> Substr(message, 1, Len(message) - 2), success |-> TRUE]

Parses(g, types, message, n) ==
    g = [k \in 0 .. n |-> IF k = 0 THEN Start(message) ELSE NextParameter(g[k - 1], types[k])]

LEMMA ParsesExist ==
    ASSUME NEW types, NEW message, NEW n \in Nat
    PROVE  \E g : Parses(g, types, message, n)
<1>. DEFINE Bad == {m \in Nat : ~\E g : Parses(g, types, message, m)}
<1>. SUFFICES ASSUME Bad # {} PROVE FALSE
  OBVIOUS
<1>1. PICK m \in Bad : \A k \in Bad : m <= k
  <2>1. Bad \subseteq Nat
    OBVIOUS
  <2>. HIDE DEF Bad
  <2>. QED
    BY <2>1, Least
<1>2. m \in Nat /\ ~\E g : Parses(g, types, message, m)
  OBVIOUS
<1>3. m # 0
  <2>. DEFINE z == [k \in 0 .. 0 |-> Start(message)]
  <2>1. \A k \in 0 .. 0 : k = 0
    OBVIOUS
  <2>2. Parses(z, types, message, 0)
    BY <2>1 DEF Parses
  <2>. QED
    BY <1>2, <2>2
<1>4. m - 1 \in Nat /\ ~(m <= m - 1)
  BY <1>2, <1>3
<1>5. PICK f : Parses(f, types, message, m - 1)
  <2>1. m - 1 \notin Bad
    <3>. HIDE DEF Bad
    <3>. QED
      BY <1>1, <1>4
  <2>. QED
    BY <1>4, <2>1
<1>. HIDE DEF Bad
<1>. DEFINE e == NextParameter(f[m - 1], types[m])
            g == [k \in 0 .. m |-> IF k = m THEN e ELSE f[k]]
<1>6. \A k \in 0 .. m - 1 : f[k] = IF k = 0 THEN Start(message) ELSE NextParameter(f[k - 1], types[k])
  BY <1>5 DEF Parses
<1>7. \A k \in 0 .. m : g[k] = IF k = m THEN e ELSE f[k]
  OBVIOUS
<1>8. ASSUME NEW k \in 0 .. m
      PROVE  g[k] = IF k = 0 THEN Start(message) ELSE NextParameter(g[k - 1], types[k])
  <2>. HIDE DEF g
  <2>1. CASE k = m
    <3>1. m - 1 \in 0 .. m /\ m - 1 # m
      BY <1>2, <1>4
    <3>2. g[k] = e /\ g[m - 1] = f[m - 1]
      BY <1>7, <2>1, <3>1
    <3>. QED
      BY <1>3, <2>1, <3>2
  <2>2. CASE k # m
    <3>1. k \in 0 .. m - 1 /\ (k # 0 => k - 1 \in 0 .. m /\ k - 1 # m)
      BY <1>2, <2>2
    <3>2. g[k] = f[k] /\ (k # 0 => g[k - 1] = f[k - 1])
      BY <1>7, <2>2, <3>1
    <3>. HIDE DEF e
    <3>. QED
      BY <1>6, <3>1, <3>2
  <2>. QED
    BY <2>1, <2>2
<1>9. Parses(g, types, message, m)
  BY <1>8 DEF Parses
<1>. QED
  BY <1>2, <1>9

LEMMA ParseIs ==
    ASSUME NEW types, NEW message, Len(types) \in Nat
    PROVE  \E g : /\ Parse(types, message) = g[Len(types)] /\ g[0] = Start(message)
                  /\ \A k \in 1 .. Len(types) : g[k] = NextParameter(g[k - 1], types[k])
<1>. DEFINE g == CHOOSE f : Parses(f, types, message, Len(types))
<1>1. Parse(types, message) = g[Len(types)]
  BY DEF Parse, Parses, Start
<1>2. Parses(g, types, message, Len(types))
  BY ParsesExist
<1>. HIDE DEF g
<1>3. \A k \in 0 .. Len(types) : g[k] = IF k = 0 THEN Start(message) ELSE NextParameter(g[k - 1], types[k])
  BY <1>2 DEF Parses
<1>4. 0 \in 0 .. Len(types) /\ \A k \in 1 .. Len(types) : k \in 0 .. Len(types) /\ k # 0
  OBVIOUS
<1>. QED
  BY <1>1, <1>3, <1>4

(* The next parameter, and what is collected of them up to the k-th. *)
One(got, type) == IF type = "i" THEN GetLong(got.rest) ELSE GetString(got.rest)

LEMMA NextIs ==
    ASSUME NEW got, NEW type
    PROVE  /\ got.success => /\ NextParameter(got, type).values = Append(got.values, One(got, type).value)
                             /\ NextParameter(got, type).rest = One(got, type).rest
                             /\ NextParameter(got, type).success = One(got, type).success
           /\ ~got.success => NextParameter(got, type) = got
BY DEF NextParameter, One

Collected(g, types, k) ==
    /\ Len(g[k].values) \in 0 .. k
    /\ g[k].success => Len(g[k].values) = k
    /\ DOMAIN g[k].values = 1 .. Len(g[k].values)
    /\ \A i \in 1 .. Len(g[k].values) : g[k].values[i] = One(g[i - 1], types[i]).value

(* A parameter that was read stays where it was put, and after k of them   *)
(* without a failure there are k.                                          *)
LEMMA ParseCollects ==
    ASSUME NEW types, NEW n \in Nat, NEW g, NEW rest, g[0] = [values |-> << >>, rest |-> rest, success |-> TRUE],
           \A k \in 1 .. n : g[k] = NextParameter(g[k - 1], types[k])
    PROVE  \E V : \A k \in 0 .. n : Collected(g, types, k) /\ g[k].values \in Seq(V)
<1>. DEFINE x(i) == One(g[i - 1], types[i]).value
            V == {x(i) : i \in 1 .. n}
            Good(k) == Collected(g, types, k) /\ g[k].values \in Seq(V)
            Bad == {k \in 0 .. n : ~Good(k)}
<1>1. Bad = {}
  <2>. SUFFICES ASSUME Bad # {} PROVE FALSE
    OBVIOUS
  <2>1. PICK k \in Bad : \A j \in Bad : k <= j
    <3>1. Bad \subseteq Nat
      OBVIOUS
    <3>. HIDE DEF Bad
    <3>. QED
      BY <3>1, Least
  <2>2. k \in 0 .. n /\ ~Good(k)
    OBVIOUS
  <2>3. k # 0
    <3>1. g[0].values = << >> /\ << >> \in Seq(V) /\ Len(<< >>) = 0 /\ DOMAIN << >> = 1 .. 0
      BY EmptySeq
    <3>2. Good(0)
      BY <3>1 DEF Collected
    <3>. HIDE DEF Good, Bad
    <3>. QED
      BY <2>2, <3>2
  <2>4. k \in 1 .. n /\ k - 1 \in 0 .. n /\ ~(k <= k - 1)
    BY <2>2, <2>3
  <2>5. Good(k - 1)
    <3>1. k - 1 \notin Bad
      <4>. HIDE DEF Bad
      <4>. QED
        BY <2>1, <2>4
    <3>. HIDE DEF Good
    <3>. QED
      BY <2>4, <3>1
  <2>. HIDE DEF Bad
  <2>. DEFINE s == g[k - 1].values
  <2>6. g[k] = NextParameter(g[k - 1], types[k])
    BY <2>4
  <2>7. CASE ~g[k - 1].success
    <3>1. g[k] = g[k - 1]
      BY <2>6, <2>7, NextIs
    <3>2. Len(s) \in 0 .. k
      BY <2>4, <2>5 DEF Collected
    <3>. QED
      BY <2>2, <2>5, <2>7, <3>1, <3>2 DEF Collected
  <2>8. CASE g[k - 1].success
    <3>1. g[k].values = Append(s, x(k))
      BY <2>6, <2>8, NextIs
    <3>2. x(k) \in V /\ s \in Seq(V) /\ Len(s) = k - 1
      BY <2>4, <2>5, <2>8 DEF Collected
    <3>3. \A i \in 1 .. Len(s) : s[i] = x(i)
      BY <2>5 DEF Collected
    <3>. HIDE DEF x, V, s, Good
    <3>4. /\ g[k].values \in Seq(V) /\ Len(g[k].values) = Len(s) + 1
          /\ \A i \in 1 .. Len(s) : g[k].values[i] = s[i]
          /\ g[k].values[Len(s) + 1] = x(k)
      BY <3>1, <3>2, AppendProperties
    <3>5. Len(g[k].values) = k /\ k \in 0 .. k /\ DOMAIN g[k].values = 1 .. Len(g[k].values)
      BY <2>4, <3>2, <3>4, LenProperties
    <3>6. ASSUME NEW i \in 1 .. Len(g[k].values) PROVE g[k].values[i] = x(i)
      <4>1. CASE i = k
        BY <2>4, <3>2, <3>4, <4>1
      <4>2. CASE i # k
        <5>1. i \in 1 .. Len(s)
          BY <2>4, <3>2, <3>5, <4>2
        <5>. QED
          BY <3>3, <3>4, <5>1
      <4>. QED
        BY <4>1, <4>2
    <3>7. Collected(g, types, k)
      BY <3>5, <3>6 DEF Collected, x
    <3>8. Good(k)
      BY <3>4, <3>7 DEF Good
    <3>. QED
      BY <2>2, <3>8
  <2>. QED
    BY <2>7, <2>8
<1>2. \A k \in 0 .. n : Good(k)
  BY <1>1
<1>. HIDE DEF V
<1>. QED
  BY <1>2

(* A number is read from the front of what is left, with its comma or as   *)
(* the last.                                                               *)
LEMMA LongNext ==
    ASSUME NEW S, ToSet(Digits) \subseteq S, Comma \in Seq(S), NEW n \in Nat, NEW t \in Seq(S), NEW w, NEW rest,
           Joins(rest, w, t), Joins(w, Decimal[n], Comma) \/ (w = Decimal[n] /\ t = << >>)
    PROVE  GetLong(rest) = [value |-> n, rest |-> t, success |-> TRUE]
<1>1. Decimal[n] \in Seq(S)
  BY LongIsRead
<1>2. CASE w = Decimal[n] /\ t = << >>
  <2>1. rest = Decimal[n]
    <3>1. rest = Decimal[n] \o << >>
      BY <1>2 DEF Joins
    <3>2. Decimal[n] \o << >> = Decimal[n]
      BY <1>1, ConcatEmptySeq
    <3>. QED
      BY <3>1, <3>2
  <2>. QED
    BY <1>2, <2>1, LongIsRead
<1>3. CASE Joins(w, Decimal[n], Comma)
  <2>1. GetLong((Decimal[n] \o Comma) \o t) = [value |-> n, rest |-> t, success |-> TRUE]
    BY LongIsRead
  <2>. DEFINE v == Decimal[n] \o Comma
  <2>2. GetLong(v \o t) = [value |-> n, rest |-> t, success |-> TRUE]
    BY <2>1
  <2>3. v = w
    BY <1>3 DEF Joins
  <2>. HIDE DEF v
  <2>. QED
    BY <2>2, <2>3 DEF Joins
<1>. QED
  BY <1>2, <1>3

(* A text is read from the front of what is left if its length is right;   *)
(* if it is too small, something else is.                                  *)
LEMMA StringNext ==
    ASSUME NEW S, ToSet(Digits) \subseteq S, Comma \in Seq(S), NEW n \in Nat, NEW b \in Seq(S), NEW t \in Seq(S),
           NEW dc, NEW w, NEW rest, Joins(dc, Decimal[n], Comma), Joins(w, dc, b), Joins(rest, w, t)
    PROVE  /\ n = Len(b) => GetString(rest) = [value |-> b, rest |-> t, success |-> TRUE]
           /\ n < Len(b) => GetString(rest).value # b
<1>1. Decimal[n] \in Seq(S)
  BY LongIsRead
<1>2. dc \in Seq(S)
  BY <1>1, Together
<1>. DEFINE bt == b \o t
            v == dc \o bt
<1>3. Joins(bt, b, t) /\ Joins(v, dc, bt)
  BY DEF Joins
<1>4. n = Len(b) => GetString((Decimal[n] \o Comma) \o bt) = [value |-> b, rest |-> t, success |-> TRUE]
  BY TextIsRead
<1>5. n < Len(b) => GetString((Decimal[n] \o Comma) \o bt).value # b
  BY TextIsCut
<1>. HIDE DEF bt
<1>. DEFINE d == Decimal[n] \o Comma
<1>6. d = dc
  BY DEF Joins
<1>7. n = Len(b) => GetString(d \o bt) = [value |-> b, rest |-> t, success |-> TRUE]
  BY <1>4
<1>8. n < Len(b) => GetString(d \o bt).value # b
  BY <1>5
<1>. HIDE DEF d
<1>9. rest = v
  <2>. HIDE DEF v
  <2>. QED
    BY <1>2, <1>3, Regroup
<1>10. rest = d \o bt
  BY <1>6, <1>9
<1>. QED
  BY <1>7, <1>8, <1>10

(* A command as a client writes it, parameter by parameter. *)
Counted(text, counts) == IF counts = "bytes" THEN Len(Bytes(text)) ELSE Len(text)

Integer(types, number, k) == Decimal[number] \o (IF k < Len(types) THEN Comma ELSE << >>)
LengthOf(text, counts) == Decimal[Counted(text, counts)] \o Comma
Written(types, values, counts, k) ==
    IF types[k] = "i" THEN Integer(types, values[k], k)
    ELSE LengthOf(values[k], counts) \o Bytes(values[k])
WrittenParts(types, values, counts) == [k \in DOMAIN types |-> Written(types, values, counts, k)]

Opening == "("
Closing == ")"

LEMMA RequestIs ==
    ASSUME NEW types, NEW values, NEW counts
    PROVE  RequestBytes(types, values, counts)
           = (<<Opening>> \o FlattenSeq(WrittenParts(types, values, counts))) \o <<Closing>>
<1>1. ASSUME NEW k
      PROVE  Written(types, values, counts, k)
             = IF types[k] = "i"
               THEN Decimal[values[k]] \o (IF k < Len(types) THEN <<",">> ELSE << >>)
               ELSE LET length == IF counts = "bytes" THEN Len(Bytes(values[k])) ELSE Len(values[k])
                    IN  Decimal[length] \o <<",">> \o Bytes(values[k])
  BY DEF Written, Integer, LengthOf, Counted, Comma
<1>. QED
  BY <1>1 DEF RequestBytes, WrittenParts, Opening, Closing

(* What the server should make of the k-th parameter, and whether the      *)
(* client's length is its own.                                             *)
Meant(types, values, k) == IF types[k] = "s" THEN Bytes(values[k]) ELSE values[k]
Agrees(types, values, counts, k) == types[k] = "s" => Counted(values[k], counts) = Len(Bytes(values[k]))

Writable(types, values, counts, S) ==
    /\ ToSet(Digits) \subseteq S /\ Comma \in Seq(S) /\ Opening \in S /\ Closing \in S
    /\ Len(types) \in Nat \ {0} /\ DOMAIN types = 1 .. Len(types)
    /\ \A k \in 1 .. Len(types) :
          \/ types[k] = "i" /\ values[k] \in Nat
          \/ /\ types[k] = "s" /\ Bytes(values[k]) \in Seq(S)
             /\ Counted(values[k], counts) \in Nat /\ Counted(values[k], counts) <= Len(Bytes(values[k]))

(* One parameter, whatever is behind it. *)
LEMMA OneIsRead ==
    ASSUME NEW types, NEW values, NEW counts, NEW S, Writable(types, values, counts, S),
           NEW k \in 1 .. Len(types), NEW got, NEW t \in Seq(S), k = Len(types) => t = << >>,
           Joins(got.rest, Written(types, values, counts, k), t)
    PROVE  /\ Agrees(types, values, counts, k) =>
                 One(got, types[k]) = [value |-> Meant(types, values, k), rest |-> t, success |-> TRUE]
           /\ ~Agrees(types, values, counts, k) => One(got, types[k]).value # Meant(types, values, k)
<1>. DEFINE w == Written(types, values, counts, k)
            v == values[k]
<1>1. ToSet(Digits) \subseteq S /\ Comma \in Seq(S) /\ Len(types) \in Nat /\ Joins(got.rest, w, t)
  BY DEF Writable
<1>2. CASE types[k] = "i" /\ v \in Nat
  <2>1. types[k] # "s"
    BY <1>2
  <2>2. One(got, types[k]) = GetLong(got.rest) /\ Meant(types, values, k) = v /\ Agrees(types, values, counts, k)
    BY <1>2, <2>1 DEF One, Meant, Agrees
  <2>3. w = Integer(types, v, k)
    BY <1>2 DEF Written
  <2>4. Joins(w, Decimal[v], Comma) \/ (w = Decimal[v] /\ t = << >>)
    <3>1. CASE k < Len(types)
      BY <2>3, <3>1 DEF Integer, Joins
    <3>2. CASE ~(k < Len(types))
      <4>1. k = Len(types)
        BY <1>1, <3>2
      <4>2. Integer(types, v, k) = Decimal[v] \o << >>
        BY <3>2 DEF Integer
      <4>3. Decimal[v] \in Seq(S)
        BY <1>1, <1>2, LongIsRead
      <4>4. Decimal[v] \o << >> = Decimal[v]
        BY <4>3, ConcatEmptySeq
      <4>. QED
        BY <2>3, <4>1, <4>2, <4>4
    <3>. QED
      BY <3>1, <3>2
  <2>. HIDE DEF w, v
  <2>5. GetLong(got.rest) = [value |-> v, rest |-> t, success |-> TRUE]
    BY <1>1, <1>2, <2>4, LongNext
  <2>. QED
    BY <2>2, <2>5
<1>3. CASE /\ types[k] = "s" /\ Bytes(v) \in Seq(S)
           /\ Counted(v, counts) \in Nat /\ Counted(v, counts) <= Len(Bytes(v))
  <2>. DEFINE b == Bytes(v)
              n == Counted(v, counts)
              dc == LengthOf(v, counts)
  <2>1. types[k] # "i"
    BY <1>3
  <2>2. /\ One(got, types[k]) = GetString(got.rest) /\ Meant(types, values, k) = b
        /\ Agrees(types, values, counts, k) <=> n = Len(b)
    BY <1>3, <2>1 DEF One, Meant, Agrees
  <2>3. Joins(w, dc, b) /\ Joins(dc, Decimal[n], Comma)
    BY <2>1 DEF Written, LengthOf, Joins
  <2>4. b \in Seq(S) /\ n \in Nat /\ (n # Len(b) => n < Len(b))
    <3>1. Len(b) \in Nat
      BY <1>3, LenProperties
    <3>. QED
      BY <1>3, <3>1
  <2>. HIDE DEF w, v, b, n, dc
  <2>5. /\ n = Len(b) => GetString(got.rest) = [value |-> b, rest |-> t, success |-> TRUE]
        /\ n < Len(b) => GetString(got.rest).value # b
    <3>. DEFINE u == got.rest
    <3>1. /\ ToSet(Digits) \subseteq S /\ Comma \in Seq(S) /\ b \in Seq(S) /\ n \in Nat
          /\ Joins(w, dc, b) /\ Joins(dc, Decimal[n], Comma) /\ Joins(u, w, t)
      BY <1>1, <2>3, <2>4
    <3>2. /\ n = Len(b) => GetString(u) = [value |-> b, rest |-> t, success |-> TRUE]
          /\ n < Len(b) => GetString(u).value # b
      <4>. HIDE DEF u
      <4>. QED
        BY <3>1, StringNext
    <3>. QED
      BY <3>2
  <2>. QED
    BY <2>2, <2>4, <2>5
<1>. QED
  BY <1>2, <1>3 DEF Writable

(* What is written for a parameter is a sequence of symbols. *)
LEMMA WrittenIs ==
    ASSUME NEW types, NEW values, NEW counts, NEW S, Writable(types, values, counts, S), NEW k \in 1 .. Len(types)
    PROVE  Written(types, values, counts, k) \in Seq(S)
<1>. DEFINE v == values[k]
<1>1. ToSet(Digits) \subseteq S /\ Comma \in Seq(S) /\ << >> \in Seq(S)
  BY EmptySeq DEF Writable
<1>2. \A n \in Nat : Decimal[n] \in Seq(S)
  BY <1>1, LongIsRead
<1>3. CASE types[k] = "i" /\ v \in Nat
  <2>. DEFINE c == IF k < Len(types) THEN Comma ELSE << >>
  <2>1. c \in Seq(S)
    BY <1>1
  <2>2. Written(types, values, counts, k) = Decimal[v] \o c
    BY <1>3 DEF Written, Integer
  <2>. HIDE DEF c, v
  <2>. QED
    BY <1>2, <1>3, <2>1, <2>2, ConcatProperties
<1>4. CASE types[k] = "s" /\ Bytes(v) \in Seq(S) /\ Counted(v, counts) \in Nat
  <2>. DEFINE b == Bytes(v)
              n == Counted(v, counts)
              dc == LengthOf(v, counts)
  <2>1. Written(types, values, counts, k) = dc \o b /\ dc = Decimal[n] \o Comma
    BY <1>4 DEF Written, LengthOf
  <2>2. b \in Seq(S) /\ n \in Nat
    BY <1>4
  <2>. HIDE DEF b, n, dc, v
  <2>3. dc \in Seq(S)
    BY <1>1, <1>2, <2>1, <2>2, ConcatProperties
  <2>. QED
    BY <2>1, <2>2, <2>3, ConcatProperties
<1>. QED
  BY <1>3, <1>4 DEF Writable

(* The parameters before the first text of another length are read as they *)
(* are meant; that text is not.                                            *)
LEMMA RequestIsRead ==
    ASSUME NEW types, NEW values, NEW counts, NEW S, Writable(types, values, counts, S)
    PROVE  LET got == Parse(types, RequestBytes(types, values, counts))
           IN  /\ (\A k \in 1 .. Len(types) : Agrees(types, values, counts, k)) =>
                     /\ got.success = TRUE
                     /\ got.values = [k \in 1 .. Len(types) |-> Meant(types, values, k)]
               /\ (\E k \in 1 .. Len(types) : ~Agrees(types, values, counts, k)) =>
                     ~(got.success /\ got.values = [k \in 1 .. Len(types) |-> Meant(types, values, k)])
<1>. DEFINE n == Len(types)
            seqs == WrittenParts(types, values, counts)
            message == RequestBytes(types, values, counts)
            got == Parse(types, message)
            w(k) == Written(types, values, counts, k)
            agrees(k) == Agrees(types, values, counts, k)
            meantAt(k) == Meant(types, values, k)
<1>1. n \in Nat /\ n # 0 /\ DOMAIN types = 1 .. n /\ Opening \in S /\ Closing \in S
  BY DEF Writable
<1>2. \A k \in 1 .. n : seqs[k] = w(k) /\ seqs[k] \in Seq(S)
  BY <1>1, WrittenIs DEF WrittenParts
<1>3. Len(seqs) = n
  <2>1. seqs = [k \in 1 .. n |-> w(k)]
    BY <1>1 DEF WrittenParts
  <2>. HIDE DEF w, n
  <2>. QED
    BY <1>1, <2>1
<1>. HIDE DEF seqs, w
<1>4. PICK r : Rests(r, n, seqs, S) /\ r[0] = FlattenSeq(seqs)
  BY <1>1, <1>2, <1>3, RestsExist
<1>5. /\ r[n] = << >> /\ \A k \in 0 .. n : r[k] \in Seq(S)
      /\ \A k \in 1 .. n : Joins(r[k - 1], w(k), r[k])
  BY <1>2, <1>4 DEF Rests
<1>6. Substr(message, 1, Len(message) - 2) = r[0]
  <2>1. message = (<<Opening>> \o FlattenSeq(seqs)) \o <<Closing>>
    BY RequestIs DEF seqs
  <2>2. FlattenSeq(seqs) \in Seq(S)
    BY <1>1, <1>4, <1>5
  <2>. DEFINE f == FlattenSeq(seqs)
  <2>3. f \in Seq(S) /\ message = (<<Opening>> \o f) \o <<Closing>> /\ r[0] = f
    BY <1>4, <2>1, <2>2
  <2>. HIDE DEF f, message
  <2>. QED
    BY <1>1, <2>3, InsideIs
<1>7. PICK g : /\ got = g[n] /\ g[0] = Start(message)
               /\ \A k \in 1 .. n : g[k] = NextParameter(g[k - 1], types[k])
  BY <1>1, ParseIs
<1>. HIDE DEF message, got
<1>8. g[0] = [values |-> << >>, rest |-> r[0], success |-> TRUE]
  BY <1>6, <1>7 DEF Start
<1>9. PICK V : \A k \in 0 .. n : Collected(g, types, k) /\ g[k].values \in Seq(V)
  BY <1>1, <1>7, <1>8, ParseCollects
<1>. DEFINE x(k) == One(g[k - 1], types[k]).value
            Reads(k) == /\ g[k].success = TRUE /\ g[k].rest = r[k]
                        /\ \A i \in 1 .. k : x(i) = meantAt(i)
<1>10. ASSUME NEW k \in 1 .. n, Reads(k - 1)
       PROVE  /\ agrees(k) => Reads(k)
              /\ ~agrees(k) => x(k) # meantAt(k)
  <2>. DEFINE one == One(g[k - 1], types[k])
  <2>1. /\ r[k] \in Seq(S) /\ (k = n => r[k] = << >>) /\ Joins(g[k - 1].rest, w(k), r[k])
    BY <1>1, <1>5, <1>10
  <2>2. /\ agrees(k) => one = [value |-> meantAt(k), rest |-> r[k], success |-> TRUE]
        /\ ~agrees(k) => one.value # meantAt(k)
    BY <2>1, OneIsRead DEF w
  <2>3. g[k].rest = one.rest /\ g[k].success = one.success
    BY <1>7, <1>10, NextIs
  <2>4. ASSUME agrees(k) PROVE Reads(k)
    <3>1. one.value = meantAt(k) /\ one.rest = r[k] /\ one.success = TRUE
      BY <2>2, <2>4
    <3>2. x(k) = meantAt(k)
      BY <3>1
    <3>. HIDE DEF one, meantAt, x
    <3>3. ASSUME NEW i \in 1 .. k PROVE x(i) = meantAt(i)
      <4>1. i = k \/ i \in 1 .. k - 1
        BY <1>1
      <4>. QED
        BY <1>10, <3>2, <4>1
    <3>. QED
      BY <2>3, <3>1, <3>3
  <2>. QED
    BY <2>2, <2>4
<1>. HIDE DEF agrees, meantAt
<1>11. ASSUME NEW m \in 0 .. n, \A k \in 1 .. m : agrees(k) PROVE Reads(m)
  <2>. DEFINE Bad == {k \in 0 .. m : ~Reads(k)}
  <2>. SUFFICES ASSUME Bad # {} PROVE FALSE
    <3>1. m \in 0 .. m
      OBVIOUS
    <3>. HIDE DEF Reads
    <3>. QED
      BY <3>1
  <2>1. PICK k \in Bad : \A j \in Bad : k <= j
    <3>1. Bad \subseteq Nat
      OBVIOUS
    <3>. HIDE DEF Bad
    <3>. QED
      BY <3>1, Least
  <2>2. k \in 0 .. m /\ ~Reads(k)
    OBVIOUS
  <2>3. k # 0
    <3>1. Reads(0)
      BY <1>8
    <3>. HIDE DEF Reads, Bad
    <3>. QED
      BY <2>2, <3>1
  <2>4. k \in 1 .. m /\ k \in 1 .. n /\ k - 1 \in 0 .. m /\ ~(k <= k - 1)
    BY <1>1, <2>2, <2>3
  <2>5. Reads(k - 1)
    <3>1. k - 1 \notin Bad
      <4>. HIDE DEF Bad
      <4>. QED
        BY <2>1, <2>4
    <3>. HIDE DEF Reads
    <3>. QED
      BY <2>4, <3>1
  <2>. HIDE DEF Bad, Reads
  <2>. QED
    BY <1>10, <1>11, <2>2, <2>4, <2>5
<1>12. n \in 0 .. n /\ DOMAIN g[n].values = 1 .. Len(g[n].values) /\ Len(g[n].values) \in 0 .. n
       /\ (g[n].success => Len(g[n].values) = n)
       /\ \A i \in 1 .. Len(g[n].values) : g[n].values[i] = x(i)
  <2>1. n \in 0 .. n
    BY <1>1
  <2>. QED
    BY <1>9, <2>1 DEF Collected
<1>. DEFINE expected == [k \in 1 .. n |-> meantAt(k)]
<1>13. ASSUME \A k \in 1 .. n : agrees(k) PROVE got.success = TRUE /\ got.values = expected
  <2>1. Reads(n)
    <3>. HIDE DEF Reads
    <3>. QED
      BY <1>11, <1>12, <1>13
  <2>2. g[n].success = TRUE /\ \A i \in 1 .. n : x(i) = meantAt(i)
    BY <2>1
  <2>3. g[n].values \in Seq(V) /\ Len(g[n].values) = n
    BY <1>9, <1>12, <2>2
  <2>4. g[n].values = [i \in 1 .. n |-> g[n].values[i]]
    BY <2>3, LenProperties
  <2>. HIDE DEF x
  <2>5. \A i \in 1 .. n : g[n].values[i] = meantAt(i)
    BY <1>12, <2>2, <2>3
  <2>6. g[n].values = expected
    BY <2>4, <2>5
  <2>. QED
    BY <1>7, <2>2, <2>6
<1>14. ASSUME \E k \in 1 .. n : ~agrees(k), got.success, got.values = expected PROVE FALSE
  <2>. DEFINE B == {k \in 1 .. n : ~agrees(k)}
  <2>1. PICK k \in B : \A j \in B : k <= j
    <3>1. B \subseteq Nat /\ B # {}
      BY <1>14
    <3>. HIDE DEF B
    <3>. QED
      BY <3>1, Least
  <2>2. k \in 1 .. n /\ ~agrees(k) /\ k - 1 \in 0 .. n
    OBVIOUS
  <2>3. ASSUME NEW j \in 1 .. k - 1 PROVE agrees(j)
    <3>1. j \in 1 .. n /\ ~(k <= j)
      BY <2>2
    <3>2. j \notin B
      <4>. HIDE DEF B
      <4>. QED
        BY <2>1, <3>1
    <3>. QED
      BY <3>1, <3>2
  <2>. HIDE DEF B
  <2>4. Reads(k - 1)
    <3>. HIDE DEF Reads
    <3>. QED
      BY <1>11, <2>2, <2>3
  <2>5. x(k) # meantAt(k)
    <3>. HIDE DEF Reads, x
    <3>. QED
      BY <1>10, <2>2, <2>4
  <2>6. Len(g[n].values) = n
    BY <1>7, <1>12, <1>14
  <2>7. g[n].values[k] = x(k)
    <3>. HIDE DEF x
    <3>. QED
      BY <1>12, <2>2, <2>6
  <2>8. expected[k] = meantAt(k)
    BY <2>2
  <2>. QED
    BY <1>7, <1>14, <2>5, <2>7, <2>8
<1>. HIDE DEF expected, n
<1>15. expected = [k \in 1 .. Len(types) |-> Meant(types, values, k)] /\ n = Len(types)
  BY DEF expected, meantAt, n
<1>. QED
  BY <1>13, <1>14, <1>15 DEF got, message, agrees

(* The kinds of the parameters the page writes are the ones the server     *)
(* asks for.                                                               *)
LEMMA KindsAgree == ServerAsks = PageWrites
BY DEF ServerAsks, PageWrites

ParameterKinds == {"i", "s"}

LEMMA OneToFive ==
    ASSUME NEW S, NEW a \in S, NEW b \in S, NEW c \in S, NEW d \in S, NEW e \in S
    PROVE  /\ <<a>> \in Seq(S) /\ Len(<<a>>) # 0
           /\ <<a, b>> \in Seq(S) /\ Len(<<a, b>>) # 0
           /\ <<a, b, c>> \in Seq(S) /\ Len(<<a, b, c>>) # 0
           /\ <<a, b, c, d>> \in Seq(S) /\ Len(<<a, b, c, d>>) # 0
           /\ <<a, b, c, d, e>> \in Seq(S) /\ Len(<<a, b, c, d, e>>) # 0
OBVIOUS

LEMMA KindsAre == \A c \in Commands : PageWrites[c] \in Seq(ParameterKinds) /\ Len(PageWrites[c]) # 0
<1>. DEFINE i == "i"
            s == "s"
            K(c) == PageWrites[c] \in Seq(ParameterKinds) /\ Len(PageWrites[c]) # 0
<1>1. i \in ParameterKinds /\ s \in ParameterKinds
  BY DEF ParameterKinds
<1>2. /\ PageWrites["send"] = <<i, i, s>> /\ PageWrites["sendto"] = <<i, i, i, s>>
      /\ PageWrites["sendsnap"] = <<i, i, i, i, s>> /\ PageWrites["addchatroom"] = <<i, s, s, s, s>>
      /\ PageWrites["adduser"] = <<i, i, s, s, s>> /\ PageWrites["login"] = <<i, s, s>>
      /\ PageWrites["joinchatroom"] = <<i, i, i, s>> /\ PageWrites["leavechatroom"] = <<i, i>>
      /\ PageWrites["getusers"] = <<i, i, s>> /\ PageWrites["getchatroomlist"] = <<i>>
      /\ PageWrites["sendtoall"] = <<s, i, s>>
  BY DEF PageWrites
<1>3. Commands = {"send", "sendto", "sendsnap", "addchatroom", "adduser", "login", "joinchatroom",
                  "leavechatroom", "getusers", "getchatroomlist", "sendtoall"}
  BY DEF Commands, PageWrites
<1>. HIDE DEF i, s
<1>4. K("send") /\ K("sendto") /\ K("sendsnap") /\ K("addchatroom")
  BY <1>1, <1>2, OneToFive
<1>5. K("adduser") /\ K("login") /\ K("joinchatroom") /\ K("leavechatroom")
  BY <1>1, <1>2, OneToFive
<1>6. K("getusers") /\ K("getchatroomlist") /\ K("sendtoall")
  BY <1>1, <1>2, OneToFive
<1>. QED
  BY <1>3, <1>4, <1>5, <1>6

(* Everything a command is written with. *)
Symbols ==
    ToSet(Digits) \cup ToSet(Comma) \cup {Opening, Closing}
    \cup (UNION {ToSet(text) : text \in Texts}) \cup (UNION {ToSet(WideBytes[c]) : c \in Wide})

LEMMA SeqOfMore ==
    ASSUME NEW S, NEW T, S \subseteq T, NEW s \in Seq(S)
    PROVE  s \in Seq(T)
OBVIOUS

LEMMA SeqOfOwn ==
    ASSUME NEW S, NEW s \in Seq(S)
    PROVE  s \in Seq(ToSet(s))
<1>1. s = [k \in 1 .. Len(s) |-> s[k]] /\ Len(s) \in Nat
  BY LenProperties
<1>2. \A k \in 1 .. Len(s) : s[k] \in ToSet(s)
  BY LenProperties DEF ToSet
<1>. QED
  BY <1>1, <1>2

(* Whatever a command is made of is among these symbols. *)
LEMMA SymbolsAre ==
    /\ ToSet(Digits) \subseteq Symbols /\ Comma \in Seq(Symbols) /\ Opening \in Symbols /\ Closing \in Symbols
    /\ \A text \in Texts : text \in Seq(Symbols)
    /\ \A c \in Wide : WideBytes[c] \in Seq(Symbols) /\ Len(WideBytes[c]) \in {2, 3}
<1>1. /\ ToSet(Digits) \subseteq Symbols /\ ToSet(Comma) \subseteq Symbols
      /\ Opening \in Symbols /\ Closing \in Symbols
      /\ \A text \in Texts : ToSet(text) \subseteq Symbols
      /\ \A c \in Wide : ToSet(WideBytes[c]) \subseteq Symbols
  BY DEF Symbols
<1>2. Comma \in Seq({","})
  BY DEF Comma
<1>3. Comma \in Seq(ToSet(Comma))
  BY <1>2, SeqOfOwn
<1>. HIDE DEF Symbols
<1>4. Comma \in Seq(Symbols)
  BY <1>1, <1>3, SeqOfMore
<1>5. ASSUME NEW text \in Texts PROVE text \in Seq(Symbols)
  <2>1. text \in Seq(ToSet(text))
    BY MessagesAssumption DEF MessagesAssumption
  <2>. QED
    BY <1>1, <2>1, SeqOfMore
<1>6. ASSUME NEW c \in Wide PROVE WideBytes[c] \in Seq(Symbols) /\ Len(WideBytes[c]) \in {2, 3}
  <2>1. PICK S : WideBytes[c] \in Seq(S) /\ Len(WideBytes[c]) \in {2, 3}
    BY WideIs
  <2>2. WideBytes[c] \in Seq(ToSet(WideBytes[c]))
    BY <2>1, SeqOfOwn
  <2>. QED
    BY <1>1, <2>1, <2>2, SeqOfMore
<1>. QED
  BY <1>1, <1>4, <1>5, <1>6

Requests == [command : Commands, id : Ids, text : Texts, counts : {"characters", "bytes"}]

(* A text has as many bytes as characters exactly if it is plain, and      *)
(* otherwise more.                                                         *)
LEMMA TextBytes ==
    ASSUME NEW text \in Texts
    PROVE  /\ Bytes(text) \in Seq(Symbols)
           /\ \A counts : Counted(text, counts) \in Nat /\ Counted(text, counts) <= Len(Bytes(text))
           /\ \A counts : Plain(text) \/ counts = "bytes" <=> Counted(text, counts) = Len(Bytes(text))
<1>1. text \in Seq(Symbols)
  BY SymbolsAre
<1>2. ASSUME NEW k \in 1 .. Len(text) PROVE BytesOf(text, k) \in Seq(Symbols)
  <2>1. CASE text[k] \in Wide
    BY <2>1, SymbolsAre DEF BytesOf
  <2>2. CASE text[k] \notin Wide
    <3>1. text[k] \in Symbols
      BY <1>1, ElementOfSeq
    <3>2. <<text[k]>> \in Seq(Symbols)
      <4>. DEFINE x == text[k]
      <4>1. x \in Symbols
        BY <3>1
      <4>. HIDE DEF x
      <4>2. <<x>> \in Seq(Symbols)
        BY <4>1, OneIs
      <4>. QED
        BY <4>2 DEF x
    <3>. QED
      BY <2>2, <3>2 DEF BytesOf
  <2>. QED
    BY <2>1, <2>2
<1>3. /\ Bytes(text) \in Seq(Symbols) /\ Len(Bytes(text)) >= Len(text)
      /\ Plain(text) => Bytes(text) = text
      /\ ~Plain(text) => Len(Bytes(text)) > Len(text)
  <2>1. \A c \in Wide : Len(WideBytes[c]) \in {2, 3}
    BY SymbolsAre
  <2>. HIDE DEF Symbols
  <2>. QED
    BY <1>1, <1>2, <2>1, BytesFacts
<1>. DEFINE b == Bytes(text)
<1>4. Len(text) \in Nat /\ Len(b) \in Nat
  BY <1>1, <1>3, LenProperties
<1>5. ASSUME NEW counts PROVE Counted(text, counts) = IF counts = "bytes" THEN Len(b) ELSE Len(text)
  BY DEF Counted
<1>6. Len(b) >= Len(text) /\ (Plain(text) <=> Len(b) = Len(text))
  <2>1. Plain(text) => Len(b) = Len(text)
    BY <1>3
  <2>. HIDE DEF b
  <2>2. ~Plain(text) => Len(b) > Len(text)
    BY <1>3 DEF b
  <2>3. Len(b) >= Len(text)
    BY <1>3 DEF b
  <2>. QED
    BY <1>4, <2>1, <2>2, <2>3
<1>7. b \in Seq(Symbols)
  BY <1>3
<1>. HIDE DEF b
<1>8. ASSUME NEW counts PROVE /\ Counted(text, counts) \in Nat /\ Counted(text, counts) <= Len(b)
                              /\ Plain(text) \/ counts = "bytes" <=> Counted(text, counts) = Len(b)
  BY <1>4, <1>5, <1>6
<1>. QED
  BY <1>7, <1>8 DEF b

ParametersIn(r) == ParametersOf(PageWrites[r.command], r.id, r.text)

(* The parameters of a command: numbers, and the text in the places for    *)
(* texts.                                                                  *)
LEMMA ParametersAre ==
    ASSUME NEW r \in Requests
    PROVE  LET types == PageWrites[r.command]
               values == ParametersIn(r)
           IN  /\ Len(types) \in Nat \ {0} /\ DOMAIN types = 1 .. Len(types) /\ DOMAIN values = 1 .. Len(types)
               /\ \A k \in 1 .. Len(types) : \/ types[k] = "i" /\ values[k] \in Nat
                                             \/ types[k] = "s" /\ values[k] = r.text
<1>. DEFINE types == PageWrites[r.command]
            values == ParametersIn(r)
<1>1. r.command \in Commands /\ r.id \in Nat
  BY MessagesAssumption DEF Requests, MessagesAssumption
<1>2. types \in Seq(ParameterKinds) /\ Len(types) # 0
  BY <1>1, KindsAre
<1>3. Len(types) \in Nat /\ DOMAIN types = 1 .. Len(types) /\ \A k \in 1 .. Len(types) : types[k] \in ParameterKinds
  BY <1>2, LenProperties, ElementOfSeq
<1>4. values = [k \in DOMAIN types |-> IF types[k] = "s" THEN r.text
                                       ELSE IF k = 1 \/ types[1] = "s" THEN r.id ELSE k]
  BY DEF ParametersIn, ParametersOf
<1>. HIDE DEF types, values
<1>5. ASSUME NEW k \in 1 .. Len(types)
      PROVE  \/ types[k] = "i" /\ values[k] \in Nat
             \/ types[k] = "s" /\ values[k] = r.text
  <2>1. k \in Nat /\ values[k] = IF types[k] = "s" THEN r.text
                                 ELSE IF k = 1 \/ types[1] = "s" THEN r.id ELSE k
    BY <1>3, <1>4
  <2>2. types[k] = "i" \/ types[k] = "s"
    BY <1>3 DEF ParameterKinds
  <2>. QED
    BY <1>1, <2>1, <2>2
<1>6. DOMAIN values = 1 .. Len(types)
  BY <1>3, <1>4
<1>. QED
  BY <1>2, <1>3, <1>5, <1>6 DEF types, values

Understood(r) == Plain(r.text) \/ r.counts = "bytes" \/ ~("s" \in ToSet(PageWrites[r.command]))

(* A command of any text and any id is understood exactly if its length is *)
(* counted as the server counts, and refused only if it is not.            *)
LEMMA RequestServed ==
    ASSUME NEW r \in Requests
    PROVE  LET types == PageWrites[r.command]
               values == ParametersIn(r)
               got == Parse(types, RequestBytes(types, values, r.counts))
               meantBy == [k \in DOMAIN values |-> IF types[k] = "s" THEN Bytes(values[k]) ELSE values[k]]
           IN  /\ got.success => (Understood(r) <=> got.values = meantBy)
               /\ ~got.success => ~Understood(r)
<1>. DEFINE types == PageWrites[r.command]
            values == ParametersIn(r)
            n == Len(types)
            got == Parse(types, RequestBytes(types, values, r.counts))
            meantBy == [k \in DOMAIN values |-> IF types[k] = "s" THEN Bytes(values[k]) ELSE values[k]]
<1>1. /\ n \in Nat \ {0} /\ DOMAIN types = 1 .. n /\ DOMAIN values = 1 .. n
      /\ \A k \in 1 .. n : \/ types[k] = "i" /\ values[k] \in Nat
                           \/ types[k] = "s" /\ values[k] = r.text
  BY ParametersAre
<1>2. /\ Bytes(r.text) \in Seq(Symbols) /\ Counted(r.text, r.counts) \in Nat
      /\ Counted(r.text, r.counts) <= Len(Bytes(r.text))
      /\ Plain(r.text) \/ r.counts = "bytes" <=> Counted(r.text, r.counts) = Len(Bytes(r.text))
  <2>1. r.text \in Texts
    BY DEF Requests
  <2>. QED
    BY <2>1, TextBytes
<1>3. Understood(r) <=> (Plain(r.text) \/ r.counts = "bytes") \/ ~\E k \in 1 .. n : types[k] = "s"
  <2>1. "s" \in ToSet(types) <=> \E k \in 1 .. n : types[k] = "s"
    BY <1>1 DEF ToSet
  <2>. QED
    BY <2>1 DEF Understood
<1>4. meantBy = [k \in 1 .. Len(types) |-> Meant(types, values, k)]
  BY <1>1 DEF Meant
<1>. HIDE DEF types, values, meantBy
<1>5. Writable(types, values, r.counts, Symbols)
  BY <1>1, <1>2, SymbolsAre DEF Writable
<1>6. Understood(r) <=> \A k \in 1 .. Len(types) : Agrees(types, values, r.counts, k)
  <2>1. \A k \in 1 .. n : Agrees(types, values, r.counts, k)
                          <=> (types[k] = "s" => Plain(r.text) \/ r.counts = "bytes")
    BY <1>1, <1>2 DEF Agrees
  <2>. QED
    BY <1>3, <2>1
<1>7. /\ (\A k \in 1 .. Len(types) : Agrees(types, values, r.counts, k)) =>
            got.success = TRUE /\ got.values = meantBy
      /\ (\E k \in 1 .. Len(types) : ~Agrees(types, values, r.counts, k)) =>
            ~(got.success /\ got.values = meantBy)
  <2>. DEFINE counts == r.counts
              e == [k \in 1 .. Len(types) |-> Meant(types, values, k)]
  <2>1. Writable(types, values, counts, Symbols) /\ meantBy = e /\ got = Parse(types, RequestBytes(types, values, counts))
    BY <1>4, <1>5
  <2>. HIDE DEF counts, got
  <2>2. /\ (\A k \in 1 .. Len(types) : Agrees(types, values, counts, k)) =>
              got.success = TRUE /\ got.values = e
        /\ (\E k \in 1 .. Len(types) : ~Agrees(types, values, counts, k)) =>
              ~(got.success /\ got.values = e)
    <3>1. /\ (\A k \in 1 .. Len(types) : Agrees(types, values, counts, k)) =>
                /\ Parse(types, RequestBytes(types, values, counts)).success = TRUE
                /\ Parse(types, RequestBytes(types, values, counts)).values
                   = [k \in 1 .. Len(types) |-> Meant(types, values, k)]
          /\ (\E k \in 1 .. Len(types) : ~Agrees(types, values, counts, k)) =>
                ~(/\ Parse(types, RequestBytes(types, values, counts)).success
                  /\ Parse(types, RequestBytes(types, values, counts)).values
                     = [k \in 1 .. Len(types) |-> Meant(types, values, k)])
      BY <2>1, RequestIsRead, Zenon
    <3>. HIDE DEF e
    <3>2. e = [k \in 1 .. Len(types) |-> Meant(types, values, k)]
      BY DEF e
    <3>. QED
      BY <2>1, <3>1, <3>2
  <2>. QED
    BY <2>1, <2>2 DEF counts
<1>. HIDE DEF got
<1>8. got.success => (Understood(r) <=> got.values = meantBy)
  BY <1>6, <1>7
<1>9. ~got.success => ~Understood(r)
  BY <1>6, <1>7
<1>. QED
  BY <1>8, <1>9 DEF got, meantBy, types, values

(* What is on its way to the server is what the client wrote. *)
ReadInv ==
    /\ request \in Requests
    /\ phase = "sent" =>
          wire = RequestBytes(PageWrites[request.command], Parameters, request.counts)
    /\ ServerReads

LEMMA ReadsBegin == MessageInit => ReadInv
<1>. SUFFICES ASSUME MessageInit PROVE ReadInv
  OBVIOUS
<1>1. request \in Requests
  BY DEF MessageInit, Requests
<1>2. phase = "typed"
  BY DEF MessageInit
<1>3. ServerReads
  BY <1>2 DEF ServerReads
<1>. QED
  BY <1>1, <1>2, <1>3 DEF ReadInv

(* A step after which nothing is on its way to the server or just read. *)
LEMMA ReadsAway ==
    ASSUME ReadInv, request' = request, phase' \notin {"sent", "parsed", "refused"}
    PROVE  ReadInv'
<1>1. phase' # "sent" /\ phase' # "parsed" /\ phase' # "refused"
  OBVIOUS
<1>2. ServerReads'
  BY <1>1 DEF ServerReads
<1>. QED
  BY <1>1, <1>2 DEF ReadInv

(* No step of a message reads anything else. *)
LEMMA ReadsNext == ReadInv /\ [MessageNext]_message_vars => ReadInv'
<1>. SUFFICES ASSUME ReadInv, [MessageNext]_message_vars PROVE ReadInv'
  OBVIOUS
<1>1. CASE ClientSends
  <2>1. request' = request /\ phase' = "sent"
        /\ wire' = RequestBytes(PageWrites[request.command], Parameters, request.counts)
    BY <1>1 DEF ClientSends
  <2>2. Parameters' = Parameters
    BY <2>1 DEF Parameters
  <2>3. ServerReads'
    BY <2>1 DEF ServerReads
  <2>. QED
    BY <2>1, <2>2, <2>3 DEF ReadInv
<1>2. CASE ServerParses
  <2>. DEFINE types == PageWrites[request.command]
              values == ParametersIn(request)
              got == Parse(types, RequestBytes(types, values, request.counts))
              meantBy == [k \in DOMAIN values |-> IF types[k] = "s" THEN Bytes(values[k]) ELSE values[k]]
  <2>1. request \in Requests /\ request' = request
    BY <1>2 DEF ReadInv, ServerParses
  <2>2. /\ got.success => (Understood(request) <=> got.values = meantBy)
        /\ ~got.success => ~Understood(request)
    BY <2>1, RequestServed
  <2>3. Parse(ServerAsks[request.command], wire) = got
    <3>1. phase = "sent" /\ Parameters = values
      BY <1>2 DEF ServerParses, Parameters, ParametersIn
    <3>2. wire = RequestBytes(types, values, request.counts)
      BY <3>1 DEF ReadInv
    <3>. QED
      BY <3>2, KindsAgree
  <2>4. \/ got.success /\ phase' = "parsed" /\ parsed' = got.values
        \/ ~got.success /\ phase' = "refused"
    <3>. HIDE DEF got
    <3>. QED
      BY <1>2, <2>3 DEF ServerParses
  <2>5. ServerReads'
    <3>1. /\ phase' = "parsed" => (Understood(request) <=> parsed' = meantBy)
          /\ phase' = "refused" => ~Understood(request)
      <4>. HIDE DEF got, meantBy
      <4>. QED
        BY <2>2, <2>4
    <3>2. (IsPlain \/ request.counts = "bytes" \/ ~HasText)' <=> Understood(request)
      BY <2>1 DEF IsPlain, HasText, Understood
    <3>3. Parameters' = values /\ ServerAsks[request'.command] = types
      BY <2>1, KindsAgree DEF Parameters, ParametersIn
    <3>4. [k \in DOMAIN Parameters |-> IF ServerAsks[request.command][k] = "s"
                                       THEN Bytes(Parameters[k]) ELSE Parameters[k]]' = meantBy
      <4>. HIDE DEF values, types
      <4>. QED
        BY <3>3
    <3>. HIDE DEF meantBy
    <3>. QED
      BY <3>1, <3>2, <3>4 DEF ServerReads
  <2>6. phase' # "sent"
    BY <2>4
  <2>. QED
    BY <2>1, <2>5, <2>6 DEF ReadInv
<1>3. CASE ServerRefuses
  BY <1>3, ReadsAway DEF ServerRefuses
<1>4. CASE BuildLoginUrl
  BY <1>4, ReadsAway DEF BuildLoginUrl
<1>5. ASSUME NEW kind, NEW n, ServerAnswers(kind, n) PROVE ReadInv'
  <2>1. request' = request /\ phase' \in {"built", "fault"}
    BY <1>5 DEF ServerAnswers
  <2>. QED
    BY <2>1, ReadsAway
<1>6. CASE MessageIsSet
  BY <1>6, ReadsAway DEF MessageIsSet
<1>7. CASE MessageArrives
  <2>1. request' = request /\ phase' \in {"reading", "closed"}
    BY <1>7 DEF MessageArrives
  <2>. QED
    BY <2>1, ReadsAway
<1>8. CASE PageReads
  <2>1. request' = request /\ phase' \in {"reading", "read"}
    BY <1>8 DEF PageReads
  <2>. QED
    BY <2>1, ReadsAway
<1>9. CASE UNCHANGED message_vars
  <2>1. request' = request /\ phase' = phase /\ wire' = wire /\ parsed' = parsed
    BY <1>9 DEF message_vars
  <2>2. Parameters' = Parameters /\ IsPlain' = IsPlain /\ HasText' = HasText
    BY <2>1 DEF Parameters, IsPlain, HasText
  <2>3. ServerReads'
    BY <2>1, <2>2 DEF ReadInv, ServerReads
  <2>. QED
    BY <2>1, <2>2, <2>3 DEF ReadInv
<1>. QED
  BY <1>1, <1>2, <1>3, <1>4, <1>5, <1>6, <1>7, <1>8, <1>9 DEF MessageNext

(* Of any text and any id, the server reads what a client wrote exactly if *)
(* both count the length of a text alike (parameters.cpp:29,               *)
(* example.html:571).                                                      *)
THEOREM CountedBytesAreRead == MessageSpec => []ServerReads
<1>1. ReadInv => ServerReads
  BY DEF ReadInv
<1>. QED
  BY ReadsBegin, ReadsNext, <1>1, PTL DEF MessageSpec
===============================================================================
