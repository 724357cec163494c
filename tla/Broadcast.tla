----------------------------- MODULE Broadcast -------------------------------
(***************************************************************************)
(* The reference counts of messages.  The main thread receives a message   *)
(* and shares it with the worker through a task; the worker answers with a *)
(* message that it puts into the queues of several connections, one after  *)
(* the other, while the main thread already writes the first copies.       *)
(* usage is a plain int of two threads: usage++ is a load and a store,     *)
(* --usage <= 0 a load, a store and a second load, as the makefile builds  *)
(* it.                                                                     *)
(*                                                                         *)
(* How the queues work is in ConcurrentQueue and Outbox: here a queue is   *)
(* whether the connection has its copy.  Once freed memory is used         *)
(* anything may happen, and the behaviour ends.                            *)
(***************************************************************************)
EXTENDS Integers, FiniteSets, Sequences

CONSTANT Clients        \* the connections in the room

ASSUME BroadcastAssumption == IsFiniteSet(Clients)

Threads == {"main", "worker"}
Messages == {"received", "sent"}

VARIABLES
    usage,          \* of the two messages; 0 before they are created
    deleted,        \* the messages that were deleted
    queued,         \* the clients with a copy of "sent" in their queue
    closed,         \* the clients that closed
    pc,
    holds,          \* the messages a thread has to dereference, in order
    register,       \* what a thread has loaded and changed
    remaining,      \* the clients the worker's loop has not come to
    adding,         \* the client it adds the message to, if any
    \* history
    stale,          \* the updates since a thread loaded the count it changes
    lost,           \* the updates of a message that were overwritten
    used_deleted    \* which thread used which deleted message, and how

thread_vars == <<pc, holds, remaining, adding>>
vars == <<usage, deleted, queued, closed, thread_vars, register, stale, lost,
          used_deleted>>

Init ==
    /\ usage = [m \in Messages |-> 0]
    /\ deleted = {}
    /\ queued = {}
    /\ closed = {}
    /\ pc = [t \in Threads |-> IF t = "main" THEN "receive" ELSE "wait"]
    /\ holds = [t \in Threads |-> <<>>]
    /\ register = [t \in Threads |-> 0]
    /\ remaining = {}
    /\ adding = {}
    /\ stale = [t \in Threads |-> {}]
    /\ lost = {}
    /\ used_deleted = {}

TypeOK ==
    /\ usage \in [Messages -> Int]
    /\ deleted \subseteq Messages
    /\ queued \cup closed \cup remaining \cup adding \subseteq Clients
    /\ pc \in [Threads -> {"receive", "wait", "task", "loop", "clone", "write",
                           "load", "store", "test", "idle"}]
    /\ holds \in [Threads -> Seq(Messages)]
    /\ register \in [Threads -> Int]
    /\ stale \in [Threads -> SUBSET {"increment", "decrement"}]
    /\ lost \subseteq Messages \X {"increment", "decrement"}
    /\ used_deleted \subseteq Threads \X Messages \X {"count", "test", "content"}

-----------------------------------------------------------------------------
At(t, label) == pc[t] = label
Goto(t, label) == pc' = [pc EXCEPT ![t] = label]
Item(t) == Head(holds[t])

Use(t, m, how) ==
    used_deleted' = IF m \in deleted THEN used_deleted \cup {<<t, m, how>>}
                                     ELSE used_deleted

(* A thread loads a count and changes it in a register. *)
Load(t, m, change) ==
    /\ Use(t, m, "count")
    /\ register' = [register EXCEPT ![t] = usage[m] + change]
    /\ stale' = [stale EXCEPT ![t] = {}]

(* A thread between its load and its store of the count of m. *)
Changes(t, m) == holds[t] # <<>> /\ Item(t) = m /\ (At(t, "store") \/ At(t, "clone"))

(* It stores the register over whatever the other thread has stored.       *)
Store(t, m, update) ==
    /\ Use(t, m, "count")
    /\ usage' = [usage EXCEPT ![m] = register[t]]
    /\ lost' = lost \cup {<<m, u>> : u \in stale[t]}
    /\ stale' = [s \in Threads |-> IF s # t /\ Changes(s, m) THEN stale[s] \cup {update}
                                                             ELSE stale[s]]

-----------------------------------------------------------------------------
(* message::dereference *)
BeginDereference(t) ==
    /\ At(t, "load")
    /\ Load(t, Item(t), -1)
    /\ Goto(t, "store")
    /\ UNCHANGED <<usage, deleted, queued, closed, holds, remaining, adding, lost>>

Decrement(t) ==
    /\ At(t, "store")
    /\ Store(t, Item(t), "decrement")
    /\ Goto(t, "test")
    /\ UNCHANGED <<deleted, queued, closed, holds, remaining, adding, register>>

(* Faulty variants: the last reference is not noticed; one is left over.   *)
UnusedBelowZero(m) == usage[m] < 0
UnusedAtOne(m) == usage[m] <= 1

Unused(m) == usage[m] <= 0

(* A thread goes on with the next message it has to dereference, or to     *)
(* wait for what comes next.                                               *)
Dereferenced(t) ==
    /\ At(t, "test")
    /\ Use(t, Item(t), "test")
    /\ deleted' = IF Unused(Item(t)) THEN deleted \cup {Item(t)} ELSE deleted
    /\ holds' = [holds EXCEPT ![t] = Tail(@)]
    /\ Goto(t, IF Tail(holds[t]) = <<>> THEN "idle" ELSE "load")
    /\ UNCHANGED <<usage, queued, closed, remaining, adding, register, stale, lost>>

-----------------------------------------------------------------------------
(* The main thread receives a message and gives a clone of it to a task;   *)
(* nobody else has seen it yet.  Then it dereferences its own.             *)
Receive ==
    /\ At("main", "receive")
    /\ usage' = [usage EXCEPT !["received"] = 2]
    /\ holds' = [t \in Threads |-> <<"received">>]
    /\ pc' = [main |-> "load", worker |-> "task"]
    /\ UNCHANGED <<deleted, queued, closed, remaining, adding, register, stale, lost, used_deleted>>

(* The worker reads the message and creates the one to send.  It will      *)
(* dereference that one after the loop, and the received one after the     *)
(* command.                                                                *)
BeginSend ==
    /\ At("worker", "task")
    /\ Use("worker", "received", "content")
    /\ usage' = [usage EXCEPT !["sent"] = 1]
    /\ holds' = [holds EXCEPT !["worker"] = <<"sent", "received">>]
    /\ remaining' = Clients
    /\ Goto("worker", "loop")
    /\ UNCHANGED <<deleted, queued, closed, adding, register, stale, lost>>

(* add_message: no copy for a connection that closed. *)
Skip(c) ==
    /\ At("worker", "loop")
    /\ c \in remaining \cap closed
    /\ remaining' = remaining \ {c}
    /\ UNCHANGED <<usage, deleted, queued, closed, pc, holds, adding, register, stale, lost,
                   used_deleted>>

BeginClone(c) ==
    /\ At("worker", "loop")
    /\ c \in remaining \ closed
    /\ Load("worker", "sent", 1)
    /\ remaining' = remaining \ {c}
    /\ adding' = {c}
    /\ Goto("worker", "clone")
    /\ UNCHANGED <<usage, deleted, queued, closed, holds, lost>>

(* A faulty variant: the message is queued, not a clone of it. *)
EnqueueItself ==
    /\ At("worker", "clone")
    /\ queued' = queued \cup adding
    /\ adding' = {}
    /\ Goto("worker", "loop")
    /\ UNCHANGED <<usage, deleted, closed, holds, remaining, register, stale, lost,
                   used_deleted>>

(* The clone gets into the queue even if the connection closed meanwhile.  *)
EnqueueClone ==
    /\ At("worker", "clone")
    /\ Store("worker", "sent", "increment")
    /\ queued' = queued \cup adding
    /\ adding' = {}
    /\ Goto("worker", "loop")
    /\ UNCHANGED <<deleted, closed, holds, remaining, register>>

EndSend ==
    /\ At("worker", "loop")
    /\ remaining = {}
    /\ Goto("worker", "load")
    /\ UNCHANGED <<usage, deleted, queued, closed, holds, remaining, adding, register, stale, lost,
                   used_deleted>>

(* The writeable callback takes a copy, writes it, and dereferences it.    *)
GetNextMessage(c) ==
    /\ At("main", "idle")
    /\ c \in queued \ closed
    /\ queued' = queued \ {c}
    /\ holds' = [holds EXCEPT !["main"] = <<"sent">>]
    /\ Goto("main", "write")
    /\ UNCHANGED <<usage, deleted, closed, remaining, adding, register, stale, lost, used_deleted>>

Write ==
    /\ At("main", "write")
    /\ Use("main", "sent", "content")
    /\ Goto("main", "load")
    /\ UNCHANGED <<usage, deleted, queued, closed, holds, remaining, adding, register, stale, lost>>

(* A connection closes; its task is queued behind the one that sends.      *)
Close(c) ==
    /\ At("main", "idle")
    /\ c \notin closed
    /\ closed' = closed \cup {c}
    /\ UNCHANGED <<usage, deleted, queued, thread_vars, register, stale, lost, used_deleted>>

(* That task clears the queue of the connection. *)
ClearMessages(c) ==
    /\ At("worker", "idle")
    /\ c \in queued \cap closed
    /\ queued' = queued \ {c}
    /\ holds' = [holds EXCEPT !["worker"] = <<"sent">>]
    /\ Goto("worker", "load")
    /\ UNCHANGED <<usage, deleted, closed, remaining, adding, register, stale, lost, used_deleted>>

Step ==
    \/ Receive \/ BeginSend \/ EnqueueClone \/ EndSend \/ Write
    \/ \E t \in Threads : BeginDereference(t) \/ Decrement(t) \/ Dereferenced(t)
    \/ \E c \in Clients : \/ Skip(c) \/ BeginClone(c)
                          \/ GetNextMessage(c) \/ Close(c) \/ ClearMessages(c)

Next == used_deleted = {} /\ Step

Spec == Init /\ [][Next]_vars

-----------------------------------------------------------------------------
(* The references to m: the copies in queues, and what the threads hold    *)
(* and have not counted off.                                               *)
HeldBy(t) == IF At(t, "test") THEN Tail(holds[t]) ELSE holds[t]
References(m) ==
    (IF m = "sent" THEN Cardinality(queued) ELSE 0)
        + Cardinality({t \in Threads : \E i \in DOMAIN HeldBy(t) : HeldBy(t)[i] = m})

(* As long as no update was overwritten, usage is the number of references *)
(* at every step of the two threads: clone and dereference                 *)
(* (message.cpp:77) are paired on every path, with a queue of a connection *)
(* that closes or not.                                                     *)
UsageIsReferences ==
    \A m \in Messages : {m} \X {"increment", "decrement"} \cap lost = {}
                            => usage[m] = References(m)

(* A message is used after its deletion in two ways only: an increment of  *)
(* the worker was overwritten by a decrement of the main thread; or both   *)
(* threads counted down before either of them looked at the count again    *)
(* (message.cpp:85), found it zero, and both delete the message.           *)
DeletedEarlyOnlyByRace ==
    \A u \in used_deleted : <<u[2], "increment">> \in lost \/ u[3] = "test"

(* A message nobody refers to is deleted, unless a decrement was           *)
(* overwritten (message.cpp:85): no message leaks otherwise, whoever of    *)
(* the two threads, the writer or the task that closes, was the last.      *)
LeakedOnlyByLostDecrement ==
    \A m \in Messages :
        /\ At("main", "idle") /\ At("worker", "idle")
        /\ References(m) = 0
        => m \in deleted \/ <<m, "decrement">> \in lost
==============================================================================
