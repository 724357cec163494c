--------------------------- MODULE BroadcastProofs ---------------------------
(***************************************************************************)
(* Theorems about Broadcast, for any finite set of connections: what the   *)
(* count of a message is, and when a message is deleted too early or       *)
(* never.                                                                  *)
(***************************************************************************)
EXTENDS Broadcast, FiniteSetTheorems, TLAPS

-----------------------------------------------------------------------------
(* What a thread holds where it is. *)
Shape ==
    /\ pc["main"] \in {"receive", "load", "store", "test", "idle", "write"}
    /\ pc["main"] \in {"receive", "idle"} => holds["main"] = << >>
    /\ pc["main"] \in {"load", "store", "test"} => holds["main"] \in {<<"received">>, <<"sent">>}
    /\ pc["main"] = "write" => holds["main"] = <<"sent">>
    /\ pc["worker"] \in {"wait", "task", "loop", "clone", "load", "store", "test", "idle"}
    /\ pc["worker"] \in {"wait", "idle"} => holds["worker"] = << >>
    /\ pc["worker"] = "task" => holds["worker"] = <<"received">>
    /\ pc["worker"] \in {"loop", "clone"} => holds["worker"] = <<"sent", "received">>
    /\ pc["worker"] \in {"load", "store", "test"} =>
          holds["worker"] \in {<<"received">>, <<"sent">>, <<"sent", "received">>}

(* A client has no copy before the loop has come to it. *)
Loop ==
    /\ pc["worker"] \notin {"loop", "clone"} => remaining = {}
    /\ IF pc["worker"] = "clone" THEN \E c \in Clients : adding = {c} ELSE adding = {}
    /\ remaining \cap queued = {}
    /\ adding \cap (queued \cup remaining) = {}

(* A message that was not created yet. *)
Created(m) == IF m = "received" THEN pc["main"] # "receive"
                                ELSE pc["worker"] \notin {"wait", "task"}

Fresh ==
    /\ pc["main"] = "receive" <=> pc["worker"] = "wait"
    /\ ~Created("sent") => queued = {} /\ holds["main"] # <<"sent">>
    /\ \A m \in Messages : ~Created(m) =>
          m \notin deleted /\ usage[m] = 0 /\ \A u \in {"increment", "decrement"} : <<m, u>> \notin lost

(* What a thread adds with its next store. *)
Change(t) == IF pc[t] = "clone" THEN 1 ELSE -1

(* An overwritten decrement makes the count too high, never too low; and a *)
(* thread about to store a count it has loaded knows of all increments, or *)
(* will overwrite one.                                                     *)
NotTooLow ==
    \A m \in Messages : <<m, "increment">> \notin lost =>
        /\ usage[m] >= References(m)
        /\ \A t \in Threads : Changes(t, m) /\ "increment" \notin stale[t]
               => register[t] >= References(m) + Change(t)

(* An overwritten increment makes it too low, never too high. *)
NotTooHigh ==
    \A m \in Messages : <<m, "decrement">> \notin lost =>
        /\ usage[m] <= References(m)
        /\ \A t \in Threads : Changes(t, m) /\ "decrement" \notin stale[t]
               => register[t] <= References(m) + Change(t)

(* A deleted message has no references; one without references is deleted, *)
(* or a thread is about to look at its count.                              *)
DeletedUnused ==
    \A m \in deleted : <<m, "increment">> \notin lost => References(m) = 0

UnusedNoticed ==
    \A m \in Messages :
        Created(m) /\ References(m) = 0 /\ <<m, "decrement">> \notin lost =>
            \/ m \in deleted
            \/ \E t \in Threads : At(t, "test") /\ Item(t) = m

(* Where the threads are, and what the counts are. *)
Base == TypeOK /\ Shape /\ Loop /\ Fresh
Counts == NotTooLow /\ NotTooHigh /\ DeletedUnused /\ UnusedNoticed /\ DeletedEarlyOnlyByRace

IndInv == Base /\ Counts

-----------------------------------------------------------------------------
(* References, counted.                                                    *)

(* What a thread may hold, and whether a message is in it. *)
Stacks == {<< >>, <<"received">>, <<"sent">>, <<"sent", "received">>}
Has(h, m) == h = <<m>> \/ h = <<"sent", "received">>

LEMMA StackFacts ==
    ASSUME NEW h \in Stacks, NEW m \in Messages
    PROVE  /\ (\E i \in DOMAIN h : h[i] = m) <=> Has(h, m)
           /\ h # << >> => Tail(h) = IF h = <<"sent", "received">> THEN <<"received">> ELSE << >>
           /\ h # << >> => Head(h) = IF h = <<"received">> THEN "received" ELSE "sent"
<1>1. CASE h = << >>
  BY <1>1 DEF Has
<1>2. CASE h = <<"received">>
  BY <1>2 DEF Has, Messages
<1>3. CASE h = <<"sent">>
  BY <1>3 DEF Has, Messages
<1>4. CASE h = <<"sent", "received">>
  <2>1. DOMAIN h = 1 .. 2 /\ h[1] = "sent" /\ h[2] = "received"
    BY <1>4
  <2>2. \E i \in DOMAIN h : h[i] = m
    BY <2>1 DEF Messages
  <2>3. Tail(h) = <<"received">> /\ Head(h) = "sent"
    BY <1>4
  <2>. QED
    BY <1>4, <2>2, <2>3 DEF Has
<1>. QED
  BY <1>1, <1>2, <1>3, <1>4 DEF Stacks

LEMMA StackTypes == \A h \in Stacks : h \in Seq(Messages)
<1>1. << >> \in Seq(Messages)
  OBVIOUS
<1>2. <<"received">> \in Seq(Messages) /\ <<"sent">> \in Seq(Messages)
  BY DEF Messages
<1>3. <<"sent", "received">> \in Seq(Messages)
  BY DEF Messages
<1>. QED
  BY <1>1, <1>2, <1>3 DEF Stacks

(* The threads that hold m, one by one. *)
LEMMA HoldersCounted ==
    ASSUME NEW h, h["main"] \in Stacks, h["worker"] \in Stacks, NEW m \in Messages
    PROVE  Cardinality({t \in Threads : \E i \in DOMAIN h[t] : h[t][i] = m})
             = (IF Has(h["main"], m) THEN 1 ELSE 0) + (IF Has(h["worker"], m) THEN 1 ELSE 0)
<1>. DEFINE S == {t \in Threads : \E i \in DOMAIN h[t] : h[t][i] = m}
<1>1. S = {t \in Threads : Has(h[t], m)}
  BY StackFacts DEF Threads
<1>2. Cardinality({"main"}) = 1 /\ Cardinality({"worker"}) = 1 /\ Cardinality({}) = 0
  BY FS_Singleton, FS_EmptySet
<1>3. Cardinality({"main", "worker"}) = 2
  <2>1. IsFiniteSet({"main"}) /\ "worker" \notin {"main"}
    BY FS_Singleton
  <2>2. Cardinality({"main"} \cup {"worker"}) = Cardinality({"main"}) + 1
    BY <2>1, FS_AddElement
  <2>3. {"main"} \cup {"worker"} = {"main", "worker"}
    OBVIOUS
  <2>. QED
    BY <1>2, <2>2, <2>3
<1>4. S = (IF Has(h["main"], m) THEN {"main"} ELSE {})
             \cup (IF Has(h["worker"], m) THEN {"worker"} ELSE {})
  BY <1>1 DEF Threads
<1>5. CASE Has(h["main"], m) /\ Has(h["worker"], m)
  <2>1. S = {"main", "worker"}
    BY <1>4, <1>5
  <2>. QED
    BY <1>3, <1>5, <2>1
<1>6. CASE Has(h["main"], m) /\ ~Has(h["worker"], m)
  <2>1. S = {"main"}
    BY <1>4, <1>6
  <2>. QED
    BY <1>2, <1>6, <2>1
<1>7. CASE ~Has(h["main"], m) /\ Has(h["worker"], m)
  <2>1. S = {"worker"}
    BY <1>4, <1>7
  <2>. QED
    BY <1>2, <1>7, <2>1
<1>8. CASE ~Has(h["main"], m) /\ ~Has(h["worker"], m)
  <2>1. S = {}
    BY <1>4, <1>8
  <2>. QED
    BY <1>2, <1>8, <2>1
<1>. QED
  BY <1>5, <1>6, <1>7, <1>8

Copies(m) == IF m = "sent" THEN Cardinality(queued) ELSE 0
Holds(t, m) == Has(HeldBy(t), m)
HoldCount(t, m) == IF Holds(t, m) THEN 1 ELSE 0

LEMMA QueuedFinite ==
    ASSUME NEW S \in SUBSET Clients
    PROVE  IsFiniteSet(S) /\ Cardinality(S) \in Nat
BY BroadcastAssumption, FS_Subset, FS_CardinalityType

LEMMA HeldIsStack == TypeOK /\ Shape => \A t \in Threads : holds[t] \in Stacks /\ HeldBy(t) \in Stacks
<1>. SUFFICES ASSUME TypeOK, Shape, NEW t \in Threads
              PROVE  holds[t] \in Stacks /\ HeldBy(t) \in Stacks
  OBVIOUS
<1>1. <<"received">> # << >> /\ <<"sent">> # << >> /\ <<"sent", "received">> # << >>
  OBVIOUS
<1>2. holds[t] \in Stacks
  BY DEF Shape, Threads, Stacks
<1>3. At(t, "test") => holds[t] # << >>
  BY <1>1 DEF Shape, Threads, At
<1>4. holds[t] # << >> => Tail(holds[t]) \in Stacks
  BY <1>2, StackFacts DEF Stacks, Messages
<1>. QED
  BY <1>2, <1>3, <1>4 DEF HeldBy

Counted ==
    \A m \in Messages :
        /\ References(m) = Copies(m) + HoldCount("main", m) + HoldCount("worker", m)
        /\ References(m) \in Nat
        /\ Cardinality(queued) \in Nat

LEMMA ReferencesCounted ==
    TypeOK /\ Shape => Counted
<1>. SUFFICES ASSUME TypeOK, Shape, NEW m \in Messages
              PROVE  /\ References(m) = Copies(m) + HoldCount("main", m) + HoldCount("worker", m)
                     /\ References(m) \in Nat
                     /\ Cardinality(queued) \in Nat
  BY DEF Counted
<1>. DEFINE h == [t \in Threads |-> HeldBy(t)]
<1>1. Cardinality(queued) \in Nat
  BY QueuedFinite DEF TypeOK
<1>2. h["main"] \in Stacks /\ h["worker"] \in Stacks
  BY HeldIsStack DEF Threads
<1>3. {t \in Threads : \E i \in DOMAIN HeldBy(t) : HeldBy(t)[i] = m}
         = {t \in Threads : \E i \in DOMAIN h[t] : h[t][i] = m}
  OBVIOUS
<1>4. h["main"] = HeldBy("main") /\ h["worker"] = HeldBy("worker")
  BY DEF Threads
<1>. HIDE DEF h
<1>5. Cardinality({t \in Threads : \E i \in DOMAIN h[t] : h[t][i] = m})
         = HoldCount("main", m) + HoldCount("worker", m)
  BY <1>2, <1>4, HoldersCounted DEF HoldCount, Holds
<1>6. References(m) = Copies(m) + (HoldCount("main", m) + HoldCount("worker", m))
  BY <1>3, <1>5 DEF References, Copies
<1>7. /\ Copies(m) \in Nat /\ HoldCount("main", m) \in Nat /\ HoldCount("worker", m) \in Nat
  BY <1>1 DEF Copies, HoldCount
<1>. QED
  BY <1>1, <1>6, <1>7

-----------------------------------------------------------------------------
(* Where the threads are and what they hold.                               *)

LEMMA InitBase == Init => Base
<1>. SUFFICES ASSUME Init PROVE Base
  OBVIOUS
<1>. USE DEF Init, Threads, Messages
<1>1. TypeOK
  BY DEF TypeOK
<1>2. Shape
  BY DEF Shape
<1>3. Loop
  BY DEF Loop
<1>4. Fresh
  BY DEF Fresh, Created
<1>. QED
  BY <1>1, <1>2, <1>3, <1>4 DEF Base

(* What a thread with a message in its hands has there. *)
LEMMA ItemFacts ==
    ASSUME Base, NEW t \in Threads, holds[t] # << >>
    PROVE  /\ Item(t) \in Messages
           /\ Item(t) = (IF holds[t] = <<"received">> THEN "received" ELSE "sent")
           /\ Tail(holds[t]) = (IF holds[t] = <<"sent", "received">> THEN <<"received">> ELSE << >>)
           /\ Has(holds[t], Item(t))
<1>1. holds[t] \in Stacks
  BY HeldIsStack DEF Base
<1>2. "sent" \in Messages /\ "received" \in Messages
  BY DEF Messages
<1>. QED
  BY <1>1, <1>2, StackFacts DEF Item, Has, Stacks

(* What a use, a load and a store of a count leave behind has its type.    *)
LEMMA UseTypes ==
    ASSUME TypeOK, NEW t \in Threads, NEW m \in Messages, NEW how \in {"count", "test", "content"},
           Use(t, m, how)
    PROVE  used_deleted' \subseteq Threads \X Messages \X {"count", "test", "content"}
<1>1. <<t, m, how>> \in Threads \X Messages \X {"count", "test", "content"}
  OBVIOUS
<1>. QED
  BY <1>1 DEF TypeOK, Use

LEMMA LoadTypes ==
    ASSUME TypeOK, NEW t \in Threads, NEW m \in Messages, NEW change \in Int,
           Load(t, m, change)
    PROVE  /\ used_deleted' \subseteq Threads \X Messages \X {"count", "test", "content"}
           /\ register' \in [Threads -> Int]
           /\ stale' \in [Threads -> SUBSET {"increment", "decrement"}]
<1>1. register' \in [Threads -> Int]
  BY DEF TypeOK, Load
<1>2. stale' \in [Threads -> SUBSET {"increment", "decrement"}]
  BY DEF TypeOK, Load
<1>. QED
  BY <1>1, <1>2, UseTypes DEF Load

LEMMA StoreTypes ==
    ASSUME TypeOK, NEW t \in Threads, NEW m \in Messages,
           NEW update \in {"increment", "decrement"}, Store(t, m, update)
    PROVE  /\ used_deleted' \subseteq Threads \X Messages \X {"count", "test", "content"}
           /\ usage' \in [Messages -> Int]
           /\ lost' \subseteq Messages \X {"increment", "decrement"}
           /\ stale' \in [Threads -> SUBSET {"increment", "decrement"}]
<1>1. usage' \in [Messages -> Int]
  BY DEF TypeOK, Store
<1>2. stale' \in [Threads -> SUBSET {"increment", "decrement"}]
  BY DEF TypeOK, Store
<1>3. {<<m, u>> : u \in stale[t]} \subseteq Messages \X {"increment", "decrement"}
  BY DEF TypeOK
<1>4. lost' \subseteq Messages \X {"increment", "decrement"}
  BY <1>3 DEF TypeOK, Store
<1>. QED
  BY <1>1, <1>2, <1>4, UseTypes DEF Store

LEMMA DereferenceBase ==
    ASSUME Base, NEW t \in Threads, BeginDereference(t) \/ Decrement(t) \/ Dereferenced(t)
    PROVE  Base'
<1>1. /\ pc[t] \in {"load", "store", "test"}
      /\ holds[t] # << >>
  <2>1. pc[t] \in {"load", "store", "test"}
    BY DEF BeginDereference, Decrement, Dereferenced, At
  <2>. QED
    BY <2>1 DEF Base, Shape, Threads
<1>2. /\ Item(t) \in Messages
      /\ Item(t) = (IF holds[t] = <<"received">> THEN "received" ELSE "sent")
      /\ Tail(holds[t]) = (IF holds[t] = <<"sent", "received">> THEN <<"received">> ELSE << >>)
  BY <1>1, ItemFacts
<1>3. CASE BeginDereference(t)
  <2>1. TypeOK'
    <3>1. Load(t, Item(t), -1) /\ TypeOK /\ -1 \in Int
      BY <1>3 DEF BeginDereference, Base
    <3>2. /\ used_deleted' \subseteq Threads \X Messages \X {"count", "test", "content"}
          /\ register' \in [Threads -> Int]
          /\ stale' \in [Threads -> SUBSET {"increment", "decrement"}]
      BY <1>2, <3>1, LoadTypes
    <3>. QED
      BY <1>3, <3>1, <3>2 DEF BeginDereference, TypeOK, Goto
  <2>. USE <1>2, <1>3 DEF BeginDereference, Load, Use, At, Goto, Base, Threads
  <2>2. Shape'
    BY DEF TypeOK, Shape
  <2>3. Loop'
    BY DEF TypeOK, Loop
  <2>4. Fresh'
    BY DEF TypeOK, Fresh, Created
  <2>. QED
    BY <2>1, <2>2, <2>3, <2>4
<1>4. CASE Decrement(t)
  <2>1. TypeOK'
    BY <1>2, <1>4, StoreTypes DEF Decrement, Base, TypeOK, Goto
  <2>. USE <1>2, <1>4 DEF Decrement, Store, Use, At, Goto, Base, Threads
  <2>2. Shape'
    BY DEF TypeOK, Shape
  <2>3. Loop'
    BY DEF TypeOK, Loop
  <2>4. Fresh'
    BY <1>1 DEF TypeOK, Shape, Fresh, Created, Messages
  <2>. QED
    BY <2>1, <2>2, <2>3, <2>4
<1>5. CASE Dereferenced(t)
  <2>1. TypeOK'
    <3>1. Tail(holds[t]) \in Seq(Messages)
      BY <1>2, StackTypes DEF Stacks
    <3>2. used_deleted' \subseteq Threads \X Messages \X {"count", "test", "content"}
      BY <1>2, <1>5, UseTypes DEF Dereferenced, Base
    <3>. QED
      BY <1>2, <1>5, <3>1, <3>2 DEF Dereferenced, Base, TypeOK, Goto
  <2>. USE <1>2, <1>5 DEF Dereferenced, Use, At, Goto, Base, Threads
  <2>2. Shape'
    BY <1>1 DEF TypeOK, Shape
  <2>3. Loop'
    BY DEF TypeOK, Loop
  <2>4. Fresh'
    BY <1>1 DEF TypeOK, Shape, Fresh, Created, Messages
  <2>. QED
    BY <2>1, <2>2, <2>3, <2>4
<1>. QED
  BY <1>3, <1>4, <1>5

(* The two messages are created: "received" by the main thread, which      *)
(* gives a clone to the worker, "sent" by the worker.                      *)
LEMMA CreateBase == ASSUME Base, Receive \/ BeginSend PROVE Base'
<1>1. CASE Receive
  <2>. USE <1>1 DEF Receive, At, Base, Threads
  <2>1. /\ pc'["main"] = "load" /\ pc'["worker"] = "task" /\ DOMAIN pc' = Threads
        /\ holds'["main"] = <<"received">> /\ holds'["worker"] = <<"received">>
    OBVIOUS
  <2>2. TypeOK'
    <3>1. pc' \in [Threads -> {"receive", "wait", "task", "loop", "clone", "write", "load",
                               "store", "test", "idle"}]
      OBVIOUS
    <3>2. holds' \in [Threads -> Seq(Messages)]
      BY StackTypes DEF Stacks
    <3>. QED
      BY <3>1, <3>2 DEF TypeOK
  <2>3. Shape'
    BY <2>1 DEF Shape
  <2>4. Loop'
    BY <2>1 DEF TypeOK, Shape, Fresh, Loop
  <2>5. Fresh'
    BY <2>1 DEF TypeOK, Shape, Fresh, Created, Messages
  <2>. QED
    BY <2>2, <2>3, <2>4, <2>5
<1>2. CASE BeginSend
  <2>1. TypeOK'
    <3>1. <<"sent", "received">> \in Seq(Messages)
      BY StackTypes DEF Stacks
    <3>2. used_deleted' \subseteq Threads \X Messages \X {"count", "test", "content"}
      BY <1>2, UseTypes DEF BeginSend, Base, Threads, Messages
    <3>3. holds' \in [Threads -> Seq(Messages)]
      BY <1>2, <3>1 DEF BeginSend, Base, TypeOK
    <3>4. usage' \in [Messages -> Int]
      <4>1. usage' = [usage EXCEPT !["sent"] = 1] /\ usage \in [Messages -> Int]
        BY <1>2 DEF BeginSend, Base, TypeOK
      <4>2. usage' = [m \in Messages |-> IF m = "sent" THEN 1 ELSE usage[m]]
        BY <4>1
      <4>3. \A m \in Messages : usage[m] \in Int
        BY <4>1
      <4>. QED
        BY <4>2, <4>3
    <3>6. remaining' = Clients
      BY <1>2 DEF BeginSend
    <3>5. pc' \in [Threads -> {"receive", "wait", "task", "loop", "clone", "write", "load",
                               "store", "test", "idle"}]
      BY <1>2 DEF BeginSend, Base, TypeOK, Goto
    <3>. QED
      BY <1>2, <3>2, <3>3, <3>4, <3>5, <3>6 DEF BeginSend, Base, TypeOK
  <2>. USE <1>2 DEF BeginSend, Use, At, Goto, Base, Threads
  <2>2. Shape'
    BY DEF TypeOK, Shape
  <2>3. Loop'
    BY DEF TypeOK, Shape, Fresh, Created, Loop
  <2>4. Fresh'
    BY DEF TypeOK, Shape, Fresh, Created, Messages
  <2>. QED
    BY <2>1, <2>2, <2>3, <2>4
<1>. QED
  BY <1>1, <1>2

(* The worker's loop over the connections.                                 *)
LEMMA LoopBase ==
    ASSUME Base, EndSend \/ EnqueueClone \/ \E c \in Clients : Skip(c) \/ BeginClone(c)
    PROVE  Base'
<1>1. CASE EndSend
  <2>. USE <1>1 DEF EndSend, At, Goto, Base, Threads
  <2>1. TypeOK'
    BY DEF TypeOK
  <2>2. Shape' /\ Loop'
    BY DEF TypeOK, Shape, Loop
  <2>3. Fresh'
    BY DEF TypeOK, Fresh, Created
  <2>. QED
    BY <2>1, <2>2, <2>3
<1>2. CASE EnqueueClone
  <2>1. TypeOK'
    BY <1>2, StoreTypes DEF EnqueueClone, Base, TypeOK, Goto, Threads, Messages
  <2>. USE <1>2 DEF EnqueueClone, Store, Use, At, Goto, Base, Threads
  <2>2. Shape'
    BY DEF TypeOK, Shape
  <2>3. Loop'
    BY DEF TypeOK, Loop
  <2>4. Fresh'
    BY DEF TypeOK, Shape, Fresh, Created, Messages
  <2>. QED
    BY <2>1, <2>2, <2>3, <2>4
<1>3. ASSUME NEW c \in Clients, Skip(c) PROVE Base'
  <2>. USE <1>3 DEF Skip, At, Base, Threads
  <2>1. TypeOK'
    BY DEF TypeOK
  <2>2. Shape' /\ Loop'
    BY DEF TypeOK, Shape, Loop
  <2>3. Fresh'
    BY DEF TypeOK, Fresh, Created
  <2>. QED
    BY <2>1, <2>2, <2>3
<1>4. ASSUME NEW c \in Clients, BeginClone(c) PROVE Base'
  <2>1. TypeOK'
    <3>1. Load("worker", "sent", 1) /\ TypeOK
      BY <1>4 DEF BeginClone, Base
    <3>2. /\ used_deleted' \subseteq Threads \X Messages \X {"count", "test", "content"}
          /\ register' \in [Threads -> Int]
          /\ stale' \in [Threads -> SUBSET {"increment", "decrement"}]
      BY <3>1, LoadTypes DEF Threads, Messages
    <3>. QED
      BY <1>4, <3>1, <3>2 DEF BeginClone, TypeOK, Goto
  <2>. USE <1>4 DEF BeginClone, Load, Use, At, Goto, Base, Threads
  <2>2. Shape'
    BY DEF TypeOK, Shape
  <2>3. Loop'
    BY DEF TypeOK, Loop
  <2>4. Fresh'
    BY DEF TypeOK, Shape, Fresh, Created
  <2>. QED
    BY <2>1, <2>2, <2>3, <2>4
<1>. QED
  BY <1>1, <1>2, <1>3, <1>4

(* The copies leave the queues: to be written, or with the connection.     *)
LEMMA TakeBase ==
    ASSUME Base, Write \/ \E c \in Clients : GetNextMessage(c) \/ Close(c) \/ ClearMessages(c)
    PROVE  Base'
<1>1. CASE Write
  <2>1. TypeOK'
    <3>1. used_deleted' \subseteq Threads \X Messages \X {"count", "test", "content"}
      BY <1>1, UseTypes DEF Write, Base, Threads, Messages
    <3>. QED
      BY <1>1, <3>1 DEF Write, Base, TypeOK, Goto
  <2>. USE <1>1 DEF Write, Use, At, Goto, Base, Threads
  <2>2. Shape'
    BY DEF TypeOK, Shape
  <2>3. Loop'
    BY DEF TypeOK, Loop
  <2>4. Fresh'
    BY DEF TypeOK, Shape, Fresh, Created
  <2>. QED
    BY <2>1, <2>2, <2>3, <2>4
<1>2. ASSUME NEW c \in Clients, GetNextMessage(c) PROVE Base'
  <2>. USE <1>2 DEF GetNextMessage, At, Goto, Base, Threads
  <2>1. TypeOK'
    BY StackTypes DEF TypeOK, Stacks
  <2>2. Shape'
    BY DEF TypeOK, Shape
  <2>3. Loop'
    BY DEF TypeOK, Loop
  <2>4. Fresh'
    BY DEF TypeOK, Shape, Fresh, Created
  <2>. QED
    BY <2>1, <2>2, <2>3, <2>4
<1>3. ASSUME NEW c \in Clients, Close(c) PROVE Base'
  <2>. USE <1>3 DEF Close, thread_vars, Base
  <2>1. TypeOK'
    BY DEF TypeOK
  <2>2. Shape' /\ Loop'
    BY DEF Shape, Loop
  <2>3. Fresh'
    BY DEF Fresh, Created
  <2>. QED
    BY <2>1, <2>2, <2>3
<1>4. ASSUME NEW c \in Clients, ClearMessages(c) PROVE Base'
  <2>. USE <1>4 DEF ClearMessages, At, Goto, Base, Threads
  <2>1. TypeOK'
    BY StackTypes DEF TypeOK, Stacks
  <2>2. Shape'
    BY DEF TypeOK, Shape
  <2>3. Loop'
    BY DEF TypeOK, Loop
  <2>4. Fresh'
    BY DEF TypeOK, Shape, Fresh, Created
  <2>. QED
    BY <2>1, <2>2, <2>3, <2>4
<1>. QED
  BY <1>1, <1>2, <1>3, <1>4

LEMMA StepBase == Base /\ [Next]_vars => Base'
<1>1. ASSUME Base, UNCHANGED vars PROVE Base'
  BY <1>1 DEF vars, thread_vars, Base, TypeOK, Shape, Loop, Fresh, Created
<1>. QED
  BY <1>1, DereferenceBase, CreateBase, LoopBase, TakeBase DEF Next, Step

-----------------------------------------------------------------------------
(* How each action changes the number of references.                       *)

LEMMA BaseCounted == Base => Counted
BY ReferencesCounted DEF Base

LEMMA BaseStacks == Base => \A t \in Threads : holds[t] \in Stacks /\ HeldBy(t) \in Stacks
BY HeldIsStack DEF Base

(* A thread that has not counted off the message in its hands refers to it. *)
LEMMA HolderRefers ==
    ASSUME Base, NEW t \in Threads, holds[t] # << >>, ~At(t, "test")
    PROVE  Item(t) \in Messages /\ References(Item(t)) > 0
<1>1. Item(t) \in Messages /\ Has(holds[t], Item(t))
  BY ItemFacts
<1>2. HoldCount(t, Item(t)) = 1
  BY <1>1 DEF HoldCount, Holds, HeldBy
<1>3. \A s \in Threads : HoldCount(s, Item(t)) \in Nat
  BY DEF HoldCount
<1>4. Copies(Item(t)) \in Nat
  BY BaseCounted, <1>1 DEF Counted, Copies
<1>5. References(Item(t)) =
         Copies(Item(t)) + HoldCount("main", Item(t)) + HoldCount("worker", Item(t))
  BY BaseCounted, <1>1 DEF Counted
<1>. QED
  BY <1>1, <1>2, <1>3, <1>4, <1>5 DEF Threads

(* What only moves a thread changes no references. *)
LEMMA SameReferences ==
    ASSUME UNCHANGED queued, \A t \in Threads : HeldBy(t)' = HeldBy(t)
    PROVE  \A m \in Messages : References(m)' = References(m)
BY DEF References

(* A decrement counts one off. *)
LEMMA DecrementReferences ==
    ASSUME Base, Base', NEW t \in Threads, Decrement(t)
    PROVE  /\ Item(t) \in Messages
           /\ \A m \in Messages :
                 References(m)' = IF m = Item(t) THEN References(m) - 1 ELSE References(m)
<1>1. holds[t] # << >> /\ pc[t] = "store" /\ pc'[t] = "test" /\ holds' = holds
  <2>1. pc[t] = "store" /\ holds' = holds /\ pc' = [pc EXCEPT ![t] = "test"]
    BY DEF Decrement, At, Goto
  <2>2. pc'[t] = "test"
    BY <2>1 DEF Base, TypeOK
  <2>3. holds[t] # << >>
    BY <2>1 DEF Base, Shape, Threads
  <2>. QED
    BY <2>1, <2>2, <2>3
<1>2. /\ Item(t) \in Messages
      /\ Item(t) = (IF holds[t] = <<"received">> THEN "received" ELSE "sent")
      /\ Tail(holds[t]) = (IF holds[t] = <<"sent", "received">> THEN <<"received">> ELSE << >>)
      /\ holds[t] \in Stacks
  BY <1>1, ItemFacts, BaseStacks
<1>3. HeldBy(t) = holds[t] /\ HeldBy(t)' = Tail(holds[t])
  BY <1>1 DEF HeldBy, At
<1>4. \A s \in Threads : s # t => HeldBy(s)' = HeldBy(s)
  BY <1>1 DEF HeldBy, At, Decrement, Goto, Base, TypeOK
<1>5. ASSUME NEW m \in Messages
      PROVE  References(m)' = IF m = Item(t) THEN References(m) - 1 ELSE References(m)
  <2>1. Copies(m)' = Copies(m)
    BY DEF Decrement, Copies
  <2>2. HoldCount(t, m) = (IF Has(holds[t], m) THEN 1 ELSE 0)
        /\ HoldCount(t, m)' = (IF Has(Tail(holds[t]), m) THEN 1 ELSE 0)
    BY <1>3 DEF HoldCount, Holds
  <2>3. Has(Tail(holds[t]), m) <=> Has(holds[t], m) /\ m # Item(t)
    <3>1. CASE holds[t] = <<"received">>
      BY <1>2, <3>1 DEF Has, Messages
    <3>2. CASE holds[t] = <<"sent">>
      BY <1>2, <3>2 DEF Has, Messages
    <3>3. CASE holds[t] = <<"sent", "received">>
      BY <1>2, <3>3 DEF Has, Messages
    <3>. QED
      BY <1>1, <1>2, <3>1, <3>2, <3>3 DEF Stacks
  <2>4. m = Item(t) => Has(holds[t], m)
    BY <1>1, ItemFacts
  <2>5. HoldCount(t, m)' = IF m = Item(t) THEN HoldCount(t, m) - 1 ELSE HoldCount(t, m)
    BY <2>2, <2>3, <2>4
  <2>6. \A s \in Threads : s # t => HoldCount(s, m)' = HoldCount(s, m)
    BY <1>4 DEF HoldCount, Holds
  <2>7. References(m) = Copies(m) + HoldCount("main", m) + HoldCount("worker", m)
    BY BaseCounted DEF Counted
  <2>8. (Base => Counted)'
    BY BaseCounted, PTL
  <2>9. References(m)' = Copies(m)' + HoldCount("main", m)' + HoldCount("worker", m)'
    BY <2>8 DEF Counted
  <2>10. Copies(m) \in Nat /\ \A s \in Threads : HoldCount(s, m) \in Nat
    BY BaseCounted DEF Counted, Copies, HoldCount
  <2>. QED
    BY <2>1, <2>5, <2>6, <2>7, <2>9, <2>10 DEF Threads
<1>. QED
  BY <1>2, <1>5

(* An increment counts the new copy. *)
LEMMA EnqueueReferences ==
    ASSUME Base, Base', EnqueueClone
    PROVE  \A m \in Messages :
              References(m)' = IF m = "sent" THEN References(m) + 1 ELSE References(m)
<1>1. PICK c \in Clients : adding = {c}
  BY DEF EnqueueClone, At, Base, Loop
<1>2. c \notin queued /\ queued' = queued \cup {c}
  BY <1>1 DEF EnqueueClone, Base, Loop
<1>3. Cardinality(queued') = Cardinality(queued) + 1
  <2>1. IsFiniteSet(queued)
    BY QueuedFinite DEF Base, TypeOK
  <2>. QED
    BY <1>2, <2>1, FS_AddElement
<1>4. \A t \in Threads : HeldBy(t)' = HeldBy(t)
  BY DEF EnqueueClone, HeldBy, At, Goto, Base, TypeOK
<1>5. ASSUME NEW m \in Messages
      PROVE  References(m)' = IF m = "sent" THEN References(m) + 1 ELSE References(m)
  <2>1. Copies(m)' = IF m = "sent" THEN Copies(m) + 1 ELSE Copies(m)
    BY <1>3 DEF Copies
  <2>2. \A t \in Threads : HoldCount(t, m)' = HoldCount(t, m)
    BY <1>4 DEF HoldCount, Holds
  <2>3. References(m) = Copies(m) + HoldCount("main", m) + HoldCount("worker", m)
    BY BaseCounted DEF Counted
  <2>4. (Base => Counted)'
    BY BaseCounted, PTL
  <2>5. References(m)' = Copies(m)' + HoldCount("main", m)' + HoldCount("worker", m)'
    BY <2>4 DEF Counted
  <2>6. Copies(m) \in Nat /\ \A t \in Threads : HoldCount(t, m) \in Nat
    BY BaseCounted DEF Counted, Copies, HoldCount
  <2>. QED
    BY <2>1, <2>2, <2>3, <2>5, <2>6 DEF Threads
<1>. QED
  BY <1>5

(* A copy that leaves its queue is in the hands of the thread that took it. *)
LEMMA TakeReferences ==
    ASSUME Base, Base', NEW c \in Clients, GetNextMessage(c) \/ ClearMessages(c)
    PROVE  \A m \in Messages : References(m)' = References(m)
<1>1. PICK t \in Threads : /\ pc[t] = "idle"
                           /\ pc' = [pc EXCEPT ![t] = "write"] \/ pc' = [pc EXCEPT ![t] = "load"]
                           /\ holds' = [holds EXCEPT ![t] = <<"sent">>]
  <2>1. CASE GetNextMessage(c)
    BY <2>1 DEF GetNextMessage, At, Goto, Threads
  <2>2. CASE ClearMessages(c)
    BY <2>2 DEF ClearMessages, At, Goto, Threads
  <2>. QED
    BY <2>1, <2>2
<1>2. c \in queued /\ queued' = queued \ {c}
  BY DEF GetNextMessage, ClearMessages
<1>3. Cardinality(queued') = Cardinality(queued) - 1
  <2>1. IsFiniteSet(queued)
    BY QueuedFinite DEF Base, TypeOK
  <2>. QED
    BY <1>2, <2>1, FS_RemoveElement
<1>4. HeldBy(t) = << >> /\ HeldBy(t)' = <<"sent">>
  <2>1. holds[t] = << >>
    BY <1>1 DEF Base, Shape, Threads
  <2>2. holds'[t] = <<"sent">> /\ pc'[t] # "test"
    BY <1>1 DEF Base, TypeOK
  <2>. QED
    BY <1>1, <2>1, <2>2 DEF HeldBy, At
<1>5. \A s \in Threads : s # t => HeldBy(s)' = HeldBy(s)
  BY <1>1 DEF HeldBy, At, Base, TypeOK
<1>6. ASSUME NEW m \in Messages PROVE References(m)' = References(m)
  <2>1. Copies(m)' = IF m = "sent" THEN Copies(m) - 1 ELSE Copies(m)
    BY <1>3 DEF Copies
  <2>2. \A s \in Threads : s # t => HoldCount(s, m)' = HoldCount(s, m)
    BY <1>5 DEF HoldCount, Holds
  <2>3. HoldCount(t, m)' = IF m = "sent" THEN HoldCount(t, m) + 1 ELSE HoldCount(t, m)
    BY <1>4 DEF HoldCount, Holds, Has, Messages
  <2>4. References(m) = Copies(m) + HoldCount("main", m) + HoldCount("worker", m)
    BY BaseCounted DEF Counted
  <2>5. (Base => Counted)'
    BY BaseCounted, PTL
  <2>6. References(m)' = Copies(m)' + HoldCount("main", m)' + HoldCount("worker", m)'
    BY <2>5 DEF Counted
  <2>7. Copies(m) \in Int /\ \A s \in Threads : HoldCount(s, m) \in Nat
    BY BaseCounted DEF Counted, Copies, HoldCount
  <2>. QED
    BY <2>1, <2>2, <2>3, <2>4, <2>6, <2>7 DEF Threads
<1>. QED
  BY <1>6

(* The message received has two references to begin with, the one to send  *)
(* one.                                                                    *)
LEMMA NothingQueued == Cardinality({}) = 0
BY FS_EmptySet

LEMMA ReceiveReferences ==
    ASSUME Base, Base', Receive
    PROVE  References("received")' = 2 /\ References("sent")' = 0
<1>1. queued' = {}
  BY DEF Receive, At, Base, Fresh, Created, Threads
<1>2. \A t \in Threads : HeldBy(t)' = <<"received">>
  BY DEF Receive, HeldBy, At, Threads
<1>3. Copies("sent")' = 0 /\ Copies("received")' = 0
  BY <1>1, NothingQueued DEF Copies
<1>4. \A t \in Threads : HoldCount(t, "received")' = 1 /\ HoldCount(t, "sent")' = 0
  BY <1>2 DEF HoldCount, Holds, Has
<1>5. (Base => Counted)'
  BY BaseCounted, PTL
<1>6. \A m \in Messages :
         References(m)' = Copies(m)' + HoldCount("main", m)' + HoldCount("worker", m)'
  BY <1>5 DEF Counted
<1>. QED
  BY <1>3, <1>4, <1>6 DEF Messages, Threads

LEMMA BeginSendReferences ==
    ASSUME Base, Base', BeginSend
    PROVE  References("received")' = References("received") /\ References("sent")' = 1
<1>1. queued = {} /\ queued' = {} /\ holds["main"] # <<"sent">>
  BY DEF BeginSend, At, Base, Fresh, Created
<1>2. HeldBy("main")' = HeldBy("main")
  BY DEF BeginSend, HeldBy, At, Goto, Base, TypeOK, Threads
<1>3. HeldBy("worker") = <<"received">> /\ HeldBy("worker")' = <<"sent", "received">>
  BY DEF BeginSend, HeldBy, At, Goto, Base, TypeOK, Shape, Threads
<1>4. HeldBy("main") = << >> \/ HeldBy("main") = <<"received">>
  <2>1. holds["main"] = << >> \/ holds["main"] = <<"received">>
    BY <1>1 DEF Base, Shape
  <2>2. holds["main"] = <<"received">> => Tail(holds["main"]) = << >>
    OBVIOUS
  <2>3. At("main", "test") => holds["main"] = <<"received">>
    BY <1>1 DEF Base, Shape, At
  <2>. QED
    BY <2>1, <2>2, <2>3 DEF HeldBy
<1>5. Copies("sent")' = 0 /\ Copies("received")' = 0 /\ Copies("received") = 0
  BY <1>1, NothingQueued DEF Copies
<1>6. /\ HoldCount("worker", "sent")' = 1
      /\ HoldCount("worker", "received")' = 1 /\ HoldCount("worker", "received") = 1
  BY <1>3 DEF HoldCount, Holds, Has
<1>7. /\ HoldCount("main", "sent")' = 0
      /\ HoldCount("main", "received")' = HoldCount("main", "received")
  BY <1>2, <1>4 DEF HoldCount, Holds, Has
<1>8. (Base => Counted)'
  BY BaseCounted, PTL
<1>9. \A m \in Messages :
         /\ References(m)' = Copies(m)' + HoldCount("main", m)' + HoldCount("worker", m)'
         /\ References(m) = Copies(m) + HoldCount("main", m) + HoldCount("worker", m)
  BY <1>8, BaseCounted DEF Counted
<1>10. HoldCount("main", "received") \in Nat
  BY DEF HoldCount
<1>. QED
  BY <1>5, <1>6, <1>7, <1>9, <1>10 DEF Messages

-----------------------------------------------------------------------------
(* What each action does to the counts.                                    *)

LEMMA CountTypes ==
    ASSUME Base
    PROVE  /\ \A m \in Messages : usage[m] \in Int /\ References(m) \in Nat
           /\ \A t \in Threads : register[t] \in Int /\ Change(t) \in {1, -1}
BY BaseCounted DEF Counted, Base, TypeOK, Change

(* A thread that refers to a message, or looks at its count again, uses it  *)
(* as DeletedEarlyOnlyByRace says.                                          *)
LEMMA UseEarly ==
    ASSUME IndInv, NEW t \in Threads, NEW m \in Messages, NEW how, Use(t, m, how),
           References(m) > 0 \/ how = "test", lost \subseteq lost'
    PROVE  DeletedEarlyOnlyByRace'
<1>1. m \in deleted => <<m, "increment">> \in lost' \/ how = "test"
  BY CountTypes DEF IndInv, Counts, DeletedUnused
<1>2. \A u \in used_deleted : <<u[2], "increment">> \in lost' \/ u[3] = "test"
  BY DEF IndInv, Counts, DeletedEarlyOnlyByRace
<1>3. \A u \in used_deleted' : u \in used_deleted \/ (m \in deleted /\ u = <<t, m, how>>)
  BY DEF Use
<1>4. <<t, m, how>>[2] = m /\ <<t, m, how>>[3] = how
  OBVIOUS
<1>. QED
  BY <1>1, <1>2, <1>3, <1>4 DEF DeletedEarlyOnlyByRace

(* A step that touches no count. *)
LEMMA QuietCounts ==
    ASSUME IndInv, UNCHANGED <<usage, deleted, lost, register, stale>>,
           \A m \in Messages : /\ References(m)' = References(m)
                               /\ Created(m)' => Created(m),
           \A t \in Threads :
              /\ \A m \in Messages : Changes(t, m)' => Changes(t, m) /\ Change(t)' = Change(t)
              /\ At(t, "test") => At(t, "test")' /\ Item(t)' = Item(t),
           DeletedEarlyOnlyByRace'
    PROVE  Counts'
<1>1. NotTooLow'
  BY DEF IndInv, Counts, NotTooLow
<1>2. NotTooHigh'
  BY DEF IndInv, Counts, NotTooHigh
<1>3. DeletedUnused'
  BY DEF IndInv, Base, TypeOK, Counts, DeletedUnused
<1>4. UnusedNoticed'
  BY DEF IndInv, Counts, UnusedNoticed
<1>. QED
  BY <1>1, <1>2, <1>3, <1>4 DEF Counts

(* A thread loads the count of the message in its hands. *)
LEMMA LoadCounts ==
    ASSUME IndInv, NEW t \in Threads, NEW change \in {1, -1},
           holds[t] # << >>, ~At(t, "test"), Load(t, Item(t), change),
           UNCHANGED <<usage, deleted, lost>>,
           \A m \in Messages : /\ References(m)' = References(m)
                               /\ Created(m)' <=> Created(m)
                               /\ Changes(t, m)' => m = Item(t),
           Change(t)' = change,
           \A s \in Threads :
              /\ At(s, "test") => At(s, "test")' /\ Item(s)' = Item(s)
              /\ s # t => Change(s)' = Change(s) /\ \A m \in Messages : Changes(s, m)' => Changes(s, m)
    PROVE  Counts'
<1>1. Item(t) \in Messages /\ References(Item(t)) > 0
  BY HolderRefers DEF IndInv
<1>2. /\ register'[t] = usage[Item(t)] + change
      /\ \A s \in Threads : s # t => register'[s] = register[s] /\ stale'[s] = stale[s]
  BY DEF Load, IndInv, Base, TypeOK
<1>3. /\ \A m \in Messages : usage[m] \in Int /\ References(m) \in Nat
      /\ \A s \in Threads : register[s] \in Int /\ Change(s) \in {1, -1}
  BY CountTypes DEF IndInv
<1>4. NotTooLow'
  <2>. SUFFICES ASSUME NEW m \in Messages, <<m, "increment">> \notin lost'
                PROVE  /\ usage'[m] >= References(m)'
                       /\ \A s \in Threads : Changes(s, m)' /\ "increment" \notin stale'[s]
                             => register'[s] >= References(m)' + Change(s)'
    BY DEF NotTooLow
  <2>1. /\ usage[m] >= References(m)
        /\ \A s \in Threads : Changes(s, m) /\ "increment" \notin stale[s]
              => register[s] >= References(m) + Change(s)
    BY DEF IndInv, Counts, NotTooLow
  <2>2. usage[Item(t)] >= References(Item(t))
           => usage[Item(t)] + change >= References(Item(t)) + change
    BY <1>1, <1>3
  <2>. QED
    BY <1>2, <2>1, <2>2
<1>5. NotTooHigh'
  <2>. SUFFICES ASSUME NEW m \in Messages, <<m, "decrement">> \notin lost'
                PROVE  /\ usage'[m] <= References(m)'
                       /\ \A s \in Threads : Changes(s, m)' /\ "decrement" \notin stale'[s]
                             => register'[s] <= References(m)' + Change(s)'
    BY DEF NotTooHigh
  <2>1. /\ usage[m] <= References(m)
        /\ \A s \in Threads : Changes(s, m) /\ "decrement" \notin stale[s]
              => register[s] <= References(m) + Change(s)
    BY DEF IndInv, Counts, NotTooHigh
  <2>2. usage[Item(t)] <= References(Item(t))
           => usage[Item(t)] + change <= References(Item(t)) + change
    BY <1>1, <1>3
  <2>. QED
    BY <1>2, <2>1, <2>2
<1>6. DeletedUnused'
  BY DEF IndInv, Base, TypeOK, Counts, DeletedUnused
<1>7. UnusedNoticed'
  BY DEF IndInv, Counts, UnusedNoticed
<1>8. DeletedEarlyOnlyByRace'
  BY <1>1, UseEarly DEF Load
<1>. QED
  BY <1>4, <1>5, <1>6, <1>7, <1>8 DEF Counts

(* It stores what it made of it. *)
LEMMA StoreCounts ==
    ASSUME IndInv, NEW t \in Threads, NEW m \in Messages, Changes(t, m),
           NEW update, update = IF Change(t) = 1 THEN "increment" ELSE "decrement",
           Store(t, m, update), UNCHANGED <<deleted, register>>,
           \A k \in Messages :
              /\ References(k)' = IF k = m THEN References(k) + Change(t) ELSE References(k)
              /\ Created(k)' <=> Created(k)
              /\ ~Changes(t, k)',
           update = "decrement" => At(t, "test")' /\ Item(t)' = m,
           \A s \in Threads :
              /\ At(s, "test") => At(s, "test")' /\ Item(s)' = Item(s)
              /\ s # t => Change(s)' = Change(s) /\ \A k \in Messages : Changes(s, k)' => Changes(s, k)
    PROVE  Counts'
<1>1. References(m) > 0
  BY HolderRefers DEF IndInv, Changes, At
<1>2. /\ usage'[m] = register[t]
      /\ \A k \in Messages : k # m => usage'[k] = usage[k]
      /\ lost \subseteq lost'
      /\ \A u \in stale[t] : <<m, u>> \in lost'
      /\ \A s \in Threads : stale[s] \subseteq stale'[s]
      /\ \A s \in Threads : s # t /\ Changes(s, m) => update \in stale'[s]
  <2>1. usage' = [usage EXCEPT ![m] = register[t]] /\ usage \in [Messages -> Int]
    BY DEF Store, IndInv, Base, TypeOK
  <2>2. \A s \in Threads : stale[s] \subseteq stale'[s]
    BY DEF Store, IndInv, Base, TypeOK
  <2>3. \A s \in Threads : s # t /\ Changes(s, m) => update \in stale'[s]
    BY DEF Store
  <2>4. lost \subseteq lost' /\ \A u \in stale[t] : <<m, u>> \in lost'
    BY DEF Store
  <2>. QED
    BY <2>1, <2>2, <2>3, <2>4
<1>3. /\ \A k \in Messages : usage[k] \in Int /\ References(k) \in Nat
      /\ \A s \in Threads : register[s] \in Int /\ Change(s) \in {1, -1}
  BY CountTypes DEF IndInv
<1>4. NotTooLow'
  <2>. SUFFICES ASSUME NEW k \in Messages, <<k, "increment">> \notin lost'
                PROVE  /\ usage'[k] >= References(k)'
                       /\ \A s \in Threads : Changes(s, k)' /\ "increment" \notin stale'[s]
                             => register[s] >= References(k)' + Change(s)'
    BY DEF NotTooLow
  <2>1. /\ usage[k] >= References(k)
        /\ \A s \in Threads : Changes(s, k) /\ "increment" \notin stale[s]
              => register[s] >= References(k) + Change(s)
    BY <1>2 DEF IndInv, Counts, NotTooLow
  <2>2. CASE k # m
    BY <1>2, <2>1, <2>2
  <2>3. CASE k = m
    <3>1. usage'[k] >= References(k)'
      BY <1>2, <2>1, <2>3
    <3>2. ASSUME NEW s \in Threads, Changes(s, k)', "increment" \notin stale'[s]
          PROVE  register[s] >= References(k)' + Change(s)'
      <4>1. s # t /\ Change(s)' = Change(s) /\ Changes(s, k)
        BY <2>3, <3>2
      <4>2. References(k)' = References(k) - 1
        BY <1>2, <1>3, <2>3, <3>2, <4>1
      <4>3. register[s] >= References(k) + Change(s)
        BY <1>2, <2>1, <3>2, <4>1
      <4>. QED
        BY <1>3, <4>1, <4>2, <4>3
    <3>. QED
      BY <3>1, <3>2
  <2>. QED
    BY <2>2, <2>3
<1>5. NotTooHigh'
  <2>. SUFFICES ASSUME NEW k \in Messages, <<k, "decrement">> \notin lost'
                PROVE  /\ usage'[k] <= References(k)'
                       /\ \A s \in Threads : Changes(s, k)' /\ "decrement" \notin stale'[s]
                             => register[s] <= References(k)' + Change(s)'
    BY DEF NotTooHigh
  <2>1. /\ usage[k] <= References(k)
        /\ \A s \in Threads : Changes(s, k) /\ "decrement" \notin stale[s]
              => register[s] <= References(k) + Change(s)
    BY <1>2 DEF IndInv, Counts, NotTooHigh
  <2>2. CASE k # m
    BY <1>2, <2>1, <2>2
  <2>3. CASE k = m
    <3>1. usage'[k] <= References(k)'
      BY <1>2, <2>1, <2>3
    <3>2. ASSUME NEW s \in Threads, Changes(s, k)', "decrement" \notin stale'[s]
          PROVE  register[s] <= References(k)' + Change(s)'
      <4>1. s # t /\ Change(s)' = Change(s) /\ Changes(s, k)
        BY <2>3, <3>2
      <4>2. References(k)' = References(k) + 1
        BY <1>2, <1>3, <2>3, <3>2, <4>1
      <4>3. register[s] <= References(k) + Change(s)
        BY <1>2, <2>1, <3>2, <4>1
      <4>. QED
        BY <1>3, <4>1, <4>2, <4>3
    <3>. QED
      BY <3>1, <3>2
  <2>. QED
    BY <2>2, <2>3
<1>6. DeletedUnused'
  BY <1>1, <1>2, <1>3 DEF IndInv, Base, TypeOK, Counts, DeletedUnused
<1>7. UnusedNoticed'
  <2>. SUFFICES ASSUME NEW k \in Messages, Created(k)', References(k)' = 0,
                       <<k, "decrement">> \notin lost', k \notin deleted'
                PROVE  \E s \in Threads : At(s, "test")' /\ Item(s)' = k
    BY DEF UnusedNoticed
  <2>1. CASE k # m
    <3>1. Created(k) /\ References(k) = 0 /\ <<k, "decrement">> \notin lost /\ k \notin deleted
      BY <1>2, <2>1
    <3>2. PICK s \in Threads : At(s, "test") /\ Item(s) = k
      BY <3>1 DEF IndInv, Counts, UnusedNoticed
    <3>. QED
      BY <3>2
  <2>2. CASE k = m
    <3>1. update = "decrement"
      BY <1>1, <1>3, <2>2
    <3>. QED
      BY <2>2, <3>1
  <2>. QED
    BY <2>1, <2>2
<1>8. DeletedEarlyOnlyByRace'
  BY <1>1, <1>2, UseEarly DEF Store
<1>. QED
  BY <1>4, <1>5, <1>6, <1>7, <1>8 DEF Counts

-----------------------------------------------------------------------------
(* The actions, one by one.                                                *)

LEMMA BeginDereferenceCounts ==
    ASSUME IndInv, Base', NEW t \in Threads, BeginDereference(t)
    PROVE  Counts'
<1>1. pc[t] = "load" /\ pc' = [pc EXCEPT ![t] = "store"] /\ holds' = holds
  BY DEF BeginDereference, At, Goto
<1>2. pc'[t] = "store" /\ \A s \in Threads : s # t => pc'[s] = pc[s]
  BY <1>1 DEF IndInv, Base, TypeOK
<1>3. holds[t] # << >>
  BY <1>1 DEF IndInv, Base, Shape, Threads
<1>4. \A m \in Messages : References(m)' = References(m)
  <2>1. \A s \in Threads : HeldBy(s)' = HeldBy(s)
    BY <1>1, <1>2 DEF HeldBy, At
  <2>. QED
    BY <2>1, SameReferences DEF BeginDereference
<1>5. \A m \in Messages : Created(m)' <=> Created(m)
  BY <1>1, <1>2 DEF Created, Threads
<1>6. \A m \in Messages : Changes(t, m)' => m = Item(t)
  BY <1>1 DEF Changes, Item
<1>7. Change(t)' = -1
  BY <1>2 DEF Change
<1>8. \A s \in Threads :
         /\ At(s, "test") => At(s, "test")' /\ Item(s)' = Item(s)
         /\ s # t => Change(s)' = Change(s) /\ \A m \in Messages : Changes(s, m)' => Changes(s, m)
  BY <1>1, <1>2 DEF At, Item, Change, Changes
<1>9. Load(t, Item(t), -1) /\ UNCHANGED <<usage, deleted, lost>> /\ ~At(t, "test")
  BY <1>1 DEF BeginDereference, At
<1>. QED
  BY <1>3, <1>4, <1>5, <1>6, <1>7, <1>8, <1>9, LoadCounts

LEMMA BeginCloneCounts ==
    ASSUME IndInv, Base', NEW c \in Clients, BeginClone(c)
    PROVE  Counts'
<1>1. pc["worker"] = "loop" /\ pc' = [pc EXCEPT !["worker"] = "clone"] /\ holds' = holds
  BY DEF BeginClone, At, Goto
<1>2. pc'["worker"] = "clone" /\ pc'["main"] = pc["main"]
  BY <1>1 DEF IndInv, Base, TypeOK, Threads
<1>3. holds["worker"] # << >> /\ Item("worker") = "sent"
  BY <1>1 DEF IndInv, Base, Shape, Item
<1>4. \A m \in Messages : References(m)' = References(m)
  <2>1. \A s \in Threads : HeldBy(s)' = HeldBy(s)
    BY <1>1, <1>2 DEF HeldBy, At, Threads
  <2>. QED
    BY <2>1, SameReferences DEF BeginClone
<1>5. \A m \in Messages : Created(m)' <=> Created(m)
  BY <1>1, <1>2 DEF Created
<1>6. \A m \in Messages : Changes("worker", m)' => m = Item("worker")
  BY <1>1 DEF Changes, Item
<1>7. Change("worker")' = 1
  BY <1>2 DEF Change
<1>8. \A s \in Threads :
         /\ At(s, "test") => At(s, "test")' /\ Item(s)' = Item(s)
         /\ s # "worker" => Change(s)' = Change(s) /\ \A m \in Messages : Changes(s, m)' => Changes(s, m)
  BY <1>1, <1>2 DEF At, Item, Change, Changes, Threads
<1>9. /\ Load("worker", Item("worker"), 1) /\ UNCHANGED <<usage, deleted, lost>>
      /\ ~At("worker", "test") /\ "worker" \in Threads
  BY <1>1, <1>3 DEF BeginClone, At, Threads
<1>. QED
  BY <1>3, <1>4, <1>5, <1>6, <1>7, <1>8, <1>9, LoadCounts

LEMMA DecrementCounts ==
    ASSUME IndInv, Base', NEW t \in Threads, Decrement(t)
    PROVE  Counts'
<1>1. pc[t] = "store" /\ pc' = [pc EXCEPT ![t] = "test"] /\ holds' = holds
  BY DEF Decrement, At, Goto
<1>2. pc'[t] = "test" /\ \A s \in Threads : s # t => pc'[s] = pc[s]
  BY <1>1 DEF IndInv, Base, TypeOK
<1>3. holds[t] # << >>
  BY <1>1 DEF IndInv, Base, Shape, Threads
<1>4. Change(t) = -1
  BY <1>1 DEF Change
<1>5. /\ Item(t) \in Messages
      /\ \A m \in Messages :
            References(m)' = IF m = Item(t) THEN References(m) - 1 ELSE References(m)
  BY DecrementReferences DEF IndInv
<1>6. \A m \in Messages : References(m) - 1 = References(m) + Change(t)
  BY <1>4, CountTypes DEF IndInv
<1>7. \A m \in Messages : (Created(m)' <=> Created(m)) /\ ~Changes(t, m)'
  BY <1>1, <1>2 DEF Created, Changes, At, Threads
<1>8. Changes(t, Item(t)) /\ At(t, "test")' /\ Item(t)' = Item(t)
  BY <1>1, <1>2, <1>3 DEF Changes, At, Item
<1>9. \A s \in Threads :
         /\ At(s, "test") => At(s, "test")' /\ Item(s)' = Item(s)
         /\ s # t => Change(s)' = Change(s) /\ \A m \in Messages : Changes(s, m)' => Changes(s, m)
  BY <1>1, <1>2 DEF At, Item, Change, Changes
<1>10. /\ Store(t, Item(t), "decrement") /\ UNCHANGED <<deleted, register>>
       /\ "decrement" = IF Change(t) = 1 THEN "increment" ELSE "decrement"
  BY <1>4 DEF Decrement
<1>. QED
  BY <1>5, <1>6, <1>7, <1>8, <1>9, <1>10, StoreCounts

LEMMA EnqueueCloneCounts ==
    ASSUME IndInv, Base', EnqueueClone
    PROVE  Counts'
<1>1. pc["worker"] = "clone" /\ pc' = [pc EXCEPT !["worker"] = "loop"] /\ holds' = holds
  BY DEF EnqueueClone, At, Goto
<1>2. pc'["worker"] = "loop" /\ pc'["main"] = pc["main"]
  BY <1>1 DEF IndInv, Base, TypeOK, Threads
<1>3. holds["worker"] # << >> /\ Item("worker") = "sent"
  BY <1>1 DEF IndInv, Base, Shape, Item
<1>4. Change("worker") = 1
  BY <1>1 DEF Change
<1>5. \A m \in Messages :
         References(m)' = IF m = "sent" THEN References(m) + Change("worker") ELSE References(m)
  BY <1>4, EnqueueReferences DEF IndInv
<1>6. \A m \in Messages : (Created(m)' <=> Created(m)) /\ ~Changes("worker", m)'
  BY <1>1, <1>2 DEF Created, Changes, At
<1>7. Changes("worker", "sent")
  BY <1>1, <1>3 DEF Changes, At
<1>8. \A s \in Threads :
         /\ At(s, "test") => At(s, "test")' /\ Item(s)' = Item(s)
         /\ s # "worker" => Change(s)' = Change(s) /\ \A m \in Messages : Changes(s, m)' => Changes(s, m)
  BY <1>1, <1>2 DEF At, Item, Change, Changes, Threads
<1>9. /\ Store("worker", "sent", "increment") /\ UNCHANGED <<deleted, register>>
      /\ "increment" = (IF Change("worker") = 1 THEN "increment" ELSE "decrement")
      /\ "increment" # "decrement"
      /\ "worker" \in Threads /\ "sent" \in Messages
  BY <1>4 DEF EnqueueClone, Threads, Messages
<1>. QED
  BY <1>5, <1>6, <1>7, <1>8, <1>9, StoreCounts

LEMMA DereferencedCounts ==
    ASSUME IndInv, Base', NEW t \in Threads, Dereferenced(t)
    PROVE  Counts'
<1>1. /\ pc[t] = "test"
      /\ pc' = [pc EXCEPT ![t] = IF Tail(holds[t]) = << >> THEN "idle" ELSE "load"]
      /\ holds' = [holds EXCEPT ![t] = Tail(holds[t])]
      /\ deleted' = IF usage[Item(t)] <= 0 THEN deleted \cup {Item(t)} ELSE deleted
      /\ UNCHANGED <<usage, queued, register, stale, lost>>
  BY DEF Dereferenced, At, Goto, Unused
<1>2. /\ pc'[t] \in {"idle", "load"} /\ holds'[t] = Tail(holds[t])
      /\ \A s \in Threads : s # t => pc'[s] = pc[s] /\ holds'[s] = holds[s]
  BY <1>1 DEF IndInv, Base, TypeOK
<1>3. holds[t] # << >>
  BY <1>1 DEF IndInv, Base, Shape, Threads
<1>4. Item(t) \in Messages
  BY <1>3, ItemFacts DEF IndInv
<1>5. \A m \in Messages : References(m)' = References(m)
  <2>1. \A s \in Threads : HeldBy(s)' = HeldBy(s)
    BY <1>1, <1>2 DEF HeldBy, At
  <2>. QED
    BY <1>1, <2>1, SameReferences
<1>6. \A m \in Messages : Created(m)' <=> Created(m)
  BY <1>1, <1>2 DEF Created, Threads
<1>7. \A s \in Threads : \A m \in Messages :
         Changes(s, m)' => Changes(s, m) /\ Change(s)' = Change(s)
  BY <1>1, <1>2 DEF Changes, Change, At, Item
<1>8. \A s \in Threads : s # t /\ At(s, "test") => At(s, "test")' /\ Item(s)' = Item(s)
  BY <1>1, <1>2 DEF At, Item
<1>9. \A m \in Messages : usage[m] \in Int /\ References(m) \in Nat
  BY CountTypes DEF IndInv
<1>10. NotTooLow'
  BY <1>1, <1>5, <1>7 DEF IndInv, Counts, NotTooLow
<1>11. NotTooHigh'
  BY <1>1, <1>5, <1>7 DEF IndInv, Counts, NotTooHigh
<1>12. DeletedUnused'
  <2>. SUFFICES ASSUME NEW m \in deleted', <<m, "increment">> \notin lost
                PROVE  References(m)' = 0
    BY <1>1 DEF DeletedUnused
  <2>1. CASE m \in deleted
    BY <1>5, <2>1 DEF IndInv, Base, TypeOK, Counts, DeletedUnused
  <2>2. CASE m \notin deleted
    <3>1. m = Item(t) /\ usage[m] <= 0
      BY <1>1, <2>2
    <3>2. usage[m] >= References(m)
      BY <1>4, <3>1 DEF IndInv, Counts, NotTooLow
    <3>. QED
      BY <1>4, <1>5, <1>9, <3>1, <3>2
  <2>. QED
    BY <2>1, <2>2
<1>13. UnusedNoticed'
  <2>. SUFFICES ASSUME NEW m \in Messages, Created(m)', References(m)' = 0,
                       <<m, "decrement">> \notin lost', m \notin deleted'
                PROVE  \E s \in Threads : At(s, "test")' /\ Item(s)' = m
    BY DEF UnusedNoticed
  <2>1. Created(m) /\ References(m) = 0 /\ <<m, "decrement">> \notin lost /\ m \notin deleted
    BY <1>1, <1>5, <1>6
  <2>2. PICK s \in Threads : At(s, "test") /\ Item(s) = m
    BY <2>1 DEF IndInv, Counts, UnusedNoticed
  <2>3. usage[m] <= 0
    BY <2>1 DEF IndInv, Counts, NotTooHigh
  <2>4. s # t
    BY <1>1, <2>2, <2>3
  <2>. QED
    BY <1>8, <2>2, <2>4
<1>14. DeletedEarlyOnlyByRace'
  BY <1>1, <1>4, UseEarly DEF Dereferenced
<1>. QED
  BY <1>10, <1>11, <1>12, <1>13, <1>14 DEF Counts

LEMMA ReceiveCounts ==
    ASSUME IndInv, Base', Receive
    PROVE  Counts'
<1>1. /\ pc["main"] = "receive" /\ pc["worker"] = "wait"
      /\ pc'["main"] = "load" /\ pc'["worker"] = "task"
      /\ UNCHANGED <<deleted, register, stale, lost, used_deleted>>
  BY DEF Receive, At, IndInv, Base, Fresh
<1>2. usage'["received"] = 2 /\ usage'["sent"] = 0
  <2>1. usage' = [usage EXCEPT !["received"] = 2] /\ usage \in [Messages -> Int]
    BY DEF Receive, IndInv, Base, TypeOK
  <2>2. usage["sent"] = 0
    BY <1>1 DEF IndInv, Base, Fresh, Created, Messages
  <2>. QED
    BY <2>1, <2>2 DEF Messages
<1>3. References("received")' = 2 /\ References("sent")' = 0
  BY ReceiveReferences DEF IndInv
<1>4. \A t \in Threads : \A m \in Messages : ~Changes(t, m)'
  BY <1>1 DEF Changes, At, Threads
<1>5. deleted' = {}
  <2>1. \A m \in Messages : ~Created(m)
    BY <1>1 DEF Created
  <2>2. deleted \subseteq Messages /\ \A m \in Messages : m \notin deleted
    BY <2>1 DEF IndInv, Base, TypeOK, Fresh
  <2>. QED
    BY <1>1, <2>2
<1>6. ~Created("sent")'
  BY <1>1 DEF Created
<1>7. NotTooLow' /\ NotTooHigh'
  BY <1>2, <1>3, <1>4 DEF NotTooLow, NotTooHigh, Messages
<1>8. DeletedUnused'
  BY <1>5 DEF DeletedUnused
<1>9. UnusedNoticed'
  BY <1>3, <1>6 DEF UnusedNoticed, Messages
<1>10. DeletedEarlyOnlyByRace'
  BY <1>1 DEF IndInv, Counts, DeletedEarlyOnlyByRace
<1>. QED
  BY <1>7, <1>8, <1>9, <1>10 DEF Counts

LEMMA BeginSendCounts ==
    ASSUME IndInv, Base', BeginSend
    PROVE  Counts'
<1>1. /\ pc["worker"] = "task" /\ pc' = [pc EXCEPT !["worker"] = "loop"]
      /\ holds' = [holds EXCEPT !["worker"] = <<"sent", "received">>]
      /\ UNCHANGED <<deleted, register, stale, lost>>
  BY DEF BeginSend, At, Goto
<1>2. /\ pc'["worker"] = "loop" /\ pc'["main"] = pc["main"] /\ pc["main"] # "receive"
      /\ holds'["main"] = holds["main"]
  BY <1>1 DEF IndInv, Base, Fresh, TypeOK, Threads
<1>3. usage'["sent"] = 1 /\ usage'["received"] = usage["received"]
  <2>1. usage' = [usage EXCEPT !["sent"] = 1] /\ usage \in [Messages -> Int]
    BY DEF BeginSend, IndInv, Base, TypeOK
  <2>. QED
    BY <2>1 DEF Messages
<1>4. References("received")' = References("received") /\ References("sent")' = 1
  BY BeginSendReferences DEF IndInv
<1>5. "sent" \notin deleted /\ holds["main"] # <<"sent">>
  BY <1>1 DEF IndInv, Base, Fresh, Created, Messages
<1>6. \A m \in Messages : Changes("main", m) => m = "received"
  <2>1. holds["main"] # << >> => holds["main"] = <<"received">>
    BY <1>5 DEF IndInv, Base, Shape
  <2>2. holds["main"] # << >> => Item("main") = "received"
    BY <2>1 DEF Item
  <2>. QED
    BY <2>2 DEF Changes
<1>7. \A t \in Threads : \A m \in Messages :
         Changes(t, m)' => t = "main" /\ m = "received" /\ Changes(t, m) /\ Change(t)' = Change(t)
  BY <1>2, <1>6 DEF Changes, Change, At, Item, Threads
<1>8. NotTooLow'
  BY <1>1, <1>3, <1>4, <1>7 DEF IndInv, Counts, NotTooLow, Messages
<1>9. NotTooHigh'
  BY <1>1, <1>3, <1>4, <1>7 DEF IndInv, Counts, NotTooHigh, Messages
<1>10. DeletedUnused'
  BY <1>1, <1>4, <1>5 DEF IndInv, Base, TypeOK, Counts, DeletedUnused, Messages
<1>11. UnusedNoticed'
  <2>. SUFFICES ASSUME NEW m \in Messages, References(m)' = 0,
                       <<m, "decrement">> \notin lost', m \notin deleted'
                PROVE  \E t \in Threads : At(t, "test")' /\ Item(t)' = m
    BY DEF UnusedNoticed
  <2>1. m = "received"
    BY <1>4 DEF Messages
  <2>2. Created(m) /\ References(m) = 0 /\ <<m, "decrement">> \notin lost /\ m \notin deleted
    BY <1>1, <1>2, <1>4, <2>1 DEF Created
  <2>3. PICK t \in Threads : At(t, "test") /\ Item(t) = m
    BY <2>2 DEF IndInv, Counts, UnusedNoticed
  <2>4. t = "main"
    BY <1>1, <2>3 DEF At, Threads
  <2>. QED
    BY <1>2, <2>3, <2>4 DEF At, Item
<1>12. DeletedEarlyOnlyByRace'
  <2>1. holds["worker"] = <<"received">> /\ ~At("worker", "test")
    BY <1>1 DEF IndInv, Base, Shape, At
  <2>2. holds["worker"] # << >> /\ Item("worker") = "received"
    BY <2>1 DEF Item
  <2>3. References("received") > 0
    BY <2>1, <2>2, HolderRefers DEF IndInv, Threads
  <2>4. /\ Use("worker", "received", "content") /\ "worker" \in Threads
        /\ "received" \in Messages /\ lost \subseteq lost'
    BY <1>1 DEF BeginSend, Threads, Messages
  <2>. QED
    BY <2>3, <2>4, UseEarly
<1>. QED
  BY <1>8, <1>9, <1>10, <1>11, <1>12 DEF Counts

(* The loop moves on, a callback writes, a connection closes.              *)
LEMMA MoveCounts ==
    ASSUME IndInv, Base', EndSend \/ Write \/ \E c \in Clients : Skip(c) \/ Close(c)
    PROVE  Counts'
<1>1. /\ UNCHANGED <<usage, deleted, queued, holds, register, stale, lost>>
      /\ \/ pc' = pc
         \/ pc["worker"] = "loop" /\ pc' = [pc EXCEPT !["worker"] = "load"]
         \/ pc["main"] = "write" /\ pc' = [pc EXCEPT !["main"] = "load"]
  <2>1. CASE EndSend
    BY <2>1 DEF EndSend, At, Goto
  <2>2. CASE Write
    BY <2>2 DEF Write, At, Goto
  <2>3. CASE \E c \in Clients : Skip(c) \/ Close(c)
    BY <2>3 DEF Skip, Close, thread_vars
  <2>. QED
    BY <2>1, <2>2, <2>3
<1>2. \A t \in Threads :
         \/ pc'[t] = pc[t]
         \/ pc[t] \in {"loop", "write"} /\ pc'[t] = "load"
  BY <1>1 DEF IndInv, Base, TypeOK
<1>3. \A m \in Messages : References(m)' = References(m)
  <2>1. \A t \in Threads : HeldBy(t)' = HeldBy(t)
    BY <1>1, <1>2 DEF HeldBy, At
  <2>. QED
    BY <1>1, <2>1, SameReferences
<1>4. \A m \in Messages : Created(m)' => Created(m)
  BY <1>2 DEF Created, Threads
<1>5. \A t \in Threads :
         /\ \A m \in Messages : Changes(t, m)' => Changes(t, m) /\ Change(t)' = Change(t)
         /\ At(t, "test") => At(t, "test")' /\ Item(t)' = Item(t)
  BY <1>1, <1>2 DEF Changes, Change, At, Item
<1>6. DeletedEarlyOnlyByRace'
  <2>1. CASE Write
    <3>1. holds["main"] = <<"sent">> /\ ~At("main", "test")
      BY <2>1 DEF Write, IndInv, Base, Shape, At
    <3>2. holds["main"] # << >> /\ Item("main") = "sent"
      BY <3>1 DEF Item
    <3>3. References("sent") > 0
      BY <3>1, <3>2, HolderRefers DEF IndInv, Threads
    <3>4. /\ Use("main", "sent", "content") /\ "main" \in Threads
          /\ "sent" \in Messages /\ lost \subseteq lost'
      BY <2>1 DEF Write, Threads, Messages
    <3>. QED
      BY <3>3, <3>4, UseEarly
  <2>2. CASE used_deleted' = used_deleted
    BY <1>1, <2>2 DEF IndInv, Counts, DeletedEarlyOnlyByRace
  <2>. QED
    BY <2>1, <2>2 DEF EndSend, Skip, Close
<1>. QED
  BY <1>1, <1>3, <1>4, <1>5, <1>6, QuietCounts

LEMMA TakeCounts ==
    ASSUME IndInv, Base', NEW c \in Clients, GetNextMessage(c) \/ ClearMessages(c)
    PROVE  Counts'
<1>1. PICK t \in Threads : /\ pc[t] = "idle"
                           /\ pc' = [pc EXCEPT ![t] = "write"] \/ pc' = [pc EXCEPT ![t] = "load"]
                           /\ holds' = [holds EXCEPT ![t] = <<"sent">>]
  <2>1. CASE GetNextMessage(c)
    BY <2>1 DEF GetNextMessage, At, Goto, Threads
  <2>2. CASE ClearMessages(c)
    BY <2>2 DEF ClearMessages, At, Goto, Threads
  <2>. QED
    BY <2>1, <2>2
<1>2. /\ pc'[t] \in {"write", "load"}
      /\ \A s \in Threads : s # t => pc'[s] = pc[s] /\ holds'[s] = holds[s]
  BY <1>1 DEF IndInv, Base, TypeOK
<1>3. UNCHANGED <<usage, deleted, register, stale, lost, used_deleted>>
  BY DEF GetNextMessage, ClearMessages
<1>4. \A m \in Messages : References(m)' = References(m)
  BY TakeReferences DEF IndInv
<1>5. \A m \in Messages : Created(m)' => Created(m)
  BY <1>1, <1>2 DEF Created, Threads
<1>6. \A s \in Threads :
         /\ \A m \in Messages : Changes(s, m)' => Changes(s, m) /\ Change(s)' = Change(s)
         /\ At(s, "test") => At(s, "test")' /\ Item(s)' = Item(s)
  BY <1>1, <1>2 DEF Changes, Change, At, Item
<1>7. DeletedEarlyOnlyByRace'
  BY <1>3 DEF IndInv, Counts, DeletedEarlyOnlyByRace
<1>. QED
  BY <1>3, <1>4, <1>5, <1>6, <1>7, QuietCounts

-----------------------------------------------------------------------------
LEMMA InitCounts == Init => Counts
<1>. SUFFICES ASSUME Init PROVE Counts
  OBVIOUS
<1>1. Base /\ queued = {}
  BY InitBase DEF Init
<1>2. \A t \in Threads : HeldBy(t) = << >>
  BY DEF Init, HeldBy, At
<1>3. \A m \in Messages : References(m) = 0
  <2>1. \A m \in Messages : Copies(m) = 0
    BY <1>1, NothingQueued DEF Copies
  <2>2. \A t \in Threads, m \in Messages : HoldCount(t, m) = 0
    BY <1>2 DEF HoldCount, Holds, Has
  <2>. QED
    BY <1>1, <2>1, <2>2, BaseCounted DEF Counted, Threads
<1>4. \A m \in Messages : usage[m] = 0 /\ ~Created(m)
  BY DEF Init, Created, Messages, Threads
<1>5. \A t \in Threads, m \in Messages : ~Changes(t, m)
  BY DEF Init, Changes
<1>6. NotTooLow /\ NotTooHigh
  BY <1>3, <1>4, <1>5 DEF NotTooLow, NotTooHigh
<1>7. DeletedUnused /\ UnusedNoticed
  BY <1>4 DEF Init, DeletedUnused, UnusedNoticed
<1>8. DeletedEarlyOnlyByRace
  BY DEF Init, DeletedEarlyOnlyByRace
<1>. QED
  BY <1>6, <1>7, <1>8 DEF Counts

LEMMA StutterCounts == ASSUME IndInv, UNCHANGED vars PROVE Counts'
<1>. USE DEF vars, thread_vars
<1>1. \A t \in Threads : /\ HeldBy(t)' = HeldBy(t) /\ Change(t)' = Change(t)
                         /\ At(t, "test") => At(t, "test")' /\ Item(t)' = Item(t)
                         /\ \A m \in Messages : Changes(t, m)' => Changes(t, m)
  BY DEF HeldBy, Change, Changes, At, Item
<1>2. \A m \in Messages : References(m)' = References(m) /\ (Created(m)' => Created(m))
  BY <1>1, SameReferences DEF Created
<1>3. DeletedEarlyOnlyByRace'
  BY DEF IndInv, Counts, DeletedEarlyOnlyByRace
<1>. QED
  BY <1>1, <1>2, <1>3, QuietCounts

LEMMA StepInd == IndInv /\ [Next]_vars => IndInv'
<1>. SUFFICES ASSUME IndInv, [Next]_vars PROVE IndInv'
  OBVIOUS
<1>1. Base'
  BY StepBase DEF IndInv
<1>2. CASE UNCHANGED vars
  BY <1>1, <1>2, StutterCounts DEF IndInv
<1>3. CASE Step
  <2>1. CASE Receive \/ BeginSend \/ EnqueueClone \/ EndSend \/ Write
    BY <1>1, <2>1, ReceiveCounts, BeginSendCounts, EnqueueCloneCounts, MoveCounts DEF IndInv
  <2>2. ASSUME NEW t \in Threads, BeginDereference(t) \/ Decrement(t) \/ Dereferenced(t)
        PROVE  IndInv'
    BY <1>1, <2>2, BeginDereferenceCounts, DecrementCounts, DereferencedCounts DEF IndInv
  <2>3. ASSUME NEW c \in Clients, \/ Skip(c) \/ BeginClone(c)
                                  \/ GetNextMessage(c) \/ Close(c) \/ ClearMessages(c)
        PROVE  IndInv'
    BY <1>1, <2>3, MoveCounts, BeginCloneCounts, TakeCounts DEF IndInv
  <2>. QED
    BY <1>3, <2>1, <2>2, <2>3 DEF Step
<1>. QED
  BY <1>2, <1>3 DEF Next

LEMMA Invariance == Spec => []IndInv
<1>1. Init => IndInv
  BY InitBase, InitCounts DEF IndInv
<1>. QED
  BY <1>1, StepInd, PTL DEF Spec

(* Clone and dereference are paired on every path, whatever the two        *)
(* threads do between their loads and stores: as long as no update of a    *)
(* count was overwritten, the count is the number of references            *)
(* (message.cpp:77).                                                       *)
THEOREM UsageCountsReferences == Spec => []UsageIsReferences
<1>1. IndInv => UsageIsReferences
  <2>. SUFFICES ASSUME IndInv, NEW m \in Messages,
                       {m} \X {"increment", "decrement"} \cap lost = {}
                PROVE  usage[m] = References(m)
    BY DEF UsageIsReferences
  <2>1. <<m, "increment">> \notin lost /\ <<m, "decrement">> \notin lost
    OBVIOUS
  <2>2. usage[m] >= References(m) /\ usage[m] <= References(m)
    BY <2>1 DEF IndInv, Counts, NotTooLow, NotTooHigh
  <2>. QED
    BY <2>2, CountTypes DEF IndInv
<1>. QED
  BY <1>1, Invariance, PTL

(* A message is used after its deletion only if an increment was           *)
(* overwritten, or both threads found its count zero after both had        *)
(* counted down (message.cpp:85).                                          *)
THEOREM DeletedEarlyByRaceAlone == Spec => []DeletedEarlyOnlyByRace
<1>1. IndInv => DeletedEarlyOnlyByRace
  BY DEF IndInv, Counts
<1>. QED
  BY <1>1, Invariance, PTL

(* A message nobody refers to any more is deleted, unless a decrement was  *)
(* overwritten (message.cpp:85).                                           *)
THEOREM LeakedByLostDecrementAlone == Spec => []LeakedOnlyByLostDecrement
<1>1. IndInv => LeakedOnlyByLostDecrement
  <2>. SUFFICES ASSUME IndInv, NEW m \in Messages,
                       At("main", "idle"), At("worker", "idle"), References(m) = 0
                PROVE  m \in deleted \/ <<m, "decrement">> \in lost
    BY DEF LeakedOnlyByLostDecrement
  <2>1. Created(m)
    BY DEF Created, At
  <2>2. \A t \in Threads : ~At(t, "test")
    BY DEF At, Threads
  <2>. QED
    BY <2>1, <2>2 DEF IndInv, Counts, UnusedNoticed
<1>. QED
  BY <1>1, Invariance, PTL
=============================================================================
