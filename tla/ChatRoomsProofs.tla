--------------------------- MODULE ChatRoomsProofs ---------------------------
(***************************************************************************)
(* Theorems about ChatRooms and ChatPages, for any set of connections and  *)
(* any number of rooms and queued messages: first that every variable      *)
(* keeps its type; then, while no list outgrows BIGLIST_SIZE, that         *)
(* ChatRooms!IndInv is inductive, from which the invariants about          *)
(* membership follow; at last, on top of it, that ChatPages!PageInv is     *)
(* inductive, from which what the pages show follows.  The last part is    *)
(* about BigList, for nodes of any size, however many, and any items: the  *)
(* operations on the lists of the rooms are those of biglist.h.            *)
(***************************************************************************)
EXTENDS ChatPages, BigList, FiniteSetTheorems, SequenceTheorems, TLAPS

-----------------------------------------------------------------------------
(* Facts about the list operations of BigListOps.                          *)

(* Every operation of biglist.h turns a list over S into a list over S. *)
LEMMA ListTypes ==
    ASSUME NEW S, NEW list \in Lists(S), NEW x \in S
    PROVE  /\ EmptyList(S) \in Lists(S)
           /\ Add(list, x) \in Lists(S)
           /\ Remove(list, x) \in Lists(S)
           /\ ClearRow(list, x) \in Lists(S)
  BY DEF Lists, EmptyList, Add, Remove, ClearRow, Found

(* An empty list is flat and has no members. *)
LEMMA EmptyIsFlat ==
    ASSUME NEW S
    PROVE  /\ EmptyList(S) \in Lists(S)
           /\ Flat(EmptyList(S))
           /\ EmptyList(S).head = {}
  BY DEF Lists, EmptyList, Flat

(* The iterator over a flat list visits its first node alone. *)
LEMMA FlatMembers ==
    ASSUME NEW S, NEW list \in Lists(S), Flat(list)
    PROVE  Members(list) = list.head
  BY DEF Lists, Flat, Members

(* On a flat list remove and clearing a row take the item away and nothing *)
(* else.                                                                   *)
LEMMA FlatRemove ==
    ASSUME NEW S, NEW list \in Lists(S), NEW x, Flat(list)
    PROVE  /\ Remove(list, x) \in Lists(S)
           /\ Flat(Remove(list, x))
           /\ Remove(list, x).head = list.head \ {x}
           /\ x \in S => ClearRow(list, x) = Remove(list, x)
  BY DEF Lists, Flat, Remove, ClearRow, Found

(* A set of at most BIGLIST_SIZE items fits the first node: a flat list    *)
(* over such a set stays flat, and add puts the item into the first node.  *)
LEMMA FlatAdd ==
    ASSUME NEW S, IsFiniteSet(S), Cardinality(S) <= BIGLIST_SIZE,
           NEW list \in Lists(S), NEW x \in S, Flat(list)
    PROVE  /\ Add(list, x) \in Lists(S)
           /\ Flat(Add(list, x))
           /\ Add(list, x).head = list.head \cup {x}
<1>1. CASE Found(list, x)
  BY <1>1 DEF Lists, Flat, Add, Found
<1>2. CASE ~Found(list, x)
  <2>1. list.head \subseteq S \ {x}
    BY <1>2 DEF Lists, Found
  <2>2. /\ IsFiniteSet(S \ {x})
        /\ Cardinality(S \ {x}) = Cardinality(S) - 1
    BY FS_RemoveElement
  <2>3. Cardinality(list.head) <= Cardinality(S \ {x})
    BY <2>1, <2>2, FS_Subset
  <2>4. /\ Cardinality(list.head) \in Nat
        /\ Cardinality(S) \in Nat
    BY <2>1, <2>2, FS_Subset, FS_CardinalityType
  <2>5. Cardinality(list.head) < BIGLIST_SIZE
    BY <2>2, <2>3, <2>4, BigListAssumption
  <2>6. Add(list, x) = [list EXCEPT !.head = @ \cup {x}]
    BY <1>2, <2>5 DEF Add
  <2>. QED
    BY <2>6 DEF Lists, Flat
<1>. QED
  BY <1>1, <1>2

-----------------------------------------------------------------------------
(* Type correctness.                                                       *)

(* Leaving the rooms in R keeps the types of what it changes. *)
LEMMA LeaveTypes ==
    ASSUME TypeOK, NEW c \in Clients, NEW R \in SUBSET RoomIds
    PROVE  /\ ClientsWithout(c, R) \in [RoomIds -> Lists(Clients)]
           /\ NumberWithout(c, R) \in [RoomIds -> Int]
           /\ ChatRoomsWithout(Unused(c, R)) \in Lists(RoomIds)
<1>1. ClientsWithout(c, R) \in [RoomIds -> Lists(Clients)]
  BY ListTypes DEF TypeOK, ClientsWithout
<1>2. NumberWithout(c, R) \in [RoomIds -> Int]
  BY DEF TypeOK, NumberWithout
<1>3. ChatRoomsWithout(Unused(c, R)) \in Lists(RoomIds)
  BY DEF TypeOK, ChatRoomsWithout, Lists
<1>. QED
  BY <1>1, <1>2, <1>3

(* The rooms a client is in, as the iterator visits them, are room ids. *)
LEMMA RoomsOfClient ==
    ASSUME TypeOK, NEW c \in Clients
    PROVE  Members(rooms[c]) \in SUBSET RoomIds
  BY DEF TypeOK, Members, Lists

LEMMA ExitTypes ==
    ASSUME TypeOK, NEW c \in Clients, ExitAllChatRooms(c)
    PROVE  /\ clients' \in [RoomIds -> Lists(Clients)]
           /\ number_of_clients' \in [RoomIds -> Int]
           /\ chatrooms' \in Lists(RoomIds)
           /\ rooms' \in [Clients -> Lists(RoomIds)]
           /\ heap' \subseteq RoomIds
           /\ next_chatroomid' \in 1 .. MaxRooms + 1
           /\ delete_if_unused' \in [RoomIds -> BOOLEAN]
<1>1. rooms' \in [Clients -> Lists(RoomIds)]
  BY EmptyIsFlat DEF TypeOK, ExitAllChatRooms, NoRooms
<1>2. heap' \subseteq RoomIds
  BY DEF TypeOK, ExitAllChatRooms
<1>. QED
  BY <1>1, <1>2, LeaveTypes, RoomsOfClient DEF TypeOK, ExitAllChatRooms

(* A queue keeps its type when a task is added and when one is taken. *)
LEMMA TaskTypes ==
    ASSUME TypeOK, NEW c \in Clients,
           NEW type \in {"received_message", "close_connection"}
    PROVE  LET Tasks == [type : {"received_message", "close_connection"}, client : Clients]
           IN  /\ Append(chatroom_tasks, Task(type, c)) \in Seq(Tasks)
               /\ chatroom_tasks # << >> => Tail(chatroom_tasks) \in Seq(Tasks)
  BY DEF TypeOK, Task

LEMMA InitType == Init => TypeOK
<1>. SUFFICES ASSUME Init PROVE TypeOK
  OBVIOUS
<1>1. /\ NoRooms \in Lists(RoomIds)
      /\ NoClients \in Lists(Clients)
  BY EmptyIsFlat DEF NoRooms, NoClients
<1>2. next_chatroomid \in 1 .. MaxRooms + 1
  BY ChatRoomsAssumption DEF Init
<1>. QED
  BY <1>1, <1>2 DEF Init, TypeOK

LEMMA StepType == TypeOK /\ [Next]_vars => TypeOK'
<1>. SUFFICES ASSUME TypeOK, [Next]_vars PROVE TypeOK'
  OBVIOUS
<1>. USE DEF client_vars, server_vars, room_vars
<1>1. ASSUME NEW c \in Clients, Established(c) PROVE TypeOK'
  <2>1. chatclients' \in Lists(Clients)
    BY <1>1, ListTypes DEF TypeOK, Established
  <2>. QED
    BY <1>1, <2>1 DEF TypeOK, Established
<1>2. ASSUME NEW c \in Clients, Receive(c) PROVE TypeOK'
  BY <1>2, TaskTypes DEF TypeOK, Receive
<1>3. ASSUME NEW c \in Clients, Closed(c) PROVE TypeOK'
  BY <1>3, TaskTypes DEF TypeOK, Closed
<1>4. ASSUME NEW c \in Clients, Dropped(c) PROVE TypeOK'
  BY <1>3, <1>4 DEF Dropped
<1>5. ASSUME NEW c \in Clients, ReceivedMessage(c) PROVE TypeOK'
  <2>0. /\ chatroom_tasks' \in Seq([type : {"received_message", "close_connection"},
                                    client : Clients])
        /\ TakeTask("received_message", c)
    BY <1>5, TaskTypes DEF ReceivedMessage, TakeTask
  <2>1. ASSUME NEW secure \in BOOLEAN, AddChatRoom(c, secure) PROVE TypeOK'
    <3>1. next_chatroomid \in RoomIds /\ next_chatroomid' \in 1 .. MaxRooms + 1
      BY <2>1, ChatRoomsAssumption DEF TypeOK, AddChatRoom, RoomIds
    <3>2. NoClients \in Lists(Clients)
      BY EmptyIsFlat DEF NoClients
    <3>3. /\ clients' \in [RoomIds -> Lists(Clients)]
          /\ rooms' \in [Clients -> Lists(RoomIds)]
          /\ chatrooms' \in Lists(RoomIds)
      BY <2>1, <3>1, <3>2, ListTypes DEF TypeOK, AddChatRoom
    <3>. QED
      BY <2>0, <2>1, <3>1, <3>3 DEF TypeOK, AddChatRoom
  <2>2. ASSUME NEW r \in RoomIds, NEW leave_other_chatrooms \in BOOLEAN,
               JoinChatRoom(c, r, leave_other_chatrooms)
        PROVE  TypeOK'
    <3> DEFINE R == RoomsToLeave(c, leave_other_chatrooms)
    <3>1. R \in SUBSET RoomIds
      BY RoomsOfClient DEF RoomsToLeave
    <3>2. NoRooms \in Lists(RoomIds)
      BY EmptyIsFlat DEF NoRooms
    <3>3. clients' \in [RoomIds -> Lists(Clients)]
      <4>1. ClientsWithout(c, R) \in [RoomIds -> Lists(Clients)]
        BY <3>1, LeaveTypes
      <4>2. Add(ClientsWithout(c, R)[r], c) \in Lists(Clients)
        BY <4>1, ListTypes
      <4>. QED
        BY <2>2, <4>1, <4>2 DEF JoinChatRoom
    <3>4. number_of_clients' \in [RoomIds -> Int]
      <4>1. NumberWithout(c, R) \in [RoomIds -> Int]
        BY <3>1, LeaveTypes
      <4>. QED
        BY <2>2, <4>1 DEF JoinChatRoom
    <3>5. rooms' \in [Clients -> Lists(RoomIds)]
      BY <2>2, <3>2, ListTypes DEF TypeOK, JoinChatRoom
    <3>6. chatrooms' \in Lists(RoomIds)
      BY <2>2, <3>1, LeaveTypes DEF JoinChatRoom
    <3>. QED
      BY <2>0, <2>2, <3>3, <3>4, <3>5, <3>6 DEF TypeOK, JoinChatRoom
  <2>3. ASSUME NEW r \in RoomIds, LeaveChatRoom(c, r) PROVE TypeOK'
    <3>1. /\ clients' \in [RoomIds -> Lists(Clients)]
          /\ number_of_clients' \in [RoomIds -> Int]
      BY <2>3, LeaveTypes DEF LeaveChatRoom
    <3>2. rooms' \in [Clients -> Lists(RoomIds)]
      BY <2>3, ListTypes DEF TypeOK, LeaveChatRoom
    <3>3. chatrooms' \in Lists(RoomIds) /\ heap' \subseteq RoomIds
      BY <2>3 DEF TypeOK, LeaveChatRoom, ChatRoomsWithout, Lists
    <3>. QED
      BY <2>0, <2>3, <3>1, <3>2, <3>3 DEF TypeOK, LeaveChatRoom
  <2>4. ASSUME NEW r \in RoomIds, RemoveChatRoom(r) PROVE TypeOK'
    <3>1. NoClients \in Lists(Clients)
      BY EmptyIsFlat DEF NoClients
    <3>2. chatrooms' \in Lists(RoomIds) /\ rooms' \in [Clients -> Lists(RoomIds)]
      BY <2>4, ListTypes DEF TypeOK, RemoveChatRoom
    <3>. QED
      BY <2>0, <2>4, <3>1, <3>2 DEF TypeOK, RemoveChatRoom
  <2>5. ASSUME NEW disconnect \in BOOLEAN, Logout(c, disconnect) PROVE TypeOK'
    <3>1. ExitAllChatRooms(c)
      BY <2>5 DEF Logout
    <3>. QED
      BY <2>0, <2>5, <3>1, ExitTypes DEF TypeOK, Logout
  <2>6. CASE Login(c)
    BY <2>0, <2>6 DEF TypeOK, Login
  <2>7. CASE Answer
    BY <2>0, <2>7 DEF TypeOK, Answer
  <2>. QED
    BY <1>5, <2>1, <2>2, <2>3, <2>4, <2>5, <2>6, <2>7 DEF ReceivedMessage
<1>6. ASSUME NEW c \in Clients, ClosedConnection(c) PROVE TypeOK'
  <2>1. chatroom_tasks' \in Seq([type : {"received_message", "close_connection"},
                                 client : Clients])
    BY <1>6, TaskTypes DEF ClosedConnection, TakeTask
  <2>2. ExitAllChatRooms(c) /\ CloseConnection(c)
    BY <1>6 DEF ClosedConnection, CloseConnection
  <2>3. chatclients' \in Lists(Clients)
    BY <2>2, ListTypes DEF TypeOK, CloseConnection
  <2>. QED
    BY <2>1, <2>2, <2>3, ExitTypes DEF TypeOK, CloseConnection
<1>7. CASE UNCHANGED vars
  BY <1>7 DEF TypeOK, vars
<1>. QED
  BY <1>1, <1>2, <1>3, <1>4, <1>5, <1>6, <1>7 DEF Next, RunTask

(* Every variable keeps its type, whatever the clients do and however far  *)
(* the lists grow beyond BIGLIST_SIZE.                                     *)
THEOREM TypeCorrect == Spec => []TypeOK
  BY InitType, StepType, PTL DEF Spec

-----------------------------------------------------------------------------
(* Membership, while no list outgrows its first node.                      *)

RoomsInv == ListsFlat /\ RoomsExist /\ RoomsCounted

-----------------------------------------------------------------------------
(* Lists and counts.                                                       *)

(* Both kinds of list fit their first node. *)
LEMMA Fits ==
    ASSUME WithinCapacity
    PROVE  /\ IsFiniteSet(Clients) /\ Cardinality(Clients) <= BIGLIST_SIZE
           /\ IsFiniteSet(RoomIds) /\ Cardinality(RoomIds) <= BIGLIST_SIZE
<1>1. MaxRooms \in Nat /\ MaxRooms <= BIGLIST_SIZE
  BY ChatRoomsAssumption DEF WithinCapacity
<1>2. IsFiniteSet(1 .. MaxRooms) /\ Cardinality(1 .. MaxRooms) = MaxRooms
  BY <1>1, FS_Interval
<1>. QED
  BY <1>1, <1>2 DEF WithinCapacity, RoomIds

(* The clients in a room are a finite set. *)
LEMMA FiniteRoom ==
    ASSUME WithinCapacity, TypeOK, NEW r \in RoomIds
    PROVE  IsFiniteSet(clients[r].head)
<1>1. clients[r].head \subseteq Clients
  BY DEF TypeOK, Lists
<1>. QED
  BY <1>1, FS_Subset DEF WithinCapacity

(* A client leaves the rooms in R: its name is gone from their lists, and  *)
(* their numbers and Unused agree with what is left.                       *)
LEMMA Leaving ==
    ASSUME WithinCapacity, TypeOK, RoomsInv,
           NEW c \in Clients, NEW R \in SUBSET RoomIds
    PROVE  /\ \A r \in RoomIds :
                /\ Flat(ClientsWithout(c, R)[r])
                /\ ClientsWithout(c, R)[r].head =
                     IF r \in R THEN clients[r].head \ {c} ELSE clients[r].head
           /\ \A r \in heap :
                NumberWithout(c, R)[r] = Cardinality(ClientsWithout(c, R)[r].head)
           /\ \A r \in R \cap heap :
                r \in Unused(c, R) <=>
                    delete_if_unused[r] /\ clients[r].head \ {c} = {}
<1>1. \A r \in RoomIds :
        /\ Flat(ClientsWithout(c, R)[r])
        /\ ClientsWithout(c, R)[r].head =
             IF r \in R THEN clients[r].head \ {c} ELSE clients[r].head
  <2>. SUFFICES ASSUME NEW r \in RoomIds
                PROVE  /\ Flat(ClientsWithout(c, R)[r])
                       /\ ClientsWithout(c, R)[r].head =
                            IF r \in R THEN clients[r].head \ {c} ELSE clients[r].head
    OBVIOUS
  <2>1. clients[r] \in Lists(Clients) /\ Flat(clients[r])
    BY DEF TypeOK, RoomsInv, ListsFlat
  <2>2. Flat(Remove(clients[r], c)) /\ Remove(clients[r], c).head = clients[r].head \ {c}
    BY <2>1, FlatRemove
  <2>. QED
    BY <2>1, <2>2 DEF ClientsWithout
<1>2. \A r \in heap :
        NumberWithout(c, R)[r] = Cardinality(ClientsWithout(c, R)[r].head)
  <2>. SUFFICES ASSUME NEW r \in heap
                PROVE  NumberWithout(c, R)[r] = Cardinality(ClientsWithout(c, R)[r].head)
    OBVIOUS
  <2>1. r \in RoomIds /\ number_of_clients[r] = Cardinality(clients[r].head)
    BY DEF TypeOK, RoomsInv, RoomsCounted
  <2>2. IsFiniteSet(clients[r].head)
    BY <2>1, FiniteRoom
  <2>3. c \in clients[r].head =>
          Cardinality(clients[r].head \ {c}) = Cardinality(clients[r].head) - 1
    BY <2>2, FS_RemoveElement
  <2>4. c \notin clients[r].head => clients[r].head \ {c} = clients[r].head
    OBVIOUS
  <2>5. NumberWithout(c, R)[r] = IF r \in R /\ c \in clients[r].head
                                 THEN number_of_clients[r] - 1 ELSE number_of_clients[r]
    BY <2>1 DEF NumberWithout, Found
  <2>. QED
    BY <1>1, <2>1, <2>3, <2>4, <2>5
<1>3. ASSUME NEW r \in R \cap heap
      PROVE  r \in Unused(c, R) <=> delete_if_unused[r] /\ clients[r].head \ {c} = {}
  <2>1. r \in RoomIds /\ IsFiniteSet(clients[r].head \ {c})
    BY FiniteRoom, FS_Subset
  <2>2. Cardinality(clients[r].head \ {c}) = 0 <=> clients[r].head \ {c} = {}
    BY <2>1, FS_EmptySet
  <2>3. NumberWithout(c, R)[r] = Cardinality(clients[r].head \ {c})
    BY <1>1, <1>2, <2>1
  <2>. QED
    BY <2>2, <2>3 DEF Unused
<1>. QED
  BY <1>1, <1>2, <1>3

(* The registered rooms without those that are gone. *)
LEMMA Unregister ==
    ASSUME TypeOK, RoomsInv, NEW gone
    PROVE  /\ ChatRoomsWithout(gone).head = heap \ gone
           /\ Flat(ChatRoomsWithout(gone))
  BY DEF TypeOK, RoomsInv, ListsFlat, RoomsExist, ChatRoomsWithout, Lists, Flat

(* A registered room is one that was not deleted. *)
LEMMA Registered ==
    ASSUME TypeOK, RoomsInv
    PROVE  /\ Members(chatrooms) = heap
           /\ heap \subseteq RoomIds
           /\ \A c \in Clients : Members(rooms[c]) = rooms[c].head
           /\ \A r \in RoomIds : Members(clients[r]) = clients[r].head
           /\ Members(chatclients) = chatclients.head
  BY FlatMembers DEF TypeOK, RoomsInv, ListsFlat, RoomsExist

-----------------------------------------------------------------------------
(* The commands keep the rooms and their members.                          *)

LEMMA AddChatRoomKeeps ==
    ASSUME WithinCapacity, TypeOK, RoomsInv,
           NEW c \in Clients, NEW secure \in BOOLEAN, AddChatRoom(c, secure)
    PROVE  /\ RoomsInv'
           /\ \A r \in heap' : \/ r \in heap /\ clients'[r].head = clients[r].head
                               \/ clients'[r].head = {c}
<1> DEFINE r == next_chatroomid
<1>1. r \in RoomIds /\ r \notin heap /\ heap' = heap \cup {r} /\ next_chatroomid' = r + 1
  BY ChatRoomsAssumption DEF AddChatRoom, TypeOK, RoomsInv, RoomsExist, RoomIds
<1>2. /\ Flat(Add(NoClients, c)) /\ Add(NoClients, c).head = {c}
  BY Fits, FlatAdd, EmptyIsFlat DEF NoClients
<1>3. Flat(Add(rooms[c], r)) /\ Add(rooms[c], r).head = rooms[c].head \cup {r}
  BY <1>1, Fits, FlatAdd DEF TypeOK, RoomsInv, ListsFlat
<1>4. Flat(Add(chatrooms, r)) /\ Add(chatrooms, r).head = chatrooms.head \cup {r}
  BY <1>1, Fits, FlatAdd DEF TypeOK, RoomsInv, ListsFlat
<1>5. /\ clients'[r].head = {c} /\ Flat(clients'[r])
      /\ \A x \in RoomIds : x # r => clients'[x] = clients[x]
  BY <1>1, <1>2 DEF AddChatRoom, TypeOK
<1>6. /\ rooms'[c].head = rooms[c].head \cup {r} /\ Flat(rooms'[c])
      /\ \A d \in Clients : d # c => rooms'[d] = rooms[d]
  BY <1>1, <1>3 DEF AddChatRoom, TypeOK
<1>7. /\ number_of_clients'[r] = 1
      /\ \A x \in RoomIds : x # r => /\ number_of_clients'[x] = number_of_clients[x]
                                     /\ delete_if_unused'[x] = delete_if_unused[x]
  BY <1>1 DEF AddChatRoom, TypeOK
<1>8. ListsFlat'
  BY <1>4, <1>5, <1>6 DEF AddChatRoom, RoomsInv, ListsFlat
<1>9. RoomsExist'
  <2>1. \A x \in heap' : x < next_chatroomid'
    BY <1>1 DEF RoomsInv, RoomsExist, TypeOK, RoomIds
  <2>2. chatrooms'.head = heap'
    BY <1>1, <1>4 DEF AddChatRoom, RoomsInv, RoomsExist
  <2>3. \A d \in Clients : rooms'[d].head \subseteq heap'
    BY <1>1, <1>6 DEF RoomsInv, RoomsExist
  <2>. QED
    BY <2>1, <2>2, <2>3 DEF RoomsExist
<1>10. RoomsCounted'
  <2>1. ASSUME NEW x \in heap'
        PROVE  /\ \A d \in Clients : d \in clients'[x].head <=> x \in rooms'[d].head
               /\ number_of_clients'[x] = Cardinality(clients'[x].head)
               /\ delete_if_unused'[x] => clients'[x].head # {}
    <3>1. CASE x = r
      <4>1. Cardinality({c}) = 1
        BY FS_Singleton
      <4>2. \A d \in Clients : r \notin rooms[d].head
        BY <1>1 DEF RoomsInv, RoomsExist
      <4>. QED
        BY <3>1, <4>1, <4>2, <1>5, <1>6, <1>7
    <3>2. CASE x # r
      <4>1. x \in heap /\ x \in RoomIds
        BY <3>2, <1>1 DEF TypeOK
      <4>2. \A d \in Clients : x \in rooms'[d].head <=> x \in rooms[d].head
        BY <3>2, <1>6
      <4>. QED
        BY <3>2, <4>1, <4>2, <1>5, <1>7 DEF RoomsInv, RoomsCounted
    <3>. QED
      BY <3>1, <3>2
  <2>. QED
    BY <2>1 DEF RoomsCounted
<1>. QED
  BY <1>1, <1>5, <1>8, <1>9, <1>10 DEF RoomsInv, TypeOK

LEMMA ExitKeeps ==
    ASSUME WithinCapacity, TypeOK, RoomsInv,
           NEW c \in Clients, ExitAllChatRooms(c), Flat(chatclients')
    PROVE  /\ RoomsInv'
           /\ heap' \subseteq heap
           /\ \A r \in heap' : clients'[r].head = clients[r].head \ {c}
<1> DEFINE R == rooms[c].head
           gone == Unused(c, R)
<1>1. R \in SUBSET RoomIds /\ R \subseteq heap /\ Members(rooms[c]) = R
  BY Registered DEF TypeOK, Lists, RoomsInv, RoomsExist
<1>2. \A r \in heap : r \in R <=> c \in clients[r].head
  BY DEF RoomsInv, RoomsCounted
<1>3. /\ clients' = ClientsWithout(c, R)
      /\ number_of_clients' = NumberWithout(c, R)
      /\ rooms' = [rooms EXCEPT ![c] = NoRooms]
      /\ chatrooms' = ChatRoomsWithout(gone)
      /\ heap' = heap \ gone
      /\ UNCHANGED <<next_chatroomid, delete_if_unused>>
  BY <1>1 DEF ExitAllChatRooms
<1>4. \A r \in heap : clients'[r].head = clients[r].head \ {c}
  <2>. SUFFICES ASSUME NEW r \in heap PROVE clients'[r].head = clients[r].head \ {c}
    OBVIOUS
  <2>1. r \in RoomIds
    BY DEF TypeOK
  <2>2. ClientsWithout(c, R)[r].head =
          IF r \in R THEN clients[r].head \ {c} ELSE clients[r].head
    <3>. HIDE DEF R
    <3>. QED
      BY <1>1, <2>1, Leaving
  <2>3. r \notin R => clients[r].head \ {c} = clients[r].head
    BY <1>2
  <2>. QED
    BY <1>3, <2>2, <2>3
<1>5. \A r \in heap' : delete_if_unused[r] => clients'[r].head # {}
  BY <1>1, <1>2, <1>3, <1>4, Leaving DEF RoomsInv, RoomsCounted
<1>6. /\ rooms'[c].head = {} /\ Flat(rooms'[c])
      /\ \A d \in Clients : d # c => rooms'[d] = rooms[d]
  BY <1>3, EmptyIsFlat DEF TypeOK, NoRooms
<1>7. \A r \in heap, d \in Clients : d \in clients'[r].head <=> r \in rooms'[d].head
  BY <1>2, <1>4, <1>6 DEF RoomsInv, RoomsCounted
<1>8. ListsFlat'
  <2>1. Flat(chatrooms')
    BY <1>3, Unregister
  <2>2. \A r \in RoomIds : Flat(clients'[r])
    <3>1. \A r \in RoomIds : Flat(ClientsWithout(c, R)[r])
      BY <1>1, Leaving
    <3>. QED
      BY <1>3, <3>1
  <2>3. \A d \in Clients : Flat(rooms'[d])
    BY <1>6 DEF RoomsInv, ListsFlat
  <2>. QED
    BY <2>1, <2>2, <2>3 DEF ListsFlat
<1>9. RoomsExist'
  <2>1. chatrooms'.head = heap'
    BY <1>3, Unregister
  <2>2. ASSUME NEW d \in Clients, NEW r \in rooms'[d].head PROVE r \in heap'
    <3>1. d # c /\ r \in heap
      BY <2>2, <1>6 DEF RoomsInv, RoomsExist
    <3>2. d \in clients'[r].head
      BY <2>2, <3>1, <1>7
    <3>3. r \notin gone
      BY <3>1, <3>2, <1>1, <1>4, Leaving DEF Unused
    <3>. QED
      BY <3>1, <3>3, <1>3
  <2>. QED
    BY <2>1, <2>2, <1>3 DEF RoomsInv, RoomsExist
<1>10. RoomsCounted'
  BY <1>1, <1>3, <1>5, <1>7, Leaving DEF RoomsCounted
<1>. QED
  BY <1>3, <1>4, <1>8, <1>9, <1>10 DEF RoomsInv

LEMMA LeaveChatRoomKeeps ==
    ASSUME WithinCapacity, TypeOK, RoomsInv,
           NEW c \in Clients, NEW r \in RoomIds, LeaveChatRoom(c, r)
    PROVE  /\ RoomsInv'
           /\ \A x \in heap' : x \in heap /\ clients'[x].head \subseteq clients[x].head
<1> DEFINE left == clients[r].head \ {c}
           gone == IF NumberWithout(c, {r})[r] > 0 THEN {} ELSE Unused(c, {r})
<1>0. {r} \in SUBSET RoomIds
  OBVIOUS
<1>1. r \in heap
  BY Registered DEF LeaveChatRoom
<1>2. /\ clients' = ClientsWithout(c, {r})
      /\ number_of_clients' = NumberWithout(c, {r})
      /\ rooms' = [rooms EXCEPT ![c] = Remove(@, r)]
      /\ chatrooms' = ChatRoomsWithout(gone)
      /\ heap' = heap \ gone
      /\ UNCHANGED <<chatclients, next_chatroomid, delete_if_unused>>
  BY DEF LeaveChatRoom
<1>3. /\ clients'[r].head = left
      /\ \A x \in RoomIds : x # r => clients'[x].head = clients[x].head
  <2>1. \A x \in RoomIds : ClientsWithout(c, {r})[x].head =
                               IF x \in {r} THEN clients[x].head \ {c} ELSE clients[x].head
    BY <1>0, Leaving
  <2>. QED
    BY <1>2, <2>1
<1>4. \A x \in heap : number_of_clients'[x] = Cardinality(clients'[x].head)
  BY <1>2, Leaving
<1>5. r \in gone <=> delete_if_unused[r] /\ left = {}
  <2>1. IsFiniteSet(left)
    BY FiniteRoom, FS_Subset
  <2>2. Cardinality(left) \in Nat /\ (Cardinality(left) = 0 <=> left = {})
    BY <2>1, FS_CardinalityType, FS_EmptySet
  <2>3. NumberWithout(c, {r})[r] = Cardinality(left)
    BY <1>1, <1>2, <1>3, <1>4
  <2>4. r \in Unused(c, {r}) <=> delete_if_unused[r] /\ left = {}
    BY <1>1, Leaving
  <2>. QED
    BY <2>2, <2>3, <2>4
<1>6. gone \subseteq {r}
  BY DEF Unused
<1>7. /\ rooms'[c].head = rooms[c].head \ {r} /\ Flat(rooms'[c])
      /\ \A d \in Clients : d # c => rooms'[d] = rooms[d]
  BY <1>2, FlatRemove DEF TypeOK, RoomsInv, ListsFlat
<1>8. \A x \in heap, d \in Clients : d \in clients'[x].head <=> x \in rooms'[d].head
  <2>1. \A x \in heap, d \in Clients : d \in clients[x].head <=> x \in rooms[d].head
    BY DEF RoomsInv, RoomsCounted
  <2>2. heap \subseteq RoomIds
    BY DEF TypeOK
  <2>. QED
    BY <1>3, <1>7, <2>1, <2>2
<1>9. ListsFlat'
  <2>1. Flat(chatrooms') /\ \A x \in RoomIds : Flat(clients'[x])
    <3>1. \A x \in RoomIds : Flat(ClientsWithout(c, {r})[x])
      BY <1>0, Leaving
    <3>. QED
      BY <1>2, <3>1, Unregister
  <2>. QED
    BY <2>1, <1>2, <1>7 DEF RoomsInv, ListsFlat
<1>10. RoomsExist'
  <2>1. chatrooms'.head = heap'
    BY <1>2, Unregister
  <2>2. ASSUME NEW d \in Clients, NEW x \in rooms'[d].head PROVE x \in heap'
    <3>1. x \in heap
      BY <2>2, <1>7 DEF RoomsInv, RoomsExist
    <3>2. d \in clients'[x].head
      BY <2>2, <3>1, <1>8
    <3>3. x \notin gone
      BY <3>2, <1>3, <1>5, <1>6
    <3>. QED
      BY <3>1, <3>3, <1>2
  <2>. QED
    BY <2>1, <2>2, <1>2 DEF RoomsInv, RoomsExist
<1>11. RoomsCounted'
  <2>1. \A x \in heap' : delete_if_unused'[x] => clients'[x].head # {}
    BY <1>2, <1>3, <1>5 DEF TypeOK, RoomsInv, RoomsCounted
  <2>. QED
    BY <2>1, <1>2, <1>4, <1>8 DEF RoomsCounted
<1>. QED
  BY <1>2, <1>3, <1>9, <1>10, <1>11 DEF TypeOK, RoomsInv

LEMMA RemoveChatRoomKeeps ==
    ASSUME WithinCapacity, TypeOK, RoomsInv, NEW r \in RoomIds, RemoveChatRoom(r)
    PROVE  /\ RoomsInv'
           /\ \A x \in heap' : x \in heap /\ clients'[x].head \subseteq clients[x].head
<1>1. r \in heap /\ \A d \in Clients : r \in rooms[d].head => d \in Members(clients[r])
  BY Registered DEF RemoveChatRoom, RoomsInv, RoomsCounted
<1>2. /\ chatrooms' = Remove(chatrooms, r)
      /\ Flat(chatrooms') /\ chatrooms'.head = chatrooms.head \ {r}
  BY FlatRemove DEF RemoveChatRoom, TypeOK, RoomsInv, ListsFlat
<1>3. \A d \in Clients : Flat(rooms'[d]) /\ rooms'[d].head = rooms[d].head \ {r}
  <2>. SUFFICES ASSUME NEW d \in Clients
                PROVE  Flat(rooms'[d]) /\ rooms'[d].head = rooms[d].head \ {r}
    OBVIOUS
  <2>1. rooms[d] \in Lists(RoomIds) /\ Flat(rooms[d])
    BY DEF TypeOK, RoomsInv, ListsFlat
  <2>2. rooms'[d] = IF d \in Members(clients[r]) THEN Remove(rooms[d], r) ELSE rooms[d]
    BY DEF RemoveChatRoom
  <2>3. Flat(Remove(rooms[d], r)) /\ Remove(rooms[d], r).head = rooms[d].head \ {r}
    BY <2>1, FlatRemove
  <2>. QED
    BY <1>1, <2>1, <2>2, <2>3
<1>4. /\ Flat(clients'[r])
      /\ \A x \in RoomIds : x # r => clients'[x] = clients[x]
      /\ heap' = heap \ {r}
      /\ UNCHANGED <<chatclients, next_chatroomid, number_of_clients, delete_if_unused>>
  BY EmptyIsFlat DEF RemoveChatRoom, TypeOK, NoClients
<1>5. ListsFlat'
  BY <1>2, <1>3, <1>4 DEF RoomsInv, ListsFlat
<1>6. RoomsExist'
  BY <1>2, <1>3, <1>4 DEF RoomsInv, RoomsExist
<1>7. RoomsCounted'
  BY <1>3, <1>4 DEF TypeOK, RoomsInv, RoomsCounted
<1>. QED
  BY <1>4, <1>5, <1>6, <1>7 DEF TypeOK, RoomsInv

LEMMA JoinChatRoomKeeps ==
    ASSUME WithinCapacity, TypeOK, RoomsInv,
           NEW c \in Clients, NEW r \in RoomIds, NEW leave_other_chatrooms \in BOOLEAN,
           JoinChatRoom(c, r, leave_other_chatrooms)
    PROVE  /\ RoomsInv'
           /\ \A x \in heap' : x \in heap /\ clients'[x].head \subseteq clients[x].head \cup {c}
<1> DEFINE R == RoomsToLeave(c, leave_other_chatrooms)
           gone == Unused(c, R)
           kept == IF leave_other_chatrooms THEN NoRooms ELSE rooms[c]
<1>1. /\ R \in SUBSET RoomIds
      /\ R = IF leave_other_chatrooms THEN rooms[c].head ELSE {}
  BY Registered DEF RoomsToLeave, TypeOK, Lists
<1>2. /\ kept \in Lists(RoomIds) /\ Flat(kept)
      /\ kept.head = rooms[c].head \ R
  BY <1>1, EmptyIsFlat DEF NoRooms, TypeOK, RoomsInv, ListsFlat
<1>3. r \in heap /\ c \notin clients[r].head /\ r \notin R
  BY <1>1, Registered DEF JoinChatRoom, Found, RoomsInv, RoomsCounted
<1>4. /\ clients' = [ClientsWithout(c, R) EXCEPT ![r] = Add(@, c)]
      /\ number_of_clients' = [NumberWithout(c, R) EXCEPT ![r] = @ + 1]
      /\ rooms' = [rooms EXCEPT ![c] = Add(kept, r)]
      /\ chatrooms' = ChatRoomsWithout(gone)
      /\ heap' = heap \ gone
      /\ UNCHANGED <<chatclients, next_chatroomid, delete_if_unused>>
  BY DEF JoinChatRoom
<1>5. gone \subseteq R
  BY DEF Unused
<1>. HIDE DEF R
<1>6. /\ ClientsWithout(c, R) \in [RoomIds -> Lists(Clients)]
      /\ NumberWithout(c, R) \in [RoomIds -> Int]
  BY <1>1, LeaveTypes
<1>7. \A x \in RoomIds :
        /\ Flat(ClientsWithout(c, R)[x])
        /\ ClientsWithout(c, R)[x].head =
             IF x \in R THEN clients[x].head \ {c} ELSE clients[x].head
  <2>1. R \in SUBSET RoomIds
    BY <1>1
  <2>. QED
    BY <2>1, Leaving
<1>8. \A x \in heap : NumberWithout(c, R)[x] = Cardinality(ClientsWithout(c, R)[x].head)
  BY <1>1, Leaving
<1>9. \A x \in R \cap heap : x \in gone <=> delete_if_unused[x] /\ clients[x].head \ {c} = {}
  BY <1>1, Leaving
<1>10. /\ Flat(clients'[r]) /\ clients'[r].head = clients[r].head \cup {c}
       /\ \A x \in RoomIds : x # r => clients'[x] = ClientsWithout(c, R)[x]
  <2>1. /\ Flat(Add(ClientsWithout(c, R)[r], c))
        /\ Add(ClientsWithout(c, R)[r], c).head = ClientsWithout(c, R)[r].head \cup {c}
    <3>1. ClientsWithout(c, R)[r] \in Lists(Clients) /\ Flat(ClientsWithout(c, R)[r])
      BY <1>6, <1>7
    <3>. QED
      BY <3>1, Fits, FlatAdd
  <2>2. clients'[r] = Add(ClientsWithout(c, R)[r], c)
    BY <1>4, <1>6
  <2>3. \A x \in RoomIds : x # r => clients'[x] = ClientsWithout(c, R)[x]
    BY <1>4, <1>6
  <2>. QED
    BY <1>3, <1>7, <2>1, <2>2, <2>3
<1>11. /\ Flat(rooms'[c]) /\ rooms'[c].head = (rooms[c].head \ R) \cup {r}
       /\ \A d \in Clients : d # c => rooms'[d] = rooms[d]
  <2>1. Flat(Add(kept, r)) /\ Add(kept, r).head = kept.head \cup {r}
    <3>. HIDE DEF kept
    <3>. QED
      BY <1>2, Fits, FlatAdd
  <2>. QED
    BY <1>2, <1>4, <2>1 DEF TypeOK
<1>12. \A x \in heap, d \in Clients : d \in clients'[x].head <=> x \in rooms'[d].head
  <2>. SUFFICES ASSUME NEW x \in heap, NEW d \in Clients
                PROVE  d \in clients'[x].head <=> x \in rooms'[d].head
    OBVIOUS
  <2>1. x \in RoomIds /\ (d \in clients[x].head <=> x \in rooms[d].head)
    BY DEF TypeOK, RoomsInv, RoomsCounted
  <2>2. CASE x = r
    BY <2>1, <2>2, <1>10, <1>11
  <2>3. CASE x # r
    <3>1. clients'[x].head = IF x \in R THEN clients[x].head \ {c} ELSE clients[x].head
      BY <2>1, <2>3, <1>7, <1>10
    <3>2. x \in R => x \in rooms[c].head
      BY <1>1
    <3>3. CASE d = c
      <4>1. c \in clients'[x].head <=> x \in rooms[c].head /\ x \notin R
        BY <2>1, <3>1, <3>2, <3>3
      <4>. QED
        BY <2>3, <3>3, <4>1, <1>11
    <3>4. CASE d # c
      BY <2>1, <3>1, <3>4, <1>11
    <3>. QED
      BY <3>3, <3>4
  <2>. QED
    BY <2>2, <2>3
<1>13. \A x \in heap : number_of_clients'[x] = Cardinality(clients'[x].head)
  <2>. SUFFICES ASSUME NEW x \in heap
                PROVE  number_of_clients'[x] = Cardinality(clients'[x].head)
    OBVIOUS
  <2>0. x \in RoomIds
    BY DEF TypeOK
  <2>1. CASE x = r
    <3>1. IsFiniteSet(clients[r].head)
      BY FiniteRoom
    <3>2. Cardinality(clients[r].head \cup {c}) = Cardinality(clients[r].head) + 1
      BY <1>3, <3>1, FS_AddElement
    <3>3. number_of_clients'[r] = NumberWithout(c, R)[r] + 1
      BY <1>4, <1>6
    <3>4. NumberWithout(c, R)[r] = Cardinality(clients[r].head)
      BY <1>3, <1>7, <1>8
    <3>. QED
      BY <2>1, <3>2, <3>3, <3>4, <1>10
  <2>2. CASE x # r
    BY <2>0, <2>2, <1>4, <1>6, <1>8, <1>10
  <2>. QED
    BY <2>1, <2>2
<1>14. ListsFlat'
  <2>1. Flat(chatrooms')
    BY <1>4, Unregister
  <2>2. \A x \in RoomIds : Flat(clients'[x])
    BY <1>7, <1>10
  <2>3. \A d \in Clients : Flat(rooms'[d])
    BY <1>11 DEF RoomsInv, ListsFlat
  <2>. QED
    BY <2>1, <2>2, <2>3, <1>4 DEF RoomsInv, ListsFlat
<1>15. RoomsExist'
  <2>1. chatrooms'.head = heap'
    BY <1>4, Unregister
  <2>2. ASSUME NEW d \in Clients, NEW x \in rooms'[d].head PROVE x \in heap'
    <3>1. x \in heap /\ x \in RoomIds
      BY <2>2, <1>3, <1>11 DEF RoomsInv, RoomsExist, TypeOK
    <3>2. d \in clients'[x].head
      BY <2>2, <3>1, <1>12
    <3>3. x \notin gone
      <4>1. CASE x = r
        BY <4>1, <1>3, <1>5
      <4>2. CASE x # r
        <5>1. x \in R => clients[x].head \ {c} # {}
          BY <3>1, <3>2, <4>2, <1>7, <1>10
        <5>. QED
          BY <3>1, <5>1, <1>5, <1>9
      <4>. QED
        BY <4>1, <4>2
    <3>. QED
      BY <3>1, <3>3, <1>4
  <2>. QED
    BY <2>1, <2>2, <1>4 DEF RoomsInv, RoomsExist
<1>16. RoomsCounted'
  <2>1. ASSUME NEW x \in heap', delete_if_unused'[x] PROVE clients'[x].head # {}
    <3>1. x \in heap /\ x \in RoomIds /\ x \notin gone /\ clients[x].head # {}
      BY <2>1, <1>4 DEF RoomsInv, RoomsCounted, TypeOK
    <3>2. CASE x = r
      BY <3>2, <1>10
    <3>3. CASE x # r
      BY <2>1, <3>1, <3>3, <1>4, <1>7, <1>9, <1>10
    <3>. QED
      BY <3>2, <3>3
  <2>. QED
    BY <2>1, <1>4, <1>12, <1>13 DEF RoomsCounted
<1>17. \A x \in heap' : x \in heap /\ clients'[x].head \subseteq clients[x].head \cup {c}
  BY <1>4, <1>7, <1>10 DEF TypeOK
<1>. QED
  BY <1>14, <1>15, <1>16, <1>17 DEF RoomsInv

-----------------------------------------------------------------------------
(* The order of the tasks.                                                 *)

(* The task taken is the oldest one, of a connection that is registered;   *)
(* if it was the close of it, no task of that connection is left.          *)
LEMMA Taken ==
    ASSUME TypeOK, TasksInOrder, NEW type, NEW c \in Clients, TakeTask(type, c)
    PROVE  /\ c \in chatclients.head
           /\ Len(chatroom_tasks') = Len(chatroom_tasks) - 1
           /\ \A k \in 1 .. Len(chatroom_tasks') :
                /\ chatroom_tasks'[k] = chatroom_tasks[k + 1]
                /\ k + 1 \in 1 .. Len(chatroom_tasks)
           /\ type = "close_connection" =>
                /\ wsi[c] = "null"
                /\ \A k \in 1 .. Len(chatroom_tasks') : chatroom_tasks'[k].client # c
<1>1. /\ chatroom_tasks # << >> /\ Len(chatroom_tasks) \in Nat
      /\ 1 \in 1 .. Len(chatroom_tasks) /\ chatroom_tasks[1] = Task(type, c)
  BY DEF TypeOK, TakeTask
<1>2. /\ Len(chatroom_tasks') = Len(chatroom_tasks) - 1
      /\ \A k \in 1 .. Len(chatroom_tasks') :
            /\ chatroom_tasks'[k] = chatroom_tasks[k + 1]
            /\ k + 1 \in 1 .. Len(chatroom_tasks) /\ k + 1 > 1
  BY <1>1 DEF TypeOK, TakeTask
<1>3. chatroom_tasks[1].client = c /\ chatroom_tasks[1].type = type
  BY <1>1 DEF Task
<1>. QED
  BY <1>1, <1>2, <1>3 DEF TasksInOrder

(* Taking a task leaves the rest in order. *)
LEMMA TakeKeepsOrder ==
    ASSUME TypeOK, TasksInOrder, NEW type, NEW c \in Clients, TakeTask(type, c), wsi' = wsi,
           \/ chatclients' = chatclients
           \/ /\ type = "close_connection"
              /\ chatclients'.head = chatclients.head \ {c}
    PROVE  TasksInOrder'
<1>1. ASSUME NEW k \in 1 .. Len(chatroom_tasks')
      PROVE  LET task == chatroom_tasks'[k]
             IN  /\ task.client \in chatclients'.head
                 /\ task.type = "close_connection" =>
                      /\ wsi'[task.client] = "null"
                      /\ \A j \in 1 .. Len(chatroom_tasks') :
                            j > k => chatroom_tasks'[j].client # task.client
  <2> DEFINE task == chatroom_tasks'[k]
  <2>1. task = chatroom_tasks[k + 1] /\ k + 1 \in 1 .. Len(chatroom_tasks)
    BY Taken
  <2>2. task.client \in chatclients.head
    BY <2>1 DEF TasksInOrder
  <2>3. task.client \in chatclients'.head
    BY <2>2, Taken
  <2>4. ASSUME task.type = "close_connection"
        PROVE  /\ wsi[task.client] = "null"
               /\ \A j \in 1 .. Len(chatroom_tasks') :
                     j > k => chatroom_tasks'[j].client # task.client
    <3>1. \A j \in 1 .. Len(chatroom_tasks) :
            j > k + 1 => chatroom_tasks[j].client # task.client
      BY <2>1, <2>4 DEF TasksInOrder
    <3>2. ASSUME NEW j \in 1 .. Len(chatroom_tasks'), j > k
          PROVE  chatroom_tasks'[j].client # task.client
      <4>1. chatroom_tasks'[j] = chatroom_tasks[j + 1] /\ j + 1 \in 1 .. Len(chatroom_tasks)
        BY Taken
      <4>2. j + 1 > k + 1
        BY <3>2
      <4>. QED
        BY <3>1, <4>1, <4>2
    <3>. QED
      BY <2>1, <2>4, <3>2 DEF TasksInOrder
  <2>. QED
    BY <2>3, <2>4
<1>. QED
  BY <1>1 DEF TasksInOrder

(* A task of an open connection goes behind tasks that are in order. *)
LEMMA AppendKeepsOrder ==
    ASSUME TypeOK, TasksInOrder, ClientsConnected, NEW c \in Clients, wsi[c] = "open",
           NEW type \in {"received_message", "close_connection"},
           chatroom_tasks' = Append(chatroom_tasks, Task(type, c)),
           chatclients' = chatclients,
           wsi' \in [Clients -> {"none", "open", "null"}],
           \A d \in Clients : wsi[d] = "null" => wsi'[d] = "null",
           type = "close_connection" => wsi'[c] = "null"
    PROVE  TasksInOrder'
<1> DEFINE n == Len(chatroom_tasks)
<1>1. /\ n \in Nat /\ Len(chatroom_tasks') = n + 1
      /\ \A k \in 1 .. n : chatroom_tasks'[k] = chatroom_tasks[k]
      /\ chatroom_tasks'[n + 1].client = c /\ chatroom_tasks'[n + 1].type = type
  BY DEF TypeOK, Task
<1>2. c \in chatclients.head
  BY DEF ClientsConnected
<1>3. ASSUME NEW k \in 1 .. Len(chatroom_tasks')
      PROVE  LET task == chatroom_tasks'[k]
             IN  /\ task.client \in chatclients'.head
                 /\ task.type = "close_connection" =>
                      /\ wsi'[task.client] = "null"
                      /\ \A j \in 1 .. Len(chatroom_tasks') :
                            j > k => chatroom_tasks'[j].client # task.client
  <2>1. CASE k = n + 1
    BY <1>1, <1>2, <2>1
  <2>2. CASE k # n + 1
    <3>1. k \in 1 .. n /\ chatroom_tasks'[k] = chatroom_tasks[k]
      BY <1>1, <2>2
    <3>2. /\ chatroom_tasks[k].client \in chatclients.head
          /\ chatroom_tasks[k].client \in Clients
      <4>1. chatroom_tasks[k].client \in chatclients.head
        BY <3>1 DEF TasksInOrder
      <4>2. chatclients.head \subseteq Clients
        BY DEF TypeOK, Lists
      <4>. QED
        BY <4>1, <4>2
    <3>3. ASSUME chatroom_tasks[k].type = "close_connection"
          PROVE  /\ wsi[chatroom_tasks[k].client] = "null"
                 /\ \A j \in 1 .. n :
                       j > k => chatroom_tasks[j].client # chatroom_tasks[k].client
      BY <3>1, <3>3 DEF TasksInOrder
    <3>4. ASSUME chatroom_tasks[k].type = "close_connection"
          PROVE  c # chatroom_tasks[k].client
      BY <3>3, <3>4
    <3>5. ASSUME chatroom_tasks[k].type = "close_connection",
                 NEW j \in 1 .. Len(chatroom_tasks'), j > k
          PROVE  chatroom_tasks'[j].client # chatroom_tasks[k].client
      <4>1. CASE j = n + 1
        BY <1>1, <3>4, <3>5, <4>1
      <4>2. CASE j # n + 1
        <5>1. j \in 1 .. n /\ chatroom_tasks'[j] = chatroom_tasks[j]
          BY <1>1, <4>2
        <5>. QED
          BY <3>3, <3>5, <5>1
      <4>. QED
        BY <4>1, <4>2
    <3>. QED
      BY <3>1, <3>2, <3>3, <3>5
  <2>. QED
    BY <2>1, <2>2
<1>. QED
  BY <1>3 DEF TasksInOrder

-----------------------------------------------------------------------------
(* The invariant.                                                          *)

LEMMA IndInvParts ==
    /\ IndInv <=> TypeOK /\ RoomsInv /\ TasksInOrder /\ ClientsConnected
    /\ IndInv' <=> TypeOK' /\ RoomsInv' /\ TasksInOrder' /\ ClientsConnected'
  BY DEF IndInv, RoomsInv

LEMMA InitInv == Init => IndInv
<1>. SUFFICES ASSUME Init PROVE IndInv
  OBVIOUS
<1>1. /\ Flat(NoRooms) /\ NoRooms.head = {}
      /\ Flat(NoClients) /\ NoClients.head = {}
  BY EmptyIsFlat DEF NoRooms, NoClients
<1>2. ListsFlat /\ RoomsExist /\ RoomsCounted
  BY <1>1 DEF Init, ListsFlat, RoomsExist, RoomsCounted
<1>3. TasksInOrder /\ ClientsConnected
  BY DEF Init, TasksInOrder, ClientsConnected
<1>. QED
  BY <1>2, <1>3, InitType DEF IndInv

(* A step that leaves the rooms and who is in them alone. *)
LEMMA SameRooms ==
    ASSUME RoomsInv, UNCHANGED <<rooms, chatrooms, next_chatroomid, room_vars>>,
           Flat(chatclients')
    PROVE  RoomsInv'
  BY DEF RoomsInv, ListsFlat, RoomsExist, RoomsCounted, room_vars

(* A command of c: it may put c into rooms, but nobody else. *)
LEMMA CommandKeeps ==
    ASSUME IndInv, TypeOK', RoomsInv', NEW c \in Clients,
           TakeTask("received_message", c), UNCHANGED <<wsi, chatclients>>,
           \A r \in heap' :
              \/ r \in heap /\ clients'[r].head \subseteq clients[r].head \cup {c}
              \/ clients'[r].head = {c}
    PROVE  IndInv'
<1>1. TasksInOrder' /\ c \in chatclients.head
  BY TakeKeepsOrder, Taken, IndInvParts
<1>2. ClientsConnected'
  BY <1>1, IndInvParts DEF ClientsConnected
<1>. QED
  BY <1>1, <1>2, IndInvParts

LEMMA StepInv == WithinCapacity /\ IndInv /\ [Next]_vars => IndInv'
<1>. SUFFICES ASSUME WithinCapacity, IndInv, [Next]_vars PROVE IndInv'
  OBVIOUS
<1>0. TypeOK /\ RoomsInv /\ TasksInOrder /\ ClientsConnected /\ TypeOK'
  BY StepType, IndInvParts
<1>. USE DEF client_vars, server_vars
<1>1. ASSUME NEW c \in Clients, Established(c) PROVE IndInv'
  <2>1. Flat(chatclients') /\ chatclients'.head = chatclients.head \cup {c}
    BY <1>0, <1>1, Fits, FlatAdd DEF Established, TypeOK, RoomsInv, ListsFlat
  <2>2. RoomsInv'
    BY <1>0, <1>1, <2>1, SameRooms DEF Established
  <2>3. ClientsConnected'
    BY <1>0, <1>1, <2>1 DEF Established, ClientsConnected, TypeOK, room_vars
  <2>4. TasksInOrder'
    BY <1>0, <1>1, <2>1 DEF Established, TasksInOrder, TypeOK
  <2>. QED
    BY <1>0, <2>2, <2>3, <2>4, IndInvParts
<1>2. ASSUME NEW c \in Clients, Receive(c) PROVE IndInv'
  <2>1. RoomsInv'
    BY <1>0, <1>2, SameRooms DEF Receive, RoomsInv, ListsFlat
  <2>2. ClientsConnected'
    BY <1>0, <1>2 DEF Receive, ClientsConnected, room_vars
  <2>3. TasksInOrder'
    BY <1>0, <1>2, AppendKeepsOrder DEF Receive, TypeOK
  <2>. QED
    BY <1>0, <2>1, <2>2, <2>3, IndInvParts
<1>3. ASSUME NEW c \in Clients, Closed(c) PROVE IndInv'
  <2>1. RoomsInv'
    BY <1>0, <1>3, SameRooms DEF Closed, RoomsInv, ListsFlat
  <2>2. ClientsConnected'
    BY <1>0, <1>3 DEF Closed, ClientsConnected, TypeOK, room_vars
  <2>3. TasksInOrder'
    <3>1. /\ wsi[c] = "open" /\ wsi' = [wsi EXCEPT ![c] = "null"]
          /\ chatroom_tasks' = Append(chatroom_tasks, Task("close_connection", c))
          /\ chatclients' = chatclients
      BY <1>3 DEF Closed
    <3>2. /\ wsi' \in [Clients -> {"none", "open", "null"}] /\ wsi'[c] = "null"
          /\ \A d \in Clients : wsi[d] = "null" => wsi'[d] = "null"
      BY <1>0, <3>1 DEF TypeOK
    <3>. QED
      BY <1>0, <3>1, <3>2, AppendKeepsOrder
  <2>. QED
    BY <1>0, <2>1, <2>2, <2>3, IndInvParts
<1>4. ASSUME NEW c \in Clients, Dropped(c) PROVE IndInv'
  BY <1>3, <1>4 DEF Dropped
<1>5. ASSUME NEW c \in Clients, ReceivedMessage(c) PROVE IndInv'
  <2>0. TakeTask("received_message", c)
    BY <1>5 DEF ReceivedMessage
  <2>1. ASSUME NEW secure \in BOOLEAN, AddChatRoom(c, secure) PROVE IndInv'
    <3>1. UNCHANGED <<wsi, chatclients>>
      BY <2>1 DEF AddChatRoom
    <3>. QED
      BY <1>0, <2>0, <2>1, <3>1, AddChatRoomKeeps, CommandKeeps
  <2>2. ASSUME NEW r \in RoomIds, NEW leave_other_chatrooms \in BOOLEAN,
               JoinChatRoom(c, r, leave_other_chatrooms)
        PROVE  IndInv'
    <3>1. UNCHANGED <<wsi, chatclients>>
      BY <2>2 DEF JoinChatRoom
    <3>. QED
      BY <1>0, <2>0, <2>2, <3>1, JoinChatRoomKeeps, CommandKeeps
  <2>3. ASSUME NEW r \in RoomIds, LeaveChatRoom(c, r) PROVE IndInv'
    <3>1. UNCHANGED <<wsi, chatclients>>
      BY <2>3 DEF LeaveChatRoom
    <3>. QED
      BY <1>0, <2>0, <2>3, <3>1, LeaveChatRoomKeeps, CommandKeeps
  <2>4. ASSUME NEW r \in RoomIds, RemoveChatRoom(r) PROVE IndInv'
    <3>1. UNCHANGED <<wsi, chatclients>>
      BY <2>4 DEF RemoveChatRoom
    <3>. QED
      BY <1>0, <2>0, <2>4, <3>1, RemoveChatRoomKeeps, CommandKeeps
  <2>5. ASSUME NEW disconnect \in BOOLEAN, Logout(c, disconnect) PROVE IndInv'
    <3>1. UNCHANGED <<wsi, chatclients>> /\ ExitAllChatRooms(c)
      BY <2>5 DEF Logout
    <3>2. Flat(chatclients')
      BY <1>0, <3>1 DEF RoomsInv, ListsFlat
    <3>. QED
      BY <1>0, <2>0, <3>1, <3>2, ExitKeeps, CommandKeeps
  <2>6. CASE Login(c) \/ Answer
    <3>1. /\ UNCHANGED <<wsi, chatclients>>
          /\ UNCHANGED <<rooms, chatrooms, next_chatroomid, room_vars>>
      BY <2>6 DEF Login, Answer
    <3>2. RoomsInv'
      BY <1>0, <3>1, SameRooms DEF RoomsInv, ListsFlat
    <3>3. \A r \in heap' : r \in heap /\ clients'[r].head \subseteq clients[r].head \cup {c}
      BY <3>1 DEF room_vars
    <3>. QED
      BY <1>0, <2>0, <3>1, <3>2, <3>3, CommandKeeps
  <2>. QED
    BY <1>5, <2>1, <2>2, <2>3, <2>4, <2>5, <2>6 DEF ReceivedMessage
<1>6. ASSUME NEW c \in Clients, ClosedConnection(c) PROVE IndInv'
  <2>1. /\ TakeTask("close_connection", c) /\ ExitAllChatRooms(c)
        /\ chatclients' = Remove(chatclients, c) /\ wsi' = wsi
    BY <1>6 DEF ClosedConnection, CloseConnection
  <2>2. Flat(chatclients') /\ chatclients'.head = chatclients.head \ {c}
    BY <1>0, <2>1, FlatRemove DEF TypeOK, RoomsInv, ListsFlat
  <2>3. RoomsInv' /\ heap' \subseteq heap /\ \A r \in heap' : clients'[r].head = clients[r].head \ {c}
    BY <1>0, <2>1, <2>2, ExitKeeps
  <2>4. TasksInOrder'
    BY <1>0, <2>1, <2>2, TakeKeepsOrder
  <2>5. wsi[c] = "null"
    BY <1>0, <2>1, Taken
  <2>6. ClientsConnected'
    BY <1>0, <2>1, <2>2, <2>3, <2>5 DEF ClientsConnected
  <2>. QED
    BY <1>0, <2>3, <2>4, <2>6, IndInvParts
<1>7. CASE UNCHANGED vars
  BY <1>7 DEF IndInv, TypeOK, ListsFlat, RoomsExist, RoomsCounted, TasksInOrder,
              ClientsConnected, vars, room_vars
<1>. QED
  BY <1>1, <1>2, <1>3, <1>4, <1>5, <1>6, <1>7 DEF Next, RunTask

(* What the invariant says of the members, not only of the first nodes. *)
LEMMA IndInvImplies ==
    ASSUME IndInv
    PROVE  /\ MembershipAgrees
           /\ NoDeletedRoom
           /\ NoClearedClient
           /\ NumberIsCount
           /\ NoUnusedRoom
           /\ MembersAreConnected
<1>1. TypeOK /\ RoomsInv /\ TasksInOrder /\ ClientsConnected
  BY IndInvParts
<1>. QED
  BY <1>1, Registered DEF MembershipAgrees, NoDeletedRoom, NoClearedClient,
       NumberIsCount, NoUnusedRoom, MembersAreConnected, RoomsInv, RoomsExist,
       RoomsCounted, TasksInOrder, ClientsConnected

(* The invariant holds in every reachable state of a server whose lists    *)
(* stay within BIGLIST_SIZE.                                               *)
THEOREM Inductive == ASSUME WithinCapacity PROVE Spec => []IndInv
<1>1. IndInv /\ [Next]_vars => IndInv'
  BY StepInv
<1>. QED
  BY <1>1, InitInv, PTL DEF Spec

(* A room's list of clients and a client's list of rooms never disagree,   *)
(* on whichever path of the commands a client comes or goes.               *)
THEOREM AlwaysAgrees == ASSUME WithinCapacity PROVE Spec => []MembershipAgrees
  BY Inductive, IndInvImplies, PTL

(* A client's list of rooms and the server's never refer to a deleted room,*)
(* so exit_all_chatrooms and task::closeconnection dereference none.       *)
THEOREM NeverDeletedRoom == ASSUME WithinCapacity PROVE Spec => []NoDeletedRoom
  BY Inductive, IndInvImplies, PTL

(* No room and no queued task refers to a connection that was cleared.     *)
THEOREM NeverClearedClient == ASSUME WithinCapacity PROVE Spec => []NoClearedClient
  BY Inductive, IndInvImplies, PTL

(* number_of_clients always is the number of clients in the room.          *)
THEOREM AlwaysCounted == ASSUME WithinCapacity PROVE Spec => []NumberIsCount
  BY Inductive, IndInvImplies, PTL

(* A room that is to be deleted when everybody leaves is never left empty. *)
THEOREM NeverLeftEmpty == ASSUME WithinCapacity PROVE Spec => []NoUnusedRoom
  BY Inductive, IndInvImplies, PTL

(* The comment at task.cpp:147, which a run refutes for longer lists, is   *)
(* right up to BIGLIST_SIZE connections.                                   *)
THEOREM AlwaysConnected == ASSUME WithinCapacity PROVE Spec => []MembersAreConnected
  BY Inductive, IndInvImplies, PTL

-----------------------------------------------------------------------------
(* What the messages make of a page.                                       *)

Entries == [shown : BOOLEAN, count : 0 .. Cardinality(Clients), mine : BOOLEAN]

Pages == [Clients -> [RoomIds -> Entries]]

(* ChatPages!PageNearlyRight for one room on one page *)
Near(entry, in, number, unused) ==
    entry.shown => /\ in => entry.count - number \in {0, 1} /\ entry.mine
                   /\ entry.mine => in \/ ~unused

(* From `before' to `after' userjoinedchatroom or userleftchatroom about c *)
(* is applied, for every room x in R to all in lists[x].  It does not make *)
(* a page show the room.                                                   *)
Tells(after, before, R, lists, c, number, in) ==
    /\ after \in Pages
    /\ \A d \in Clients, x \in RoomIds :
         IF x \in R /\ d \in Receivers(lists[x])
         THEN /\ after[d][x].shown = before[d][x].shown
              /\ before[d][x].shown =>
                   /\ after[d][x].count = number[x]
                   /\ after[d][x].mine = IF d = c THEN in ELSE before[d][x].mine
         ELSE after[d][x] = before[d][x]

LEMMA ToldTells ==
    ASSUME NEW pages \in Pages, NEW r \in RoomIds, NEW lists, NEW c, NEW number,
           number[r] \in 0 .. Cardinality(Clients), NEW in \in BOOLEAN
    PROVE  Tells(Told(pages, r, lists[r], c, number[r], in), pages, {r}, lists, c, number, in)
<1> DEFINE after == Told(pages, r, lists[r], c, number[r], in)
           entry(d) == IF d = c THEN OfItself(pages[d][r], number[r], in)
                       ELSE OfOther(pages[d][r], number[r])
<1>1. ASSUME NEW d \in Clients
      PROVE  /\ entry(d) \in Entries
             /\ entry(d).shown = pages[d][r].shown
             /\ pages[d][r].shown =>
                  /\ entry(d).count = number[r]
                  /\ entry(d).mine = IF d = c THEN in ELSE pages[d][r].mine
  <2>1. pages[d][r] \in Entries
    BY DEF Pages
  <2>. QED
    BY <2>1 DEF Entries, OfItself, OfOther
<1>. HIDE DEF entry
<1>2. after = [d \in Clients |-> IF d \notin Receivers(lists[r]) THEN pages[d]
                                 ELSE [pages[d] EXCEPT ![r] = entry(d)]]
  BY DEF Told, entry
<1>. HIDE DEF after
<1>3. ASSUME NEW d \in Clients
      PROVE  /\ after[d] \in [RoomIds -> Entries]
             /\ \A x \in RoomIds :
                  after[d][x] = IF x = r /\ d \in Receivers(lists[r])
                                THEN entry(d) ELSE pages[d][x]
  <2>1. pages[d] \in [RoomIds -> Entries]
    BY DEF Pages
  <2>. QED
    BY <1>1, <1>2, <2>1
<1>4. after \in Pages
  BY <1>2, <1>3 DEF Pages
<1>5. Tells(after, pages, {r}, lists, c, number, in)
  BY <1>1, <1>3, <1>4 DEF Tells
<1>. QED
  BY <1>5 DEF after

LEMMA ToldAllTells ==
    ASSUME page \in Pages, NEW R \in SUBSET RoomIds, NEW lists, NEW c, NEW number,
           \A x \in R : number[x] \in 0 .. Cardinality(Clients), NEW in \in BOOLEAN
    PROVE  Tells(ToldAll(R, lists, c, number, in), page, R, lists, c, number, in)
<1> DEFINE after == ToldAll(R, lists, c, number, in)
           one(x) == Told(page, x, lists[x], c, number[x], in)
<1>1. after = [d \in Clients |-> [x \in RoomIds |-> IF x \in R THEN one(x)[d][x]
                                                    ELSE page[d][x]]]
  BY DEF ToldAll
<1>2. ASSUME NEW x \in R PROVE Tells(one(x), page, {x}, lists, c, number, in)
  BY <1>2, ToldTells
<1>. HIDE DEF after, one
<1>3. ASSUME NEW d \in Clients, NEW x \in RoomIds
      PROVE  /\ after[d][x] \in Entries
             /\ x \notin R => after[d][x] = page[d][x]
             /\ x \in R => after[d][x] = one(x)[d][x]
  <2>1. after[d][x] = IF x \in R THEN one(x)[d][x] ELSE page[d][x]
    BY <1>1
  <2>2. page[d][x] \in Entries
    BY DEF Pages
  <2>3. x \in R => one(x)[d][x] \in Entries
    BY <1>2 DEF Tells, Pages
  <2>. QED
    BY <2>1, <2>2, <2>3
<1>4. after \in Pages
  BY <1>1, <1>3 DEF Pages
<1>5. ASSUME NEW d \in Clients, NEW x \in RoomIds
      PROVE  IF x \in R /\ d \in Receivers(lists[x])
             THEN /\ after[d][x].shown = page[d][x].shown
                  /\ page[d][x].shown =>
                       /\ after[d][x].count = number[x]
                       /\ after[d][x].mine = IF d = c THEN in ELSE page[d][x].mine
             ELSE after[d][x] = page[d][x]
  <2>1. CASE x \in R
    <3>1. Tells(one(x), page, {x}, lists, c, number, in)
      BY <1>2, <2>1
    <3>. QED
      BY <1>3, <2>1, <3>1 DEF Tells
  <2>2. CASE x \notin R
    BY <1>3, <2>2
  <2>. QED
    BY <2>1, <2>2
<1>6. Tells(after, page, R, lists, c, number, in)
  BY <1>4, <1>5 DEF Tells
<1>. QED
  BY <1>6 DEF after

(* The same for each of the two messages. *)
LEMMA JoinedOrLeft ==
    ASSUME NEW pages \in Pages, NEW r \in RoomIds, NEW lists, NEW c, NEW number,
           number[r] \in 0 .. Cardinality(Clients)
    PROVE  /\ Tells(Told(pages, r, lists[r], c, number[r], TRUE), pages, {r}, lists, c,
                    number, TRUE)
           /\ Tells(Told(pages, r, lists[r], c, number[r], FALSE), pages, {r}, lists, c,
                    number, FALSE)
<1>1. TRUE \in BOOLEAN /\ FALSE \in BOOLEAN
  OBVIOUS
<1>. QED
  BY <1>1, ToldTells, Zenon

LEMMA AllJoinedOrLeft ==
    ASSUME page \in Pages, NEW R \in SUBSET RoomIds, NEW lists, NEW c, NEW number,
           \A x \in R : number[x] \in 0 .. Cardinality(Clients)
    PROVE  /\ Tells(ToldAll(R, lists, c, number, TRUE), page, R, lists, c, number, TRUE)
           /\ Tells(ToldAll(R, lists, c, number, FALSE), page, R, lists, c, number, FALSE)
<1>1. TRUE \in BOOLEAN /\ FALSE \in BOOLEAN
  OBVIOUS
<1>. QED
  BY <1>1, ToldAllTells, Zenon

(* A message does not change the page of a client that is not connected. *)
LEMMA TellsOpen ==
    ASSUME NEW after, NEW before \in Pages, NEW R, NEW lists, NEW c, NEW number, NEW in,
           Tells(after, before, R, lists, c, number, in),
           NEW d \in Clients, wsi[d] # "open"
    PROVE  after[d] = before[d]
<1>1. \A x \in RoomIds : after[d][x] = before[d][x]
  BY DEF Tells, Receivers
<1>2. after[d] \in [RoomIds -> Entries] /\ before[d] \in [RoomIds -> Entries]
  BY DEF Tells, Pages
<1>. QED
  BY <1>1, <1>2

LEMMA DeletedEntry ==
    ASSUME WithinCapacity, NEW pages \in Pages, NEW gone
    PROVE  /\ Deleted(pages, gone) \in Pages
           /\ \A d \in Clients, x \in RoomIds :
                Deleted(pages, gone)[d][x] =
                    IF x \in gone /\ d \in Receivers(chatclients) THEN NotShown ELSE pages[d][x]
<1>1. NotShown \in Entries /\ NotShown.shown = FALSE
  <2>1. Cardinality(Clients) \in Nat
    BY FS_CardinalityType DEF WithinCapacity
  <2>. QED
    BY <2>1 DEF NotShown, Entries
<1>. QED
  BY <1>1 DEF Deleted, Pages

(* A message reaches the open connections in the list it goes to. *)
LEMMA ReceiversOpen ==
    ASSUME TypeOK, NEW list \in Lists(Clients), Flat(list)
    PROVE  \A d \in Clients : d \in Receivers(list) <=> d \in list.head /\ wsi[d] = "open"
  BY FlatMembers DEF Receivers, Lists

(* chatroomwasdeleted reaches every open connection. *)
LEMMA OpenReceive ==
    ASSUME IndInv, NEW d \in Clients, wsi[d] = "open"
    PROVE  d \in Receivers(chatclients)
  BY IndInvParts, ReceiversOpen DEF TypeOK, RoomsInv, ListsFlat, ClientsConnected

(* The number of clients in a room is at most that of all clients. *)
LEMMA NumberFits ==
    ASSUME WithinCapacity, TypeOK, RoomsInv, NEW r \in heap
    PROVE  number_of_clients[r] \in 0 .. Cardinality(Clients)
<1>1. /\ r \in RoomIds /\ clients[r].head \subseteq Clients
      /\ number_of_clients[r] = Cardinality(clients[r].head)
  BY DEF TypeOK, Lists, RoomsInv, RoomsCounted
<1>2. /\ Cardinality(clients[r].head) <= Cardinality(Clients)
      /\ Cardinality(Clients) \in Nat /\ Cardinality(clients[r].head) \in Nat
  BY <1>1, FS_Subset, FS_CardinalityType DEF WithinCapacity
<1>. QED
  BY <1>1, <1>2

(* What is right on the page of one client, room by room. *)
PagesRight ==
    \A d \in Clients, x \in RoomIds : wsi[d] = "open" =>
        /\ page[d][x].shown => x \in heap
        /\ d \in listed /\ x \in heap => page[d][x].shown
        /\ x \in heap => Near(page[d][x], d \in clients[x].head, number_of_clients[x],
                              delete_if_unused[x])

LEMMA RightMeans ==
    TypeOK /\ RoomsInv => (PagesRight <=> PageShowsRooms /\ PageNearlyRight)
<1>. SUFFICES ASSUME TypeOK, RoomsInv PROVE PagesRight <=> PageShowsRooms /\ PageNearlyRight
  OBVIOUS
<1>1. /\ heap \subseteq RoomIds
      /\ \A r \in RoomIds : Members(clients[r]) = clients[r].head
  BY Registered
<1>2. PagesRight => PageShowsRooms
  BY <1>1 DEF PagesRight, PageShowsRooms
<1>3. PagesRight => PageNearlyRight
  BY <1>1 DEF PagesRight, PageNearlyRight, Near
<1>4. ASSUME PageShowsRooms, PageNearlyRight PROVE PagesRight
  <2>. SUFFICES ASSUME NEW d \in Clients, NEW x \in RoomIds, wsi[d] = "open"
                PROVE  /\ page[d][x].shown => x \in heap
                       /\ d \in listed /\ x \in heap => page[d][x].shown
                       /\ x \in heap => Near(page[d][x], d \in clients[x].head,
                                             number_of_clients[x], delete_if_unused[x])
    BY DEF PagesRight
  <2>1. /\ page[d][x].shown => x \in heap
        /\ d \in listed /\ x \in heap => page[d][x].shown
    BY <1>4 DEF PageShowsRooms
  <2>2. x \in heap => Near(page[d][x], d \in clients[x].head, number_of_clients[x],
                           delete_if_unused[x])
    BY <1>1, <1>4 DEF PageNearlyRight, Near
  <2>. QED
    BY <2>1, <2>2
<1>. QED
  BY <1>2, <1>3, <1>4

LEMMA PageInvParts ==
    PageInv <=> IndInv /\ page \in Pages /\ listed \subseteq Clients /\ NoPageYet /\ PagesRight
<1>1. PageTypeOK <=> page \in Pages /\ listed \subseteq Clients
  BY DEF PageTypeOK, Pages, Entries
<1>. QED
  BY <1>1, RightMeans, IndInvParts DEF PageInv

LEMMA PageInvPartsNext ==
    PageInv' <=> /\ IndInv' /\ page' \in Pages /\ listed' \subseteq Clients
                 /\ NoPageYet' /\ PagesRight'
<1>1. PageInv' <=> (IndInv /\ page \in Pages /\ listed \subseteq Clients /\ NoPageYet
                       /\ PagesRight)'
  BY PageInvParts, PTL
<1>. QED
  BY <1>1

(* A command that creates no room: a page loses the rooms that are deleted *)
(* and shows those it did, with numbers that are near the new ones.        *)
LEMMA PagesKept ==
    ASSUME PageInv, IndInv', page' \in Pages, UNCHANGED <<wsi, listed, delete_if_unused>>,
           heap' \subseteq heap,
           \A d \in Clients : wsi[d] # "open" => page'[d] = page[d],
           \A d \in Clients, x \in RoomIds : wsi[d] = "open" =>
              page'[d][x].shown = (page[d][x].shown /\ (x \in heap => x \in heap')),
           \A d \in Clients, x \in heap' : wsi[d] = "open" /\ page[d][x].shown =>
              Near(page'[d][x], d \in clients'[x].head, number_of_clients'[x],
                   delete_if_unused[x])
    PROVE  PageInv'
<1>1. /\ PagesRight /\ NoPageYet /\ listed \subseteq Clients /\ heap \subseteq RoomIds
  BY PageInvParts, IndInvParts DEF TypeOK
<1>2. NoPageYet'
  BY <1>1 DEF NoPageYet
<1>3. ASSUME NEW d \in Clients, NEW x \in RoomIds, wsi[d] = "open"
      PROVE  /\ page'[d][x].shown => x \in heap'
             /\ d \in listed /\ x \in heap' => page'[d][x].shown
             /\ x \in heap' => Near(page'[d][x], d \in clients'[x].head,
                                    number_of_clients'[x], delete_if_unused[x])
  <2>1. /\ page[d][x].shown => x \in heap
        /\ d \in listed /\ x \in heap => page[d][x].shown
    BY <1>1, <1>3 DEF PagesRight
  <2>2. page'[d][x].shown = (page[d][x].shown /\ (x \in heap => x \in heap'))
    BY <1>3
  <2>3. x \in heap' => Near(page'[d][x], d \in clients'[x].head, number_of_clients'[x],
                            delete_if_unused[x])
    <3>1. CASE page[d][x].shown
      BY <1>3, <3>1
    <3>2. CASE ~page[d][x].shown
      BY <2>2, <3>2 DEF Near
    <3>. QED
      BY <3>1, <3>2
  <2>. QED
    BY <2>1, <2>2, <2>3
<1>4. PagesRight'
  BY <1>3 DEF PagesRight
<1>. QED
  BY <1>1, <1>2, <1>4, PageInvPartsNext

-----------------------------------------------------------------------------
(* The commands keep the pages right.                                      *)

(* exit_all_chatrooms: a client leaves rooms it is in, and every page is   *)
(* right about those that are not deleted.                                 *)
LEMMA AfterExit ==
    ASSUME WithinCapacity, PageInv, NEW c \in Clients,
           NEW R \in SUBSET RoomIds, R \subseteq rooms[c].head
    PROVE  LET after == PageAfterExit(c, R)
               gone == Unused(c, R)
           IN  /\ after \in Pages
               /\ \A d \in Clients : wsi[d] # "open" => after[d] = page[d]
               /\ \A d \in Clients, x \in RoomIds : wsi[d] = "open" =>
                    /\ after[d][x].shown = (page[d][x].shown /\ x \notin gone)
                    /\ x \notin R => after[d][x] = page[d][x]
               /\ \A d \in Clients, x \in heap \ gone : wsi[d] = "open" /\ page[d][x].shown =>
                    Near(after[d][x], d \in ClientsWithout(c, R)[x].head,
                         NumberWithout(c, R)[x], delete_if_unused[x])
<1> DEFINE after == PageAfterExit(c, R)
           gone == Unused(c, R)
           told == ToldAll(R, clients, c, number_of_clients, FALSE)
<1>1. /\ IndInv /\ TypeOK /\ RoomsInv /\ page \in Pages /\ PagesRight
  BY PageInvParts, IndInvParts
<1>2. /\ R \subseteq heap /\ heap \subseteq RoomIds
      /\ \A x \in R : c \in clients[x].head
  BY <1>1 DEF TypeOK, RoomsInv, RoomsExist, RoomsCounted
<1>3. gone \subseteq R
  BY DEF Unused
<1>4. \A x \in R : number_of_clients[x] \in 0 .. Cardinality(Clients)
  BY <1>1, <1>2, NumberFits
<1>5. Tells(told, page, R, clients, c, number_of_clients, FALSE)
  BY <1>1, <1>4, AllJoinedOrLeft
<1>6. \A d \in Clients, x \in RoomIds :
        d \in Receivers(clients[x]) <=> d \in clients[x].head /\ wsi[d] = "open"
  BY <1>1, ReceiversOpen DEF TypeOK, RoomsInv, ListsFlat
<1>. HIDE DEF told, gone
<1>7. /\ after \in Pages
      /\ \A d \in Clients, x \in RoomIds :
           after[d][x] = IF x \in gone /\ d \in Receivers(chatclients)
                         THEN NotShown ELSE told[d][x]
  <2>1. told \in Pages
    BY <1>5 DEF Tells
  <2>2. after = Deleted(told, gone)
    BY DEF PageAfterExit, told, gone
  <2>. QED
    BY <2>1, <2>2, DeletedEntry
<1>. HIDE DEF after
<1>8. ASSUME NEW d \in Clients, wsi[d] # "open" PROVE after[d] = page[d]
  <2>1. d \notin Receivers(chatclients)
    BY <1>8 DEF Receivers
  <2>2. told[d] = page[d]
    BY <1>1, <1>5, <1>8, TellsOpen
  <2>3. \A x \in RoomIds : after[d][x] = page[d][x]
    BY <1>7, <2>1, <2>2
  <2>4. after[d] \in [RoomIds -> Entries] /\ page[d] \in [RoomIds -> Entries]
    BY <1>1, <1>7 DEF Pages
  <2>. QED
    BY <2>3, <2>4
<1>9. ASSUME NEW d \in Clients, NEW x \in RoomIds, wsi[d] = "open"
      PROVE  /\ after[d][x] = IF x \in gone THEN NotShown ELSE told[d][x]
             /\ x \in R /\ d \in clients[x].head =>
                  /\ told[d][x].shown = page[d][x].shown
                  /\ page[d][x].shown =>
                       /\ told[d][x].count = number_of_clients[x]
                       /\ told[d][x].mine = IF d = c THEN FALSE ELSE page[d][x].mine
             /\ ~(x \in R /\ d \in clients[x].head) => told[d][x] = page[d][x]
  <2>1. d \in Receivers(chatclients)
    BY <1>1, <1>9, OpenReceive
  <2>2. d \in Receivers(clients[x]) <=> d \in clients[x].head
    BY <1>6, <1>9
  <2>. QED
    BY <1>5, <1>7, <2>1, <2>2 DEF Tells
<1>10. ASSUME NEW d \in Clients, NEW x \in RoomIds, wsi[d] = "open"
       PROVE  /\ after[d][x].shown = (page[d][x].shown /\ x \notin gone)
              /\ x \notin R => after[d][x] = page[d][x]
  <2>1. told[d][x].shown = page[d][x].shown
    BY <1>9, <1>10
  <2>2. NotShown.shown = FALSE /\ page[d][x].shown \in BOOLEAN
    BY <1>1 DEF NotShown, Pages, Entries
  <2>3. after[d][x] = IF x \in gone THEN NotShown ELSE told[d][x]
    BY <1>9, <1>10
  <2>4. x \notin R => told[d][x] = page[d][x]
    BY <1>9, <1>10
  <2>. QED
    BY <1>3, <2>1, <2>2, <2>3, <2>4
<1>11. ASSUME NEW d \in Clients, NEW x \in heap \ gone, wsi[d] = "open", page[d][x].shown
       PROVE  Near(after[d][x], d \in ClientsWithout(c, R)[x].head,
                   NumberWithout(c, R)[x], delete_if_unused[x])
  <2>0. x \in RoomIds
    BY <1>2
  <2>1. ClientsWithout(c, R)[x].head = IF x \in R THEN clients[x].head \ {c} ELSE clients[x].head
    <3>1. \A y \in RoomIds :
            ClientsWithout(c, R)[y].head =
                IF y \in R THEN clients[y].head \ {c} ELSE clients[y].head
      BY <1>1, Leaving
    <3>. QED
      BY <2>0, <3>1
  <2>2. NumberWithout(c, R)[x] =
          IF x \in R THEN number_of_clients[x] - 1 ELSE number_of_clients[x]
    BY <1>2, <2>0 DEF NumberWithout, Found
  <2>3. Near(page[d][x], d \in clients[x].head, number_of_clients[x], delete_if_unused[x])
    BY <1>1, <1>11, <2>0 DEF PagesRight
  <2>4. after[d][x] = told[d][x] /\ number_of_clients[x] \in Int
    BY <1>1, <1>9, <1>11, <2>0 DEF TypeOK
  <2>5. CASE x \in R /\ d \in clients[x].head
    <3>1. /\ told[d][x].count = number_of_clients[x]
          /\ told[d][x].mine = IF d = c THEN FALSE ELSE page[d][x].mine
      BY <1>9, <1>11, <2>0, <2>5
    <3>2. page[d][x].mine
      BY <1>11, <2>3, <2>5 DEF Near
    <3>3. told[d][x].count - NumberWithout(c, R)[x] = 1
      BY <2>2, <2>4, <2>5, <3>1
    <3>4. d \in ClientsWithout(c, R)[x].head <=> d # c
      BY <2>1, <2>5
    <3>5. told[d][x].mine <=> d # c
      BY <3>1, <3>2
    <3>. QED
      BY <2>4, <3>3, <3>4, <3>5 DEF Near
  <2>6. CASE ~(x \in R /\ d \in clients[x].head)
    <3>1. after[d][x] = page[d][x]
      BY <1>9, <1>11, <2>0, <2>4, <2>6
    <3>2. CASE x \in R
      BY <2>1, <2>3, <2>6, <3>1, <3>2 DEF Near
    <3>3. CASE x \notin R
      BY <2>1, <2>2, <2>3, <3>1, <3>3
    <3>. QED
      BY <3>2, <3>3
  <2>. QED
    BY <2>5, <2>6
<1>. QED
  BY <1>7, <1>8, <1>10, <1>11 DEF after, gone

(* The numbers after a step fit the page as those before it. *)
LEMMA NumberFitsNext ==
    ASSUME WithinCapacity, TypeOK', RoomsInv', NEW r \in heap'
    PROVE  number_of_clients'[r] \in 0 .. Cardinality(Clients)
<1>1. /\ r \in RoomIds /\ clients'[r].head \subseteq Clients
      /\ number_of_clients'[r] = Cardinality(clients'[r].head)
  BY DEF TypeOK, Lists, RoomsInv, RoomsCounted
<1>2. /\ Cardinality(clients'[r].head) <= Cardinality(Clients)
      /\ Cardinality(Clients) \in Nat /\ Cardinality(clients'[r].head) \in Nat
  BY <1>1, FS_Subset, FS_CardinalityType DEF WithinCapacity
<1>. QED
  BY <1>1, <1>2

LEMMA LogoutPageKeeps ==
    ASSUME WithinCapacity, PageInv, IndInv',
           NEW c \in Clients, NEW disconnect \in BOOLEAN, LogoutPage(c, disconnect)
    PROVE  PageInv'
<1> DEFINE R == rooms[c].head
           gone == Unused(c, R)
<1>1. TypeOK /\ RoomsInv /\ heap \subseteq RoomIds /\ R \in SUBSET RoomIds
  BY PageInvParts, IndInvParts DEF TypeOK, Lists
<1>2. Members(rooms[c]) = R
  BY <1>1, Registered
<1>3. /\ clients' = ClientsWithout(c, R) /\ number_of_clients' = NumberWithout(c, R)
      /\ heap' = heap \ gone /\ UNCHANGED <<wsi, listed, delete_if_unused>>
      /\ page' = PageAfterExit(c, R)
  BY <1>2 DEF LogoutPage, Logout, ExitAllChatRooms
<1>. HIDE DEF R
<1>4. /\ page' \in Pages
      /\ \A d \in Clients : wsi[d] # "open" => page'[d] = page[d]
      /\ \A d \in Clients, x \in RoomIds : wsi[d] = "open" =>
           page'[d][x].shown = (page[d][x].shown /\ x \notin gone)
      /\ \A d \in Clients, x \in heap \ gone : wsi[d] = "open" /\ page[d][x].shown =>
           Near(page'[d][x], d \in clients'[x].head, number_of_clients'[x],
                delete_if_unused[x])
  <2>1. R \subseteq rooms[c].head
    BY DEF R
  <2>. QED
    BY <1>1, <1>3, <2>1, AfterExit
<1>5. \A x \in RoomIds : x \notin gone <=> (x \in heap => x \in heap')
  BY <1>1, <1>3 DEF Unused, R, RoomsInv, RoomsExist
<1>. HIDE DEF gone
<1>6. \A d \in Clients, x \in RoomIds : wsi[d] = "open" =>
           page'[d][x].shown = (page[d][x].shown /\ (x \in heap => x \in heap'))
  BY <1>4, <1>5
<1>. QED
  BY <1>3, <1>4, <1>6, PagesKept

LEMMA LoginPageKeeps ==
    ASSUME WithinCapacity, PageInv, IndInv', NEW c \in Clients, LoginPage(c)
    PROVE  PageInv'
<1> DEFINE R == rooms[c].head
<1>1. /\ TypeOK /\ RoomsInv /\ page \in Pages /\ PagesRight
      /\ heap \subseteq RoomIds /\ R \in SUBSET RoomIds /\ R \subseteq heap
  BY PageInvParts, IndInvParts DEF TypeOK, Lists, RoomsInv, RoomsExist
<1>2. UNCHANGED <<wsi, listed, heap, clients, number_of_clients, delete_if_unused>>
  BY DEF LoginPage, Login, room_vars
<1>3. Tells(page', page, R, clients, c, number_of_clients, TRUE)
  <2>1. page' = ToldAll(R, clients, c, number_of_clients, TRUE)
    BY <1>1, Registered DEF LoginPage
  <2>2. \A x \in R : number_of_clients[x] \in 0 .. Cardinality(Clients)
    BY <1>1, NumberFits
  <2>. HIDE DEF R
  <2>. QED
    BY <1>1, <2>1, <2>2, AllJoinedOrLeft
<1>. HIDE DEF R
<1>4. \A d \in Clients : wsi[d] # "open" => page'[d] = page[d]
  BY <1>1, <1>3, TellsOpen
<1>5. page' \in Pages /\ \A d \in Clients, x \in RoomIds : page'[d][x].shown = page[d][x].shown
  BY <1>3 DEF Tells
<1>6. ASSUME NEW d \in Clients, NEW x \in heap, wsi[d] = "open", page[d][x].shown
      PROVE  Near(page'[d][x], d \in clients[x].head, number_of_clients[x],
                  delete_if_unused[x])
  <2>1. x \in RoomIds /\ number_of_clients[x] \in Int
    BY <1>1 DEF TypeOK
  <2>2. Near(page[d][x], d \in clients[x].head, number_of_clients[x], delete_if_unused[x])
    BY <1>1, <1>6, <2>1 DEF PagesRight
  <2>3. d \in Receivers(clients[x]) <=> d \in clients[x].head
    BY <1>1, <1>6, <2>1, ReceiversOpen DEF TypeOK, RoomsInv, ListsFlat
  <2>4. CASE x \in R /\ d \in clients[x].head
    <3>1. /\ page'[d][x].count = number_of_clients[x]
          /\ page'[d][x].mine = IF d = c THEN TRUE ELSE page[d][x].mine
      BY <1>3, <1>6, <2>1, <2>3, <2>4 DEF Tells
    <3>2. page[d][x].mine
      BY <1>6, <2>2, <2>4 DEF Near
    <3>. QED
      BY <2>1, <2>4, <3>1, <3>2 DEF Near
  <2>5. CASE ~(x \in R /\ d \in clients[x].head)
    BY <1>3, <2>1, <2>2, <2>3, <2>5 DEF Tells
  <2>. QED
    BY <2>4, <2>5
<1>7. \A d \in Clients, x \in RoomIds : page[d][x].shown \in BOOLEAN
  BY <1>1 DEF Pages, Entries
<1>. QED
  BY <1>2, <1>4, <1>5, <1>6, <1>7, PagesKept

LEMMA RemoveChatRoomPageKeeps ==
    ASSUME WithinCapacity, PageInv, IndInv', NEW r \in RoomIds, RemoveChatRoomPage(r)
    PROVE  PageInv'
<1>1. /\ IndInv /\ TypeOK /\ RoomsInv /\ page \in Pages /\ PagesRight /\ heap \subseteq RoomIds
  BY PageInvParts, IndInvParts DEF TypeOK
<1>2. /\ UNCHANGED <<wsi, listed, number_of_clients, delete_if_unused>>
      /\ r \in heap /\ heap' = heap \ {r} /\ page' = Deleted(page, {r})
      /\ \A x \in RoomIds : x # r => clients'[x] = clients[x]
  BY <1>1, Registered DEF RemoveChatRoomPage, RemoveChatRoom, client_vars, TypeOK
<1>3. /\ page' \in Pages
      /\ \A d \in Clients, x \in RoomIds :
           page'[d][x] = IF x = r /\ d \in Receivers(chatclients) THEN NotShown ELSE page[d][x]
  BY <1>1, <1>2, DeletedEntry
<1>4. ASSUME NEW d \in Clients, wsi[d] # "open" PROVE page'[d] = page[d]
  <2>1. \A x \in RoomIds : page'[d][x] = page[d][x]
    BY <1>3, <1>4 DEF Receivers
  <2>2. page'[d] \in [RoomIds -> Entries] /\ page[d] \in [RoomIds -> Entries]
    BY <1>1, <1>3 DEF Pages
  <2>. QED
    BY <2>1, <2>2
<1>5. ASSUME NEW d \in Clients, NEW x \in RoomIds, wsi[d] = "open"
      PROVE  page'[d][x].shown = (page[d][x].shown /\ (x \in heap => x \in heap'))
  <2>1. page'[d][x] = IF x = r THEN NotShown ELSE page[d][x]
    BY <1>1, <1>3, <1>5, OpenReceive
  <2>2. page[d][x].shown \in BOOLEAN
    BY <1>1 DEF Pages, Entries
  <2>3. (x \in heap => x \in heap') <=> x # r
    BY <1>2
  <2>4. CASE x = r
    <3>1. page'[d][x].shown = FALSE
      BY <2>1, <2>4 DEF NotShown
    <3>. QED
      BY <2>2, <2>3, <2>4, <3>1
  <2>5. CASE x # r
    BY <2>1, <2>2, <2>3, <2>5
  <2>. QED
    BY <2>4, <2>5
<1>6. ASSUME NEW d \in Clients, NEW x \in heap', wsi[d] = "open", page[d][x].shown
      PROVE  Near(page'[d][x], d \in clients'[x].head, number_of_clients'[x],
                  delete_if_unused[x])
  <2>1. x \in RoomIds /\ x # r /\ x \in heap
    BY <1>1, <1>2
  <2>2. page'[d][x] = page[d][x] /\ clients'[x] = clients[x]
    BY <1>2, <1>3, <2>1
  <2>. QED
    BY <1>1, <1>2, <1>6, <2>1, <2>2 DEF PagesRight
<1>. QED
  BY <1>2, <1>3, <1>4, <1>5, <1>6, PagesKept

LEMMA LeaveChatRoomPageKeeps ==
    ASSUME WithinCapacity, PageInv, IndInv',
           NEW c \in Clients, NEW r \in RoomIds, LeaveChatRoomPage(c, r)
    PROVE  PageInv'
<1> DEFINE gone == IF NumberWithout(c, {r})[r] > 0 THEN {} ELSE Unused(c, {r})
           told == Told(page, r, clients'[r], c, number_of_clients'[r], FALSE)
<1>1. /\ IndInv /\ TypeOK /\ RoomsInv /\ page \in Pages /\ PagesRight /\ heap \subseteq RoomIds
      /\ TypeOK' /\ RoomsInv'
  BY PageInvParts, IndInvParts DEF TypeOK
<1>2. /\ UNCHANGED <<wsi, listed, delete_if_unused>>
      /\ clients' = ClientsWithout(c, {r}) /\ number_of_clients' = NumberWithout(c, {r})
      /\ heap' = heap \ gone /\ r \in heap /\ c \in clients[r].head
  BY <1>1, Registered DEF LeaveChatRoomPage, LeaveChatRoom, client_vars, Found
<1>3. /\ {r} \in SUBSET RoomIds
      /\ \A x \in RoomIds : x # r => /\ clients'[x] = clients[x]
                                     /\ number_of_clients'[x] = number_of_clients[x]
      /\ number_of_clients'[r] = number_of_clients[r] - 1
  BY <1>1, <1>2 DEF ClientsWithout, NumberWithout, Found
<1>4. clients'[r].head = clients[r].head \ {c}
  <2>1. \A x \in RoomIds : ClientsWithout(c, {r})[x].head =
                               IF x \in {r} THEN clients[x].head \ {c} ELSE clients[x].head
    BY <1>1, <1>3, Leaving
  <2>. QED
    BY <1>2, <2>1
<1>5. number_of_clients'[r] \in Nat /\ number_of_clients'[r] \in 0 .. Cardinality(Clients)
  <2>1. /\ number_of_clients[r] \in 0 .. Cardinality(Clients)
        /\ number_of_clients[r] = Cardinality(clients[r].head)
    BY <1>1, <1>2, NumberFits DEF RoomsInv, RoomsCounted
  <2>2. IsFiniteSet(clients[r].head) /\ Cardinality(Clients) \in Nat
    BY <1>1, FiniteRoom, FS_CardinalityType DEF WithinCapacity
  <2>3. number_of_clients[r] # 0
    BY <1>2, <2>1, <2>2, FS_EmptySet
  <2>. QED
    BY <1>3, <2>1, <2>2, <2>3
<1>6. IF number_of_clients'[r] = 0 THEN page' = Deleted(page, heap \ heap')
      ELSE page' = IF wsi[c] # "open" THEN told
                   ELSE [told EXCEPT ![c][r] = OfItself(@, number_of_clients'[r], FALSE)]
  BY DEF LeaveChatRoomPage
<1>. HIDE DEF told
<1>7. CASE number_of_clients'[r] = 0
  <2>1. page' = Deleted(page, gone) /\ gone = Unused(c, {r}) /\ gone \subseteq {r}
    BY <1>1, <1>2, <1>6, <1>7 DEF Unused
  <2>2. r \notin gone => ~delete_if_unused[r]
    BY <1>1, <1>2, <1>7, <2>1 DEF Unused, TypeOK
  <2>3. clients'[r].head = {}
    <3>1. r \notin gone => number_of_clients'[r] = Cardinality(clients'[r].head)
      BY <1>1, <1>2 DEF RoomsInv, RoomsCounted
    <3>2. \A x \in heap : NumberWithout(c, {r})[x] = Cardinality(ClientsWithout(c, {r})[x].head)
      BY <1>1, <1>3, Leaving
    <3>3. Cardinality(clients'[r].head) = 0
      BY <1>2, <1>7, <3>2
    <3>4. clients[r].head \subseteq Clients
      BY <1>1 DEF TypeOK, Lists
    <3>5. IsFiniteSet(clients'[r].head)
      BY <1>4, <3>4, FS_Subset DEF WithinCapacity
    <3>. QED
      BY <3>3, <3>5, FS_EmptySet
  <2>. HIDE DEF gone
  <2>4. /\ page' \in Pages
        /\ \A d \in Clients, x \in RoomIds :
             page'[d][x] = IF x \in gone /\ d \in Receivers(chatclients)
                           THEN NotShown ELSE page[d][x]
    BY <1>1, <2>1, DeletedEntry
  <2>5. ASSUME NEW d \in Clients, wsi[d] # "open" PROVE page'[d] = page[d]
    <3>1. \A x \in RoomIds : page'[d][x] = page[d][x]
      BY <2>4, <2>5 DEF Receivers
    <3>2. page'[d] \in [RoomIds -> Entries] /\ page[d] \in [RoomIds -> Entries]
      BY <1>1, <2>4 DEF Pages
    <3>. QED
      BY <3>1, <3>2
  <2>6. ASSUME NEW d \in Clients, NEW x \in RoomIds, wsi[d] = "open"
        PROVE  page'[d][x].shown = (page[d][x].shown /\ (x \in heap => x \in heap'))
    <3>1. page'[d][x] = IF x \in gone THEN NotShown ELSE page[d][x]
      BY <1>1, <2>4, <2>6, OpenReceive
    <3>2. page[d][x].shown \in BOOLEAN
      BY <1>1 DEF Pages, Entries
    <3>3. (x \in heap => x \in heap') <=> x \notin gone
      BY <1>2, <2>1
    <3>4. CASE x \in gone
      <4>1. page'[d][x].shown = FALSE
        BY <3>1, <3>4 DEF NotShown
      <4>. QED
        BY <3>2, <3>3, <3>4, <4>1
    <3>5. CASE x \notin gone
      BY <3>1, <3>2, <3>3, <3>5
    <3>. QED
      BY <3>4, <3>5
  <2>7. ASSUME NEW d \in Clients, NEW x \in heap', wsi[d] = "open", page[d][x].shown
        PROVE  Near(page'[d][x], d \in clients'[x].head, number_of_clients'[x],
                    delete_if_unused[x])
    <3>1. x \in RoomIds /\ x \in heap /\ x \notin gone
      BY <1>1, <1>2
    <3>2. page'[d][x] = page[d][x]
      BY <2>4, <3>1
    <3>3. CASE x = r
      BY <2>2, <2>3, <3>1, <3>3 DEF Near
    <3>4. CASE x # r
      BY <1>1, <1>3, <2>7, <3>1, <3>2, <3>4 DEF PagesRight
    <3>. QED
      BY <3>3, <3>4
  <2>. QED
    BY <1>2, <2>4, <2>5, <2>6, <2>7, PagesKept
<1>8. CASE number_of_clients'[r] # 0
  <2>1. gone = {} /\ heap' = heap
    BY <1>2, <1>5, <1>8
  <2>. HIDE DEF gone
  <2>2. Tells(told, page, {r}, clients', c, number_of_clients', FALSE)
    BY <1>1, <1>5, JoinedOrLeft DEF told
  <2>3. ASSUME NEW d \in Clients, wsi[d] # "open" PROVE page'[d] = page[d]
    <3>1. told[d] = page[d]
      BY <1>1, <2>2, <2>3, TellsOpen
    <3>2. page'[d] = told[d]
      BY <1>6, <1>8, <2>2, <2>3 DEF Tells, Pages
    <3>. QED
      BY <3>1, <3>2
  <2>4. ASSUME NEW d \in Clients, wsi[d] = "open"
        PROVE  /\ page'[d] \in [RoomIds -> Entries]
               /\ \A x \in RoomIds : x # r \/ (d # c /\ d \notin clients'[r].head)
                    => page'[d][x] = page[d][x]
               /\ page'[d][r].shown = page[d][r].shown
               /\ page[d][r].shown /\ (d = c \/ d \in clients'[r].head) =>
                    /\ page'[d][r].count = number_of_clients'[r]
                    /\ page'[d][r].mine = IF d = c THEN FALSE ELSE page[d][r].mine
    <3>1. d \in Receivers(clients'[r]) <=> d \in clients'[r].head
      BY <1>1, <2>4, ReceiversOpen DEF TypeOK, RoomsInv, ListsFlat
    <3>2. /\ told[d] \in [RoomIds -> Entries] /\ told[d][r] \in Entries
          /\ \A x \in RoomIds : x # r => told[d][x] = page[d][x]
          /\ told[d][r].shown = page[d][r].shown
          /\ d \notin clients'[r].head => told[d][r] = page[d][r]
          /\ page[d][r].shown /\ d \in clients'[r].head =>
               /\ told[d][r].count = number_of_clients'[r]
               /\ told[d][r].mine = IF d = c THEN FALSE ELSE page[d][r].mine
      <4>1. told[d] \in [RoomIds -> Entries] /\ told[d][r] \in Entries
        BY <2>2 DEF Tells, Pages
      <4>2. \A x \in RoomIds :
              IF x = r /\ d \in Receivers(clients'[x])
              THEN /\ told[d][x].shown = page[d][x].shown
                   /\ page[d][x].shown =>
                        /\ told[d][x].count = number_of_clients'[x]
                        /\ told[d][x].mine = IF d = c THEN FALSE ELSE page[d][x].mine
              ELSE told[d][x] = page[d][x]
        BY <2>2 DEF Tells
      <4>. QED
        BY <3>1, <4>1, <4>2
    <3>3. CASE d # c
      <4>1. page'[d] = told[d]
        BY <1>6, <1>8, <2>2, <3>3 DEF Tells, Pages
      <4>. QED
        BY <3>2, <3>3, <4>1
    <3>4. CASE d = c
      <4>1. page'[d] = [told[d] EXCEPT ![r] = OfItself(told[d][r], number_of_clients'[r], FALSE)]
        BY <1>6, <1>8, <2>2, <2>4, <3>4 DEF Tells, Pages
      <4>2. LET e == OfItself(told[d][r], number_of_clients'[r], FALSE)
            IN  /\ e \in Entries /\ e.shown = told[d][r].shown
                /\ told[d][r].shown => e.count = number_of_clients'[r] /\ e.mine = FALSE
        BY <1>5, <3>2 DEF OfItself, Entries
      <4>. QED
        BY <3>2, <3>4, <4>1, <4>2
    <3>. QED
      BY <3>3, <3>4
  <2>5. page' \in Pages
    <3>1. told \in Pages /\ DOMAIN page' = Clients
      BY <1>6, <1>8, <2>2 DEF Tells, Pages
    <3>2. page' = [d \in Clients |-> page'[d]]
      BY <1>6, <1>8, <3>1 DEF Pages
    <3>3. \A d \in Clients : page'[d] \in [RoomIds -> Entries]
      BY <1>1, <2>3, <2>4 DEF Pages
    <3>. QED
      BY <3>2, <3>3 DEF Pages
  <2>6. ASSUME NEW d \in Clients, NEW x \in RoomIds, wsi[d] = "open"
        PROVE  page'[d][x].shown = (page[d][x].shown /\ (x \in heap => x \in heap'))
    <3>1. page'[d][x].shown = page[d][x].shown /\ page[d][x].shown \in BOOLEAN
      BY <1>1, <2>4, <2>6 DEF Pages, Entries
    <3>. QED
      BY <2>1, <3>1
  <2>7. ASSUME NEW d \in Clients, NEW x \in heap', wsi[d] = "open", page[d][x].shown
        PROVE  Near(page'[d][x], d \in clients'[x].head, number_of_clients'[x],
                    delete_if_unused[x])
    <3>1. x \in RoomIds /\ x \in heap
      BY <1>1, <2>1
    <3>2. Near(page[d][x], d \in clients[x].head, number_of_clients[x], delete_if_unused[x])
      BY <1>1, <2>7, <3>1 DEF PagesRight
    <3>3. CASE x # r
      BY <1>3, <2>4, <2>7, <3>1, <3>2, <3>3
    <3>4. CASE x = r /\ d = c
      <4>1. page'[d][x].mine = FALSE /\ d \notin clients'[x].head
        BY <1>4, <2>4, <2>7, <3>4
      <4>. QED
        BY <4>1 DEF Near
    <3>5. CASE x = r /\ d # c /\ d \in clients'[r].head
      <4>1. d \in clients[x].head /\ page[d][x].mine
        BY <1>4, <2>7, <3>2, <3>5 DEF Near
      <4>2. page'[d][x].count = number_of_clients'[x] /\ page'[d][x].mine
        BY <2>4, <2>7, <3>5, <4>1
      <4>. QED
        BY <1>5, <3>5, <4>2 DEF Near
    <3>6. CASE x = r /\ d # c /\ d \notin clients'[r].head
      <4>1. page'[d][x] = page[d][x] /\ d \notin clients[x].head
        BY <1>4, <2>4, <2>7, <3>1, <3>6
      <4>. QED
        BY <3>2, <3>6, <4>1 DEF Near
    <3>. QED
      BY <3>3, <3>4, <3>5, <3>6
  <2>. QED
    BY <1>2, <2>1, <2>3, <2>5, <2>6, <2>7, PagesKept
<1>. QED
  BY <1>7, <1>8

LEMMA JoinChatRoomPageKeeps ==
    ASSUME WithinCapacity, PageInv, IndInv',
           NEW c \in Clients, NEW r \in RoomIds, NEW leave_other_chatrooms \in BOOLEAN,
           JoinChatRoomPage(c, r, leave_other_chatrooms)
    PROVE  PageInv'
<1> DEFINE R == RoomsToLeave(c, leave_other_chatrooms)
           gone == Unused(c, R)
           exit == PageAfterExit(c, R)
<1>1. /\ IndInv /\ TypeOK /\ RoomsInv /\ page \in Pages /\ PagesRight /\ heap \subseteq RoomIds
      /\ TypeOK' /\ RoomsInv'
  BY PageInvParts, IndInvParts DEF TypeOK
<1>2. R \in SUBSET RoomIds /\ R \subseteq rooms[c].head
  <2>1. R = IF leave_other_chatrooms THEN rooms[c].head ELSE {}
    BY <1>1, Registered DEF RoomsToLeave
  <2>2. rooms[c].head \in SUBSET RoomIds
    BY <1>1 DEF TypeOK, Lists
  <2>. QED
    BY <2>1, <2>2
<1>3. /\ UNCHANGED <<wsi, listed, delete_if_unused>>
      /\ clients' = [ClientsWithout(c, R) EXCEPT ![r] = Add(@, c)]
      /\ number_of_clients' = [NumberWithout(c, R) EXCEPT ![r] = @ + 1]
      /\ heap' = heap \ gone
      /\ page' = Told(exit, r, clients'[r], c, number_of_clients'[r], TRUE)
  BY DEF JoinChatRoomPage, JoinChatRoom, client_vars
<1>4. r \in heap /\ c \notin clients[r].head /\ r \notin R
  BY <1>1, <1>2, Registered DEF JoinChatRoomPage, JoinChatRoom, Found, RoomsInv, RoomsCounted
<1>5. gone \subseteq R /\ r \in heap' /\ R \subseteq heap
  BY <1>1, <1>2, <1>3, <1>4 DEF Unused, RoomsInv, RoomsExist
<1>. HIDE DEF R
<1>6. \A x \in RoomIds : x # r => /\ clients'[x] = ClientsWithout(c, R)[x]
                                  /\ number_of_clients'[x] = NumberWithout(c, R)[x]
  BY <1>1, <1>2, <1>3, LeaveTypes
<1>7. clients'[r].head = clients[r].head \cup {c}
  <2>1. ClientsWithout(c, R)[r] = clients[r]
    BY <1>4 DEF ClientsWithout
  <2>2. clients'[r] = Add(clients[r], c)
    BY <1>1, <1>2, <1>3, <2>1, LeaveTypes
  <2>. QED
    BY <1>1, <2>2, Fits, FlatAdd DEF TypeOK, RoomsInv, ListsFlat
<1>8. /\ exit \in Pages
      /\ \A d \in Clients : wsi[d] # "open" => exit[d] = page[d]
      /\ \A d \in Clients, x \in RoomIds : wsi[d] = "open" =>
           /\ exit[d][x].shown = (page[d][x].shown /\ x \notin gone)
           /\ x \notin R => exit[d][x] = page[d][x]
      /\ \A d \in Clients, x \in heap \ gone : wsi[d] = "open" /\ page[d][x].shown =>
           Near(exit[d][x], d \in ClientsWithout(c, R)[x].head, NumberWithout(c, R)[x],
                delete_if_unused[x])
  BY <1>2, AfterExit
<1>9. number_of_clients'[r] \in 0 .. Cardinality(Clients)
  BY <1>1, <1>5, NumberFitsNext
<1>. HIDE DEF gone, exit
<1>10. Tells(page', exit, {r}, clients', c, number_of_clients', TRUE)
  BY <1>3, <1>8, <1>9, JoinedOrLeft
<1>11. ASSUME NEW d \in Clients, wsi[d] # "open" PROVE page'[d] = page[d]
  <2>1. page'[d] = exit[d]
    BY <1>8, <1>10, <1>11, TellsOpen
  <2>. QED
    BY <1>8, <1>11, <2>1
<1>12. ASSUME NEW d \in Clients, NEW x \in RoomIds, wsi[d] = "open"
       PROVE  /\ page'[d][x].shown = exit[d][x].shown
              /\ x # r \/ d \notin clients'[r].head => page'[d][x] = exit[d][x]
              /\ x = r /\ d \in clients'[r].head /\ exit[d][x].shown =>
                   /\ page'[d][x].count = number_of_clients'[x]
                   /\ page'[d][x].mine = IF d = c THEN TRUE ELSE exit[d][x].mine
  <2>1. d \in Receivers(clients'[r]) <=> d \in clients'[r].head
    BY <1>1, <1>12, ReceiversOpen DEF TypeOK, RoomsInv, ListsFlat
  <2>. QED
    BY <1>10, <2>1 DEF Tells
<1>13. ASSUME NEW d \in Clients, NEW x \in RoomIds, wsi[d] = "open"
       PROVE  page'[d][x].shown = (page[d][x].shown /\ (x \in heap => x \in heap'))
  <2>1. x \notin gone <=> (x \in heap => x \in heap')
    BY <1>3, <1>5
  <2>2. page'[d][x].shown = (page[d][x].shown /\ x \notin gone)
    <3>1. page'[d][x].shown = exit[d][x].shown
      BY <1>12, <1>13
    <3>2. exit[d][x].shown = (page[d][x].shown /\ x \notin gone)
      BY <1>8, <1>13
    <3>. QED
      BY <3>1, <3>2
  <2>. QED
    BY <2>1, <2>2
<1>14. ASSUME NEW d \in Clients, NEW x \in heap', wsi[d] = "open", page[d][x].shown
       PROVE  Near(page'[d][x], d \in clients'[x].head, number_of_clients'[x],
                   delete_if_unused[x])
  <2>1. x \in RoomIds /\ x \in heap \ gone
    BY <1>1, <1>3
  <2>2. CASE x # r
    <3>1. page'[d][x] = exit[d][x]
      BY <1>12, <1>14, <2>1, <2>2
    <3>2. Near(exit[d][x], d \in ClientsWithout(c, R)[x].head, NumberWithout(c, R)[x],
               delete_if_unused[x])
      BY <1>8, <1>14, <2>1
    <3>. QED
      BY <1>6, <2>1, <2>2, <3>1, <3>2
  <2>3. CASE x = r
    <3>1. exit[d][x] = page[d][x]
      BY <1>4, <1>8, <1>14, <2>1, <2>3
    <3>2. Near(page[d][x], d \in clients[x].head, number_of_clients[x], delete_if_unused[x])
      BY <1>1, <1>14, <2>1 DEF PagesRight
    <3>3. CASE d \in clients'[r].head
      <4>1. /\ page'[d][x].count = number_of_clients'[x]
            /\ page'[d][x].mine = IF d = c THEN TRUE ELSE page[d][x].mine
        <5>1. exit[d][x].shown /\ d \in clients'[x].head
          BY <1>14, <2>3, <3>1, <3>3
        <5>2. x = r /\ d \in clients'[r].head /\ exit[d][x].shown =>
                /\ page'[d][x].count = number_of_clients'[x]
                /\ page'[d][x].mine = IF d = c THEN TRUE ELSE exit[d][x].mine
          BY <1>12, <1>14, <2>1
        <5>. QED
          BY <2>3, <3>1, <5>1, <5>2
      <4>2. d # c => page[d][x].mine
        BY <1>7, <1>14, <2>3, <3>2, <3>3 DEF Near
      <4>3. page'[d][x].mine
        BY <4>1, <4>2
      <4>4. page'[d][x].count - number_of_clients'[x] = 0
        BY <1>9, <2>3, <4>1
      <4>5. d \in clients'[x].head
        BY <2>3, <3>3
      <4>. QED
        BY <4>3, <4>4, <4>5 DEF Near
    <3>4. CASE d \notin clients'[r].head
      <4>1. page'[d][x] = page[d][x] /\ d \notin clients[x].head
        BY <1>7, <1>12, <1>14, <2>1, <2>3, <3>1, <3>4
      <4>. QED
        BY <2>3, <3>2, <3>4, <4>1 DEF Near
    <3>. QED
      BY <3>3, <3>4
  <2>. QED
    BY <2>2, <2>3
<1>15. page' \in Pages /\ heap' \subseteq heap
  BY <1>3, <1>10 DEF Tells
<1>. QED
  BY <1>3, <1>11, <1>13, <1>14, <1>15, PagesKept

LEMMA ClosedConnectionPageKeeps ==
    ASSUME WithinCapacity, PageInv, IndInv', NEW c \in Clients, wsi[c] = "null",
           ClosedConnectionPage(c)
    PROVE  PageInv'
<1> DEFINE R == rooms[c].head
           gone == Unused(c, R)
           told == ToldAll(R, clients', c, number_of_clients', FALSE)
<1>1. /\ IndInv /\ TypeOK /\ RoomsInv /\ page \in Pages /\ PagesRight /\ heap \subseteq RoomIds
      /\ TypeOK' /\ RoomsInv' /\ R \in SUBSET RoomIds /\ R \subseteq heap
  BY PageInvParts, IndInvParts DEF TypeOK, Lists, RoomsInv, RoomsExist
<1>2. Members(rooms[c]) = R
  BY <1>1, Registered
<1>3. /\ UNCHANGED <<wsi, listed, delete_if_unused>>
      /\ clients' = ClientsWithout(c, R) /\ number_of_clients' = NumberWithout(c, R)
      /\ heap' = heap \ gone /\ page' = Deleted(told, heap \ heap')
  BY <1>2 DEF ClosedConnectionPage, ClosedConnection, CloseConnection, ExitAllChatRooms
<1>4. heap \ heap' = gone /\ gone \subseteq R
  BY <1>1, <1>3 DEF Unused
<1>. HIDE DEF R
<1>5. /\ \A x \in RoomIds : clients'[x].head =
                              IF x \in R THEN clients[x].head \ {c} ELSE clients[x].head
      /\ \A x \in heap : number_of_clients'[x] = Cardinality(clients'[x].head)
  BY <1>1, <1>3, Leaving
<1>6. \A x \in R : number_of_clients'[x] \in 0 .. Cardinality(Clients)
  <2>. SUFFICES ASSUME NEW x \in R
                PROVE  number_of_clients'[x] \in 0 .. Cardinality(Clients)
    OBVIOUS
  <2>1. /\ x \in RoomIds /\ clients'[x].head \subseteq Clients
        /\ number_of_clients'[x] = Cardinality(clients'[x].head)
    BY <1>1, <1>5 DEF TypeOK, Lists
  <2>2. /\ Cardinality(clients'[x].head) <= Cardinality(Clients)
        /\ Cardinality(Clients) \in Nat /\ Cardinality(clients'[x].head) \in Nat
    BY <2>1, FS_Subset, FS_CardinalityType DEF WithinCapacity
  <2>. QED
    BY <2>1, <2>2
<1>7. Tells(told, page, R, clients', c, number_of_clients', FALSE)
  BY <1>1, <1>6, AllJoinedOrLeft
<1>. HIDE DEF told, gone
<1>8. /\ page' \in Pages
      /\ \A d \in Clients, x \in RoomIds :
           page'[d][x] = IF x \in gone /\ d \in Receivers(chatclients)
                         THEN NotShown ELSE told[d][x]
  <2>1. told \in Pages
    BY <1>7 DEF Tells
  <2>. QED
    BY <1>3, <1>4, <2>1, DeletedEntry
<1>9. ASSUME NEW d \in Clients, wsi[d] # "open" PROVE page'[d] = page[d]
  <2>1. d \notin Receivers(chatclients)
    BY <1>9 DEF Receivers
  <2>2. told[d] = page[d]
    BY <1>1, <1>7, <1>9, TellsOpen
  <2>3. \A x \in RoomIds : page'[d][x] = page[d][x]
    BY <1>8, <2>1, <2>2
  <2>4. page'[d] \in [RoomIds -> Entries] /\ page[d] \in [RoomIds -> Entries]
    BY <1>1, <1>8 DEF Pages
  <2>. QED
    BY <2>3, <2>4
<1>10. ASSUME NEW d \in Clients, NEW x \in RoomIds, wsi[d] = "open"
       PROVE  /\ d # c
              /\ page'[d][x] = IF x \in gone THEN NotShown ELSE told[d][x]
              /\ told[d][x].shown = page[d][x].shown
              /\ x \in R /\ d \in clients'[x].head /\ page[d][x].shown =>
                   told[d][x].count = number_of_clients'[x] /\ told[d][x].mine = page[d][x].mine
              /\ ~(x \in R /\ d \in clients'[x].head) => told[d][x] = page[d][x]
  <2>1. d # c /\ d \in Receivers(chatclients)
    BY <1>1, <1>10, OpenReceive
  <2>2. d \in Receivers(clients'[x]) <=> d \in clients'[x].head
    BY <1>1, <1>10, ReceiversOpen DEF TypeOK, RoomsInv, ListsFlat
  <2>. QED
    BY <1>7, <1>8, <2>1, <2>2 DEF Tells
<1>11. ASSUME NEW d \in Clients, NEW x \in RoomIds, wsi[d] = "open"
       PROVE  page'[d][x].shown = (page[d][x].shown /\ (x \in heap => x \in heap'))
  <2>1. (x \in heap => x \in heap') <=> x \notin gone
    BY <1>4
  <2>2. page[d][x].shown \in BOOLEAN
    BY <1>1 DEF Pages, Entries
  <2>3. CASE x \in gone
    <3>1. page'[d][x].shown = FALSE
      BY <1>10, <1>11, <2>3 DEF NotShown
    <3>. QED
      BY <2>1, <2>2, <2>3, <3>1
  <2>4. CASE x \notin gone
    BY <1>10, <1>11, <2>1, <2>2, <2>4
  <2>. QED
    BY <2>3, <2>4
<1>12. ASSUME NEW d \in Clients, NEW x \in heap', wsi[d] = "open", page[d][x].shown
       PROVE  Near(page'[d][x], d \in clients'[x].head, number_of_clients'[x],
                   delete_if_unused[x])
  <2>1. x \in RoomIds /\ x \in heap /\ x \notin gone /\ number_of_clients'[x] \in Int
    BY <1>1, <1>3 DEF TypeOK
  <2>2. Near(page[d][x], d \in clients[x].head, number_of_clients[x], delete_if_unused[x])
    BY <1>1, <1>12, <2>1 DEF PagesRight
  <2>3. d \in clients'[x].head <=> d \in clients[x].head
    BY <1>5, <1>10, <1>12, <2>1
  <2>4. page'[d][x] = told[d][x]
    BY <1>10, <1>12, <2>1
  <2>5. CASE x \in R /\ d \in clients'[x].head
    <3>1. page'[d][x].count = number_of_clients'[x] /\ page'[d][x].mine = page[d][x].mine
      BY <1>10, <1>12, <2>1, <2>4, <2>5
    <3>2. page[d][x].mine
      BY <1>12, <2>2, <2>3, <2>5 DEF Near
    <3>. QED
      BY <2>1, <2>5, <3>1, <3>2 DEF Near
  <2>6. CASE x \in R /\ d \notin clients'[x].head
    <3>1. page'[d][x] = page[d][x]
      BY <1>10, <1>12, <2>1, <2>4, <2>6
    <3>. QED
      BY <2>2, <2>3, <2>6, <3>1 DEF Near
  <2>7. CASE x \notin R
    <3>1. page'[d][x] = page[d][x]
      BY <1>10, <1>12, <2>1, <2>4, <2>7
    <3>2. number_of_clients'[x] = number_of_clients[x]
      BY <1>3, <2>1, <2>7 DEF NumberWithout
    <3>. QED
      BY <2>2, <2>3, <3>1, <3>2
  <2>. QED
    BY <2>5, <2>6, <2>7
<1>. QED
  BY <1>3, <1>8, <1>9, <1>11, <1>12, PagesKept

(* A new room is on every page, with its one client. *)
LEMMA AddChatRoomPageKeeps ==
    ASSUME WithinCapacity, PageInv, IndInv',
           NEW c \in Clients, NEW secure \in BOOLEAN, AddChatRoomPage(c, secure)
    PROVE  PageInv'
<1> DEFINE r == next_chatroomid
           new(d) == [shown |-> TRUE, count |-> 1, mine |-> d = c]
<1>1. /\ IndInv /\ TypeOK /\ RoomsInv /\ page \in Pages /\ PagesRight /\ heap \subseteq RoomIds
      /\ listed \subseteq Clients /\ NoPageYet /\ TypeOK' /\ RoomsInv' /\ ClientsConnected
  BY PageInvParts, IndInvParts DEF TypeOK
<1>2. r \in RoomIds /\ r \notin heap /\ heap' = heap \cup {r}
  BY <1>1, ChatRoomsAssumption DEF AddChatRoomPage, AddChatRoom, TypeOK, RoomsInv, RoomsExist,
     RoomIds
<1>3. /\ UNCHANGED <<wsi, listed>>
      /\ \A x \in RoomIds : x # r => /\ clients'[x] = clients[x]
                                     /\ number_of_clients'[x] = number_of_clients[x]
                                     /\ delete_if_unused'[x] = delete_if_unused[x]
      /\ number_of_clients'[r] = 1
  BY <1>1, <1>2 DEF AddChatRoomPage, AddChatRoom, client_vars, TypeOK
<1>4. clients'[r].head = {c}
  <2>1. Add(NoClients, c).head = {c}
    BY Fits, FlatAdd, EmptyIsFlat DEF NoClients
  <2>2. clients'[r] = Add(NoClients, c)
    BY <1>1, <1>2 DEF AddChatRoomPage, AddChatRoom, TypeOK
  <2>. QED
    BY <2>1, <2>2
<1>5. \A d \in Clients : new(d) \in Entries
  <2>1. number_of_clients'[r] \in 0 .. Cardinality(Clients)
    BY <1>1, <1>2, NumberFitsNext
  <2>. QED
    BY <1>3, <2>1 DEF Entries
<1>6. page' = [d \in Clients |->
                 IF wsi[d] = "open" /\ d \in Members(chatclients) \cup {c}
                 THEN [page[d] EXCEPT ![r] = new(d)] ELSE page[d]]
  BY DEF AddChatRoomPage
<1>. HIDE DEF new
<1>7. ASSUME NEW d \in Clients
      PROVE  /\ page'[d] \in [RoomIds -> Entries]
             /\ wsi[d] # "open" => page'[d] = page[d]
             /\ wsi[d] = "open" => /\ page'[d][r] = new(d)
                                   /\ \A x \in RoomIds : x # r => page'[d][x] = page[d][x]
  <2>1. wsi[d] = "open" => d \in Members(chatclients) \cup {c}
    BY <1>1, Registered DEF ClientsConnected
  <2>2. page[d] \in [RoomIds -> Entries]
    BY <1>1 DEF Pages
  <2>3. page'[d] = IF wsi[d] = "open" THEN [page[d] EXCEPT ![r] = new(d)] ELSE page[d]
    BY <1>6, <2>1
  <2>. QED
    BY <1>2, <1>5, <2>2, <2>3
<1>8. page' \in Pages /\ NoPageYet'
  <2>1. page' = [d \in Clients |-> page'[d]]
    BY <1>6
  <2>2. page' \in Pages
    BY <1>7, <2>1 DEF Pages
  <2>3. NoPageYet'
    BY <1>1, <1>3, <1>7 DEF NoPageYet
  <2>. QED
    BY <2>2, <2>3
<1>9. ASSUME NEW d \in Clients, NEW x \in RoomIds, wsi[d] = "open"
      PROVE  /\ page'[d][x].shown => x \in heap'
             /\ d \in listed /\ x \in heap' => page'[d][x].shown
             /\ x \in heap' => Near(page'[d][x], d \in clients'[x].head,
                                    number_of_clients'[x], delete_if_unused'[x])
  <2>1. CASE x = r
    <3>1. page'[d][x].shown /\ page'[d][x].count = 1 /\ (page'[d][x].mine <=> d = c)
      <4>1. page'[d][x] = new(d)
        BY <1>7, <1>9, <2>1
      <4>2. new(d).shown /\ new(d).count = 1
        BY DEF new
      <4>3. new(d).mine <=> d = c
        BY DEF new
      <4>. QED
        BY <4>1, <4>2, <4>3
    <3>2. page'[d][x].count - number_of_clients'[x] = 0
      BY <1>3, <2>1, <3>1
    <3>3. d \in clients'[x].head <=> page'[d][x].mine
      BY <1>4, <2>1, <3>1
    <3>4. Near(page'[d][x], d \in clients'[x].head, number_of_clients'[x], delete_if_unused'[x])
      BY <3>2, <3>3 DEF Near
    <3>. QED
      BY <1>2, <2>1, <3>1, <3>4
  <2>2. CASE x # r
    <3>1. page'[d][x] = page[d][x] /\ (x \in heap' <=> x \in heap)
      BY <1>2, <1>7, <1>9, <2>2
    <3>2. /\ page[d][x].shown => x \in heap
          /\ d \in listed /\ x \in heap => page[d][x].shown
          /\ x \in heap => Near(page[d][x], d \in clients[x].head, number_of_clients[x],
                                delete_if_unused[x])
      BY <1>1, <1>9 DEF PagesRight
    <3>. QED
      BY <1>3, <2>2, <3>1, <3>2
  <2>. QED
    BY <2>1, <2>2
<1>10. PagesRight'
  BY <1>3, <1>9 DEF PagesRight
<1>. QED
  BY <1>1, <1>3, <1>8, <1>10, PageInvPartsNext

(* The answer to getchatroomlist is the truth. *)
LEMMA GetChatRoomListKeeps ==
    ASSUME WithinCapacity, PageInv, IndInv', NEW c \in Clients, GetChatRoomList(c)
    PROVE  PageInv'
<1> DEFINE true(x) == IF x \in heap
                      THEN [shown |-> TRUE, count |-> number_of_clients[x],
                            mine |-> c \in clients[x].head]
                      ELSE NotShown
<1>1. /\ IndInv /\ TypeOK /\ RoomsInv /\ page \in Pages /\ PagesRight /\ heap \subseteq RoomIds
      /\ listed \subseteq Clients /\ NoPageYet
  BY PageInvParts, IndInvParts DEF TypeOK
<1>2. /\ wsi[c] = "open" /\ listed' = listed \cup {c}
      /\ UNCHANGED <<wsi, heap, clients, number_of_clients, delete_if_unused>>
  BY DEF GetChatRoomList, Answer, client_vars, room_vars
<1>3. page' = [page EXCEPT ![c] = [x \in RoomIds |-> true(x)]]
  BY <1>1, Registered DEF GetChatRoomList
<1>4. ASSUME NEW x \in RoomIds PROVE true(x) \in Entries
  <2>1. Cardinality(Clients) \in Nat
    BY FS_CardinalityType DEF WithinCapacity
  <2>2. x \in heap => number_of_clients[x] \in 0 .. Cardinality(Clients)
    BY <1>1, NumberFits
  <2>. QED
    BY <2>1, <2>2 DEF Entries, NotShown
<1>. HIDE DEF true
<1>5. /\ page' \in Pages
      /\ \A x \in RoomIds : page'[c][x] = true(x)
      /\ \A d \in Clients : d # c => page'[d] = page[d]
  BY <1>1, <1>3, <1>4 DEF Pages
<1>6. NoPageYet'
  BY <1>1, <1>2, <1>5 DEF NoPageYet
<1>7. ASSUME NEW d \in Clients, NEW x \in RoomIds, wsi[d] = "open"
      PROVE  /\ page'[d][x].shown => x \in heap
             /\ d \in listed' /\ x \in heap => page'[d][x].shown
             /\ x \in heap => Near(page'[d][x], d \in clients[x].head, number_of_clients[x],
                                   delete_if_unused[x])
  <2>1. CASE d # c
    <3>1. page'[d][x] = page[d][x] /\ (d \in listed' <=> d \in listed)
      BY <1>2, <1>5, <2>1
    <3>. QED
      BY <1>1, <1>7, <3>1 DEF PagesRight
  <2>2. CASE d = c /\ x \in heap
    <3>1. /\ page'[d][x].shown /\ page'[d][x].count = number_of_clients[x]
          /\ page'[d][x].mine <=> d \in clients[x].head
      <4>1. page'[d][x] = true(x)
        BY <1>5, <2>2
      <4>2. true(x).shown /\ true(x).count = number_of_clients[x]
        BY <2>2 DEF true
      <4>3. true(x).mine <=> c \in clients[x].head
        BY <2>2 DEF true
      <4>. QED
        BY <2>2, <4>1, <4>2, <4>3
    <3>2. page'[d][x].count - number_of_clients[x] = 0
      BY <1>1, <3>1 DEF TypeOK
    <3>. QED
      BY <2>2, <3>1, <3>2 DEF Near
  <2>3. CASE d = c /\ x \notin heap
    <3>1. page'[d][x] = true(x)
      BY <1>5, <2>3
    <3>2. page'[d][x].shown = FALSE
      BY <2>3, <3>1 DEF true, NotShown
    <3>. QED
      BY <2>3, <3>2
  <2>. QED
    BY <2>1, <2>2, <2>3
<1>8. PagesRight'
  BY <1>2, <1>7 DEF PagesRight
<1>. QED
  BY <1>1, <1>2, <1>5, <1>6, <1>8, PageInvPartsNext

-----------------------------------------------------------------------------
(* Pages stay right.                                                       *)

(* Every step with its messages is a step of ChatRooms. *)
LEMMA PageStep == [PageNext]_<<vars, page_vars>> => [Next]_vars
<1>1. ASSUME NEW c \in Clients, ReceivedMessagePage(c) PROVE ReceivedMessage(c)
  BY <1>1 DEF ReceivedMessagePage, ReceivedMessage, AddChatRoomPage, JoinChatRoomPage,
              LeaveChatRoomPage, RemoveChatRoomPage, LogoutPage, LoginPage,
              GetChatRoomList, AnswerPage
<1>2. ASSUME NEW c \in Clients,
             \/ EstablishedPage(c) \/ ReceivePage(c) \/ ClosedPage(c) \/ DroppedPage(c)
             \/ ClosedConnectionPage(c)
      PROVE  Established(c) \/ Receive(c) \/ Closed(c) \/ ClosedConnection(c)
  BY <1>2 DEF EstablishedPage, ReceivePage, ClosedPage, DroppedPage, ClosedConnectionPage
<1>3. PageNext => Next
  BY <1>1, <1>2 DEF PageNext, Next, RunTask
<1>4. UNCHANGED <<vars, page_vars>> => UNCHANGED vars
  OBVIOUS
<1>. QED
  BY <1>3, <1>4

LEMMA PageInitInv == ASSUME WithinCapacity PROVE Init /\ PageInit => PageInv
<1>. SUFFICES ASSUME Init, PageInit PROVE PageInv
  OBVIOUS
<1>1. \A c \in Clients : wsi[c] = "none" /\ page[c] = EmptyPage
  BY DEF Init, PageInit
<1>2. NotShown \in Entries
  <2>1. Cardinality(Clients) \in Nat
    BY FS_CardinalityType DEF WithinCapacity
  <2>. QED
    BY <2>1 DEF NotShown, Entries
<1>3. page \in Pages
  BY <1>2 DEF PageInit, EmptyPage, Pages
<1>4. listed = {}
  BY DEF PageInit
<1>5. NoPageYet /\ PagesRight
  BY <1>1, <1>4 DEF NoPageYet, PagesRight
<1>. QED
  BY <1>3, <1>4, <1>5, InitInv, PageInvParts

LEMMA PageStepInv ==
    ASSUME WithinCapacity PROVE PageInv /\ [PageNext]_<<vars, page_vars>> => PageInv'
<1>. SUFFICES ASSUME PageInv, [PageNext]_<<vars, page_vars>> PROVE PageInv'
  OBVIOUS
<1>1. IndInv'
  BY PageStep, StepInv, PageInvParts
<1>2. /\ TypeOK /\ RoomsInv /\ TasksInOrder
      /\ page \in Pages /\ listed \subseteq Clients /\ NoPageYet /\ PagesRight
  BY PageInvParts, IndInvParts
<1>3. ASSUME UNCHANGED <<page, listed, wsi, heap, clients, number_of_clients, delete_if_unused>>
      PROVE  PageInv'
  <2>1. NoPageYet' /\ PagesRight'
    BY <1>2, <1>3 DEF NoPageYet, PagesRight
  <2>. QED
    BY <1>1, <1>2, <1>3, <2>1, PageInvPartsNext
<1>4. ASSUME NEW c \in Clients, EstablishedPage(c) PROVE PageInv'
  <2>1. /\ wsi[c] = "none" /\ wsi' = [wsi EXCEPT ![c] = "open"]
        /\ UNCHANGED <<page, listed, heap, clients, number_of_clients, delete_if_unused>>
    BY <1>4 DEF EstablishedPage, Established, page_vars, room_vars
  <2>2. \A d \in Clients : wsi'[d] = IF d = c THEN "open" ELSE wsi[d]
    BY <1>2, <2>1 DEF TypeOK
  <2>3. NoPageYet'
    BY <1>2, <2>1, <2>2 DEF NoPageYet
  <2>4. c \notin listed /\ \A x \in RoomIds : page[c][x].shown = FALSE
    BY <1>2, <2>1 DEF NoPageYet, EmptyPage, NotShown
  <2>5. ASSUME NEW d \in Clients, NEW x \in RoomIds, wsi'[d] = "open"
        PROVE  /\ page[d][x].shown => x \in heap
               /\ d \in listed /\ x \in heap => page[d][x].shown
               /\ x \in heap => Near(page[d][x], d \in clients[x].head, number_of_clients[x],
                                     delete_if_unused[x])
    <3>1. CASE d = c
      BY <2>4, <3>1 DEF Near
    <3>2. CASE d # c
      BY <1>2, <2>2, <2>5, <3>2 DEF PagesRight
    <3>. QED
      BY <3>1, <3>2
  <2>6. PagesRight'
    BY <2>1, <2>5 DEF PagesRight
  <2>. QED
    BY <1>1, <1>2, <2>1, <2>3, <2>6, PageInvPartsNext
<1>5. ASSUME NEW c \in Clients, ReceivePage(c) PROVE PageInv'
  BY <1>3, <1>5 DEF ReceivePage, Receive, page_vars, client_vars, room_vars
<1>6. ASSUME NEW c \in Clients, ClosedPage(c) PROVE PageInv'
  <2>1. /\ wsi' = [wsi EXCEPT ![c] = "null"] /\ page' = [page EXCEPT ![c] = EmptyPage]
        /\ listed' = listed \ {c}
        /\ UNCHANGED <<heap, clients, number_of_clients, delete_if_unused>>
    BY <1>6 DEF ClosedPage, Closed, room_vars
  <2>2. \A d \in Clients : wsi'[d] = IF d = c THEN "null" ELSE wsi[d]
    BY <1>2, <2>1 DEF TypeOK
  <2>3. \A d \in Clients : d # c => page'[d] = page[d]
    BY <1>2, <2>1 DEF Pages
  <2>4. page' \in Pages
    <3>1. EmptyPage \in [RoomIds -> Entries]
      <4>1. Cardinality(Clients) \in Nat
        BY FS_CardinalityType DEF WithinCapacity
      <4>. QED
        BY <4>1 DEF EmptyPage, NotShown, Entries
    <3>. QED
      BY <1>2, <2>1, <3>1 DEF Pages
  <2>5. NoPageYet' /\ PagesRight'
    BY <1>2, <2>1, <2>2, <2>3 DEF NoPageYet, PagesRight
  <2>. QED
    BY <1>1, <1>2, <2>1, <2>4, <2>5, PageInvPartsNext
<1>7. ASSUME NEW c \in Clients, DroppedPage(c) PROVE PageInv'
  BY <1>6, <1>7 DEF DroppedPage
<1>8. ASSUME NEW c \in Clients, ReceivedMessagePage(c) PROVE PageInv'
  <2>1. ASSUME LoginPage(c) \/ GetChatRoomList(c) PROVE PageInv'
    BY <1>1, <2>1, LoginPageKeeps, GetChatRoomListKeeps
  <2>2. ASSUME AnswerPage PROVE PageInv'
    BY <1>3, <2>2 DEF AnswerPage, Answer, page_vars, client_vars, room_vars
  <2>. QED
    BY <1>1, <1>8, <2>1, <2>2, AddChatRoomPageKeeps, JoinChatRoomPageKeeps,
       LeaveChatRoomPageKeeps, RemoveChatRoomPageKeeps, LogoutPageKeeps
       DEF ReceivedMessagePage
<1>9. ASSUME NEW c \in Clients, ClosedConnectionPage(c) PROVE PageInv'
  <2>1. wsi[c] = "null"
    <3>1. TakeTask("close_connection", c)
      BY <1>9 DEF ClosedConnectionPage, ClosedConnection
    <3>. QED
      BY <1>2, <3>1, Taken
  <2>. QED
    BY <1>1, <1>9, <2>1, ClosedConnectionPageKeeps
<1>10. CASE UNCHANGED <<vars, page_vars>>
  BY <1>3, <1>10 DEF vars, page_vars, client_vars, room_vars
<1>. QED
  BY <1>4, <1>5, <1>6, <1>7, <1>8, <1>9, <1>10 DEF PageNext

(* The messages do not change what the commands do: whatever is proved of  *)
(* ChatRooms holds with the pages.                                         *)
THEOREM PagesOnly == PageSpec => Spec
  BY PageStep, PTL DEF PageSpec, Spec

(* What a client is told keeps its page right: PageInv holds in every      *)
(* reachable state while the lists stay within BIGLIST_SIZE.               *)
THEOREM PagesInductive == ASSUME WithinCapacity PROVE PageSpec => []PageInv
  BY PageInitInv, PageStepInv, PTL DEF PageSpec

(* A page never shows a room that is gone, and one that has asked for the  *)
(* list shows every room there is.                                         *)
THEOREM PagesShowRooms == ASSUME WithinCapacity PROVE PageSpec => []PageShowsRooms
<1>1. PageInv => PageShowsRooms
  BY DEF PageInv
<1>. QED
  BY <1>1, PagesInductive, PTL

(* The number shown for a room the client is in is at most one too many,   *)
(* and a client believes to be in a room it left only if the room is kept. *)
THEOREM PagesNearlyRight == ASSUME WithinCapacity PROVE PageSpec => []PageNearlyRight
<1>1. PageInv => PageNearlyRight
  BY DEF PageInv
<1>. QED
  BY <1>1, PagesInductive, PTL

-----------------------------------------------------------------------------
(* The lists themselves.  The rooms keep theirs with BigListOps; BigList   *)
(* has the nodes and the slots of biglist.h, and does to the items in a    *)
(* list what BigListOps says.                                              *)

(* The nodes ns as values, and the list they are.                          *)

Node == [Index -> [used : BOOLEAN, item : Items \cup {NoItem}]]

(* The slot holds x. *)
Has(slot, x) == slot.used /\ slot.item = x

(* The nodes behind the first, row by row, and how often x is there. *)
RowsBehind(ns) == (2 .. Len(ns)) \X Index
Over(ns, x) == {row \in RowsBehind(ns) : Has(ns[row[1]][row[2]], x)}

HeadOf(ns) == {x \in Items : \E k \in Index : Has(ns[1][k], x)}
ListOf(ns) == [head |-> HeadOf(ns), over |-> [x \in Items |-> Cardinality(Over(ns, x))]]

(* A used slot has an item, and in the first node no two have the same: so *)
(* the slot that remove frees is the only one with the item, and the first *)
(* node is full when it has BIGLIST_SIZE items.                            *)
Good(ns) ==
    /\ ns \in Seq(Node) /\ Len(ns) >= 1
    /\ \A n \in 1 .. Len(ns), k \in Index : ns[n][k].used => ns[n][k].item \in Items
    /\ \A x \in Items, j, k \in Index : Has(ns[1][j], x) /\ Has(ns[1][k], x) => j = k

BigListInv == ListTypeOK /\ Good(nodes)

-----------------------------------------------------------------------------
LEMMA ListIs == contents = ListOf(nodes)
<1>1. {x \in Items : Holds(x)} = HeadOf(nodes)
  BY DEF Holds, items, HeadOf, Has
<1>2. ASSUME NEW x \in Items
      PROVE  {row \in RowsWith(x) : row[1] > 1} = Over(nodes, x)
  <2>1. ASSUME NEW row
        PROVE  row \in Rows <=> /\ row \in (1 .. Len(nodes)) \X Index
                                /\ nodes[row[1]][row[2]].used
    BY DEF Rows
  <2>. QED
    BY <2>1 DEF RowsWith, ItemAt, Over, RowsBehind, Has
<1>. QED
  BY <1>1, <1>2 DEF contents, ListOf

-----------------------------------------------------------------------------
(* Counting: what Cardinality says of a list.                              *)

LEMMA IndexIs ==
    /\ IsFiniteSet(Index) /\ Cardinality(Index) = BIGLIST_SIZE
    /\ 0 \in Index /\ Index \subseteq Nat
<1>1. 0 \in Int /\ BIGLIST_SIZE - 1 \in Int /\ ~(0 > BIGLIST_SIZE - 1)
  BY BigListAssumption
<1>2. IsFiniteSet(0 .. BIGLIST_SIZE - 1)
      /\ Cardinality(0 .. BIGLIST_SIZE - 1) = (BIGLIST_SIZE - 1) - 0 + 1
  BY <1>1, FS_Interval
<1>. QED
  BY <1>2, BigListAssumption DEF Index

(* The first node is full when as many items are in it as it has slots.    *)
LEMMA FullHead ==
    ASSUME NEW ns, Good(ns)
    PROVE  Cardinality(HeadOf(ns)) < BIGLIST_SIZE <=> \E k \in Index : ~ns[1][k].used
<1>. DEFINE used == {k \in Index : ns[1][k].used}
            f == [k \in used |-> ns[1][k].item]
<1>1. ns[1] \in Node /\ 1 \in 1 .. Len(ns)
  BY DEF Good
<1>2. f \in Bijection(used, HeadOf(ns))
  <2>1. \A k \in used : f[k] \in HeadOf(ns)
    BY <1>1 DEF Good, HeadOf, Has
  <2>2. \A j, k \in used : f[j] = f[k] => j = k
    BY <1>1 DEF Good, Has
  <2>3. \A x \in HeadOf(ns) : \E k \in used : f[k] = x
    BY <1>1 DEF HeadOf, Has
  <2>4. f \in [used -> HeadOf(ns)]
    BY <2>1
  <2>. HIDE DEF f, used
  <2>5. f \in Injection(used, HeadOf(ns)) /\ f \in Surjection(used, HeadOf(ns))
    BY <2>2, <2>3, <2>4 DEF Injection, Surjection, IsInjective
  <2>. QED
    BY <2>5 DEF Bijection
<1>3. used \in SUBSET Index
  OBVIOUS
<1>4. used = Index <=> ~\E k \in Index : ~ns[1][k].used
  OBVIOUS
<1>. HIDE DEF used, f
<1>5. IsFiniteSet(used) /\ Cardinality(used) <= BIGLIST_SIZE
      /\ (Cardinality(used) = BIGLIST_SIZE <=> used = Index)
  BY <1>3, IndexIs, FS_Subset
<1>6. ExistsBijection(used, HeadOf(ns))
  BY <1>2 DEF ExistsBijection
<1>7. Cardinality(HeadOf(ns)) = Cardinality(used)
  BY <1>5, <1>6, FS_Bijection
<1>8. Cardinality(used) \in Nat
  BY <1>5, FS_CardinalityType
<1>. QED
  BY <1>4, <1>5, <1>7, <1>8, BigListAssumption

LEMMA OverIsFinite ==
    ASSUME NEW ns \in Seq(Node), NEW x
    PROVE  IsFiniteSet(Over(ns, x)) /\ Cardinality(Over(ns, x)) \in Nat
<1>1. Len(ns) \in Int /\ 2 \in Int
  BY LenProperties
<1>2. IsFiniteSet(2 .. Len(ns))
  BY <1>1, FS_Interval
<1>3. IsFiniteSet(RowsBehind(ns))
  BY <1>2, IndexIs, FS_Product DEF RowsBehind
<1>4. Over(ns, x) \in SUBSET RowsBehind(ns)
  BY DEF Over
<1>5. IsFiniteSet(Over(ns, x))
  BY <1>3, <1>4, FS_Subset
<1>. QED
  BY <1>5, FS_CardinalityType

-----------------------------------------------------------------------------
(* One slot that changes.                                                  *)

Slot == [used : BOOLEAN, item : Items \cup {NoItem}]

(* The nodes mt are those of ns, with slot in row k of node n.             *)
Puts(ns, mt, n, k, slot) ==
    /\ mt \in Seq(Node) /\ Len(mt) = Len(ns)
    /\ \A m \in 1 .. Len(ns), j \in Index :
          mt[m][j] = IF m = n /\ j = k THEN slot ELSE ns[m][j]

LEMMA PutsSlot ==
    ASSUME NEW ns \in Seq(Node), NEW n \in 1 .. Len(ns), NEW k \in Index, NEW slot \in Slot
    PROVE  Puts(ns, [ns EXCEPT ![n][k] = slot], n, k, slot)
<1>. DEFINE node == [ns[n] EXCEPT ![k] = slot]
<1>1. ns[n] \in Node
  BY ElementOfSeq
<1>2. node \in Node /\ \A j \in Index : node[j] = IF j = k THEN slot ELSE ns[n][j]
  BY <1>1 DEF Node, Slot
<1>3. [ns EXCEPT ![n][k] = slot] = [ns EXCEPT ![n] = node]
  OBVIOUS
<1>. HIDE DEF node
<1>4. /\ [ns EXCEPT ![n] = node] \in Seq(Node)
      /\ Len([ns EXCEPT ![n] = node]) = Len(ns)
      /\ \A m \in 1 .. Len(ns) : [ns EXCEPT ![n] = node][m] = IF m = n THEN node ELSE ns[m]
  BY <1>2, ExceptSeq
<1>. DEFINE mt == [ns EXCEPT ![n] = node]
<1>5. \A m \in 1 .. Len(ns) : mt[m] = IF m = n THEN node ELSE ns[m]
  BY <1>4
<1>. HIDE DEF mt
<1>6. ASSUME NEW m \in 1 .. Len(ns), NEW j \in Index
      PROVE  mt[m][j] = IF m = n /\ j = k THEN slot ELSE ns[m][j]
  BY <1>2, <1>5
<1>7. mt \in Seq(Node) /\ Len(mt) = Len(ns)
  BY <1>4 DEF mt
<1>8. Puts(ns, mt, n, k, slot)
  BY <1>6, <1>7 DEF Puts
<1>. QED
  BY <1>3, <1>8 DEF mt

LEMMA PutInHead ==
    ASSUME NEW ns, Good(ns), NEW mt, NEW k \in Index, NEW slot \in Slot,
           Puts(ns, mt, 1, k, slot)
    PROVE  /\ \A j \in Index : mt[1][j] = IF j = k THEN slot ELSE ns[1][j]
           /\ \A x \in Items : Over(mt, x) = Over(ns, x)
<1>1. Len(ns) \in Nat /\ Len(ns) >= 1 /\ Len(mt) = Len(ns)
  BY LenProperties DEF Good, Puts
<1>2. 1 \in 1 .. Len(ns) /\ \A m \in 2 .. Len(ns) : m \in 1 .. Len(ns) /\ m # 1
  BY <1>1
<1>3. \A j \in Index : mt[1][j] = IF j = k THEN slot ELSE ns[1][j]
  BY <1>2 DEF Puts
<1>4. \A m \in 2 .. Len(ns), j \in Index : mt[m][j] = ns[m][j]
  BY <1>2 DEF Puts
<1>5. ASSUME NEW x \in Items PROVE Over(mt, x) = Over(ns, x)
  BY <1>1, <1>4 DEF Over, RowsBehind
<1>. QED
  BY <1>3, <1>5

(* add: a slot of the first node that was not used gets an item that was   *)
(* not in the node.                                                        *)
LEMMA Takes ==
    ASSUME NEW ns, Good(ns), NEW mt, NEW k \in Index, NEW x \in Items,
           ~ns[1][k].used, \A j \in Index : ~Has(ns[1][j], x),
           Puts(ns, mt, 1, k, [used |-> TRUE, item |-> x])
    PROVE  /\ Good(mt)
           /\ HeadOf(mt) = HeadOf(ns) \cup {x}
           /\ \A y \in Items : Over(mt, y) = Over(ns, y)
<1>. DEFINE slot == [used |-> TRUE, item |-> x]
<1>1. slot \in Slot /\ slot.used /\ slot.item = x
  BY DEF Slot
<1>. HIDE DEF slot
<1>2. Puts(ns, mt, 1, k, slot)
  BY DEF slot
<1>3. /\ \A j \in Index : mt[1][j] = IF j = k THEN slot ELSE ns[1][j]
      /\ \A y \in Items : Over(mt, y) = Over(ns, y)
  BY <1>1, <1>2, PutInHead
<1>4. HeadOf(mt) = HeadOf(ns) \cup {x}
  BY <1>1, <1>3 DEF HeadOf, Has
<1>5. Good(mt)
  <2>1. mt \in Seq(Node) /\ Len(mt) = Len(ns) /\ Len(mt) >= 1
    BY DEF Puts, Good
  <2>2. \A n \in 1 .. Len(mt), j \in Index : mt[n][j].used => mt[n][j].item \in Items
    BY <1>1, <1>2, <2>1 DEF Puts, Good
  <2>3. ASSUME NEW y \in Items, NEW i \in Index, NEW j \in Index,
               Has(mt[1][i], y), Has(mt[1][j], y)
        PROVE  i = j
    BY <1>1, <1>3, <2>3 DEF Has, Good
  <2>. QED
    BY <2>1, <2>2, <2>3 DEF Good
<1>. QED
  BY <1>3, <1>4, <1>5

(* remove, or an iterator in the first node: the slot that held x is free. *)
LEMMA Frees ==
    ASSUME NEW ns, Good(ns), NEW mt, NEW k \in Index, NEW x \in Items,
           Has(ns[1][k], x), Puts(ns, mt, 1, k, [used |-> FALSE, item |-> x])
    PROVE  /\ Good(mt)
           /\ HeadOf(mt) = HeadOf(ns) \ {x}
           /\ \A y \in Items : Over(mt, y) = Over(ns, y)
<1>. DEFINE slot == [used |-> FALSE, item |-> x]
<1>1. slot \in Slot /\ ~slot.used
  BY DEF Slot
<1>. HIDE DEF slot
<1>2. Puts(ns, mt, 1, k, slot)
  BY DEF slot
<1>3. /\ \A j \in Index : mt[1][j] = IF j = k THEN slot ELSE ns[1][j]
      /\ \A y \in Items : Over(mt, y) = Over(ns, y)
  BY <1>1, <1>2, PutInHead
<1>4. \A j \in Index : Has(ns[1][j], x) => j = k
  BY DEF Good
<1>5. \A j \in Index, y \in Items : Has(mt[1][j], y) <=> Has(ns[1][j], y) /\ j # k
  BY <1>1, <1>3 DEF Has
<1>6. \A j \in Index, y \in Items : Has(ns[1][j], y) /\ j = k => y = x
  BY DEF Has
<1>7. HeadOf(mt) = HeadOf(ns) \ {x}
  BY <1>4, <1>5, <1>6 DEF HeadOf
<1>8. Good(mt)
  <2>1. mt \in Seq(Node) /\ Len(mt) = Len(ns) /\ Len(mt) >= 1
    BY DEF Puts, Good
  <2>2. \A n \in 1 .. Len(mt), j \in Index : mt[n][j].used => mt[n][j].item \in Items
    BY <1>1, <1>2, <2>1 DEF Puts, Good
  <2>3. ASSUME NEW y \in Items, NEW i \in Index, NEW j \in Index,
               Has(mt[1][i], y), Has(mt[1][j], y)
        PROVE  i = j
    BY <1>5, <2>3 DEF Good
  <2>. QED
    BY <2>1, <2>2, <2>3 DEF Good
<1>. QED
  BY <1>3, <1>7, <1>8

(* An iterator behind the first node: one row less with x. *)
LEMMA FreesBehind ==
    ASSUME NEW ns, Good(ns), NEW mt, NEW n \in 2 .. Len(ns), NEW k \in Index,
           NEW x \in Items, Has(ns[n][k], x),
           Puts(ns, mt, n, k, [used |-> FALSE, item |-> x])
    PROVE  /\ Good(mt)
           /\ HeadOf(mt) = HeadOf(ns)
           /\ <<n, k>> \in Over(ns, x)
           /\ Over(mt, x) = Over(ns, x) \ {<<n, k>>}
           /\ \A y \in Items : y # x => Over(mt, y) = Over(ns, y)
<1>. DEFINE slot == [used |-> FALSE, item |-> x]
<1>1. slot \in Slot /\ ~slot.used
  BY DEF Slot
<1>. HIDE DEF slot
<1>2. Puts(ns, mt, n, k, slot)
  BY DEF slot
<1>3. Len(ns) \in Nat /\ Len(ns) >= 1 /\ Len(mt) = Len(ns) /\ mt \in Seq(Node)
  BY LenProperties DEF Good, Puts
<1>4. 1 \in 1 .. Len(ns) /\ 1 # n /\ \A m \in 2 .. Len(ns) : m \in 1 .. Len(ns)
  BY <1>3
<1>5. \A j \in Index : mt[1][j] = ns[1][j]
  BY <1>2, <1>4 DEF Puts
<1>6. \A m \in 2 .. Len(ns), j \in Index, y \in Items :
         Has(mt[m][j], y) <=> Has(ns[m][j], y) /\ ~(m = n /\ j = k)
  BY <1>1, <1>2, <1>4 DEF Puts, Has
<1>7. \A m \in 2 .. Len(ns), j \in Index, y \in Items :
         Has(ns[m][j], y) /\ m = n /\ j = k => y = x
  BY DEF Has
<1>8. Good(mt)
  <2>1. \A m \in 1 .. Len(mt), j \in Index : mt[m][j].used => mt[m][j].item \in Items
    BY <1>1, <1>2, <1>3 DEF Puts, Good
  <2>. QED
    BY <1>3, <1>5, <2>1 DEF Good
<1>9. HeadOf(mt) = HeadOf(ns)
  BY <1>5 DEF HeadOf
<1>10. <<n, k>> \in Over(ns, x)
  BY DEF Over, RowsBehind
<1>11. ASSUME NEW y \in Items, NEW row
       PROVE  row \in Over(mt, y) <=> row \in Over(ns, y) /\ row # <<n, k>>
  <2>1. CASE row \in RowsBehind(ns)
    <3>1. row = <<row[1], row[2]>> /\ row[1] \in 2 .. Len(ns) /\ row[2] \in Index
      BY <2>1 DEF RowsBehind
    <3>2. row = <<n, k>> <=> row[1] = n /\ row[2] = k
      BY <3>1
    <3>. QED
      BY <1>3, <1>6, <3>1, <3>2, <2>1 DEF Over, RowsBehind
  <2>2. CASE row \notin RowsBehind(ns)
    BY <1>3, <2>2 DEF Over, RowsBehind
  <2>. QED
    BY <2>1, <2>2
<1>12. Over(mt, x) = Over(ns, x) \ {<<n, k>>}
  BY <1>11
<1>13. ASSUME NEW y \in Items, y # x PROVE <<n, k>> \notin Over(ns, y)
  BY <1>7, <1>13 DEF Over, RowsBehind
<1>14. ASSUME NEW y \in Items, y # x PROVE Over(mt, y) = Over(ns, y)
  BY <1>11, <1>13, <1>14
<1>. QED
  BY <1>8, <1>9, <1>10, <1>12, <1>14

-----------------------------------------------------------------------------
(* A node that comes between the first and the next.                       *)

NodeOf(x) == [NewNode EXCEPT ![0] = [used |-> TRUE, item |-> x]]

LEMMA NodeOfIs ==
    ASSUME NEW x \in Items
    PROVE  /\ NodeOf(x) \in Node
           /\ \A k \in Index, y \in Items : Has(NodeOf(x)[k], y) <=> k = 0 /\ y = x
           /\ \A k \in Index : NodeOf(x)[k].used => NodeOf(x)[k].item = x
<1>. DEFINE slot == [used |-> TRUE, item |-> x]
<1>1. slot \in Slot /\ slot.used /\ slot.item = x
  BY DEF Slot
<1>2. NewNode \in Node /\ \A k \in Index : ~NewNode[k].used
  BY DEF NewNode, Node
<1>. HIDE DEF slot
<1>3. \A k \in Index : NodeOf(x)[k] = IF k = 0 THEN slot ELSE NewNode[k]
  BY IndexIs, <1>2 DEF NodeOf, slot, Node
<1>4. NodeOf(x) \in Node
  BY <1>1, <1>2, IndexIs DEF NodeOf, Node, Slot, slot
<1>. QED
  BY <1>1, <1>2, <1>3, <1>4 DEF Has

With(ns, node) == <<ns[1], node>> \o Tail(ns)

LEMMA WithIs ==
    ASSUME NEW ns, Good(ns), NEW node \in Node, NEW mt, mt = With(ns, node)
    PROVE  /\ mt \in Seq(Node) /\ Len(mt) = Len(ns) + 1
           /\ mt[1] = ns[1] /\ mt[2] = node
           /\ \A m \in 2 .. Len(ns) : mt[m + 1] = ns[m]
<1>1. ns \in Seq(Node) /\ Len(ns) \in Nat /\ Len(ns) >= 1 /\ ns # << >>
  BY EmptySeq, LenProperties DEF Good
<1>2. ns[1] \in Node
  BY <1>1, ElementOfSeq
<1>3. /\ <<ns[1], node>> \in Seq(Node) /\ Len(<<ns[1], node>>) = 2
      /\ <<ns[1], node>>[1] = ns[1] /\ <<ns[1], node>>[2] = node
  BY <1>2
<1>4. /\ Tail(ns) \in Seq(Node) /\ Len(Tail(ns)) = Len(ns) - 1
      /\ \A m \in 1 .. Len(Tail(ns)) : Tail(ns)[m] = ns[m + 1]
  BY <1>1, HeadTailProperties
<1>. DEFINE two == <<ns[1], node>>
            rest == Tail(ns)
<1>. HIDE DEF two, rest
<1>5. /\ two \in Seq(Node) /\ Len(two) = 2 /\ two[1] = ns[1] /\ two[2] = node
      /\ rest \in Seq(Node) /\ Len(rest) = Len(ns) - 1
      /\ \A m \in 1 .. Len(rest) : rest[m] = ns[m + 1]
      /\ mt = two \o rest
  BY <1>3, <1>4 DEF two, rest, With
<1>6. /\ mt \in Seq(Node) /\ Len(mt) = Len(two) + Len(rest)
      /\ \A m \in 1 .. Len(two) + Len(rest) :
            mt[m] = IF m <= Len(two) THEN two[m] ELSE rest[m - Len(two)]
  <2>1. /\ two \o rest \in Seq(Node) /\ Len(two \o rest) = Len(two) + Len(rest)
        /\ \A m \in 1 .. Len(two) + Len(rest) :
              (two \o rest)[m] = IF m <= Len(two) THEN two[m] ELSE rest[m - Len(two)]
    BY <1>5, ConcatProperties, Zenon
  <2>. QED
    BY <1>5, <2>1, Zenon
<1>7. Len(mt) = Len(ns) + 1 /\ mt[1] = ns[1] /\ mt[2] = node
  BY <1>1, <1>5, <1>6
<1>8. ASSUME NEW m \in 2 .. Len(ns) PROVE mt[m + 1] = ns[m]
  <2>1. m + 1 \in 1 .. Len(two) + Len(rest) /\ ~(m + 1 <= 2) /\ (m + 1) - 2 = m - 1
        /\ m - 1 \in 1 .. Len(rest) /\ (m - 1) + 1 = m
    BY <1>1, <1>5
  <2>2. mt[m + 1] = rest[m - 1]
    BY <1>5, <1>6, <2>1
  <2>3. rest[m - 1] = ns[(m - 1) + 1]
    BY <1>5, <2>1
  <2>. QED
    BY <2>1, <2>2, <2>3
<1>. QED
  BY <1>6, <1>7, <1>8

(* The rows behind the first node move down by one. *)
Down(row) == <<row[1] + 1, row[2]>>

(* add: the new node holds x, and each row that was behind the first node  *)
(* is one node further down.                                               *)
LEMMA Grows ==
    ASSUME NEW ns, Good(ns), NEW x \in Items, NEW mt,
           mt = With(ns, NodeOf(x))
    PROVE  /\ Good(mt)
           /\ HeadOf(mt) = HeadOf(ns)
           /\ \A y \in Items :
                 Cardinality(Over(mt, y))
                    = IF y = x THEN Cardinality(Over(ns, y)) + 1 ELSE Cardinality(Over(ns, y))
<1>1. NodeOf(x) \in Node
  BY NodeOfIs
<1>2. /\ mt \in Seq(Node) /\ Len(mt) = Len(ns) + 1
      /\ mt[1] = ns[1] /\ mt[2] = NodeOf(x)
      /\ \A m \in 2 .. Len(ns) : mt[m + 1] = ns[m]
  BY <1>1, WithIs
<1>3. Len(ns) \in Nat /\ Len(ns) >= 1 /\ ns \in Seq(Node)
  BY LenProperties DEF Good
<1>4. Good(mt)
  <2>1. ASSUME NEW m \in 1 .. Len(mt), NEW k \in Index, mt[m][k].used
        PROVE  mt[m][k].item \in Items
    <3>1. CASE m = 1
      <4>1. 1 \in 1 .. Len(ns)
        BY <1>3
      <4>. QED
        BY <1>2, <2>1, <3>1, <4>1 DEF Good
    <3>2. CASE m = 2
      BY <1>2, <2>1, <3>2, NodeOfIs
    <3>3. CASE m # 1 /\ m # 2
      <4>1. m - 1 \in 2 .. Len(ns) /\ m - 1 \in 1 .. Len(ns) /\ (m - 1) + 1 = m
        BY <1>2, <1>3, <3>3
      <4>2. mt[m] = ns[m - 1]
        BY <1>2, <4>1
      <4>. QED
        BY <2>1, <4>1, <4>2 DEF Good
    <3>. QED
      BY <3>1, <3>2, <3>3
  <2>. QED
    BY <1>2, <1>3, <2>1 DEF Good
<1>5. HeadOf(mt) = HeadOf(ns)
  BY <1>2 DEF HeadOf
<1>6. ASSUME NEW y \in Items
      PROVE  Cardinality(Over(mt, y))
                = IF y = x THEN Cardinality(Over(ns, y)) + 1 ELSE Cardinality(Over(ns, y))
  <2>. DEFINE old == Over(ns, y)
              moved == {Down(row) : row \in old}
              f == [row \in old |-> Down(row)]
  <2>1. \A row \in old : row[1] \in 2 .. Len(ns) /\ row[2] \in Index
                         /\ row = <<row[1], row[2]>>
    BY DEF Over, RowsBehind
  <2>2. \A r, s \in old : Down(r) = Down(s) => r = s
    BY <1>3, <2>1 DEF Down
  <2>3. ASSUME NEW row \in moved
        PROVE  row \in Over(mt, y) /\ row[1] # 2
    <3>1. PICK r \in old : row = Down(r)
      OBVIOUS
    <3>2. row[1] = r[1] + 1 /\ row[2] = r[2] /\ row = <<row[1], row[2]>>
      BY <3>1 DEF Down
    <3>3. r[1] \in 2 .. Len(ns) /\ r[2] \in Index /\ Has(ns[r[1]][r[2]], y)
      BY DEF Over, RowsBehind
    <3>4. mt[row[1]] = ns[r[1]]
      BY <1>2, <3>2, <3>3
    <3>5. row[1] \in 2 .. Len(mt) /\ row[1] # 2
      BY <1>2, <1>3, <3>2, <3>3
    <3>. QED
      BY <3>2, <3>3, <3>4, <3>5 DEF Over, RowsBehind
  <2>4. ASSUME NEW row \in Over(mt, y), row[1] # 2 PROVE row \in moved
    <3>1. row \in RowsBehind(mt) /\ Has(mt[row[1]][row[2]], y)
      BY DEF Over
    <3>2. row[1] \in 2 .. Len(mt) /\ row[2] \in Index /\ row = <<row[1], row[2]>>
      BY <3>1 DEF RowsBehind
    <3>3. row[1] - 1 \in 2 .. Len(ns) /\ (row[1] - 1) + 1 = row[1]
      BY <1>2, <1>3, <2>4, <3>2
    <3>4. mt[row[1]] = ns[row[1] - 1]
      BY <1>2, <3>3
    <3>5. <<row[1] - 1, row[2]>> \in old
      BY <3>1, <3>2, <3>3, <3>4 DEF Over, RowsBehind
    <3>6. Down(<<row[1] - 1, row[2]>>) = row
      BY <3>2, <3>3 DEF Down
    <3>. QED
      BY <3>5, <3>6
  <2>5. ASSUME NEW row \in Over(mt, y), row[1] = 2 PROVE y = x /\ row = <<2, 0>>
    <3>1. row \in RowsBehind(mt) /\ Has(mt[row[1]][row[2]], y)
      BY DEF Over
    <3>2. row[2] \in Index /\ row = <<row[1], row[2]>>
      BY <3>1 DEF RowsBehind
    <3>. QED
      BY <1>2, <2>5, <3>1, <3>2, NodeOfIs
  <2>6. y = x => <<2, 0>> \in Over(mt, y)
    <3>1. 2 \in 2 .. Len(mt) /\ 0 \in Index
      BY <1>2, <1>3, IndexIs
    <3>2. Has(NodeOf(x)[0], x)
      BY <3>1, NodeOfIs
    <3>. QED
      BY <1>2, <3>1, <3>2 DEF Over, RowsBehind
  <2>7. <<2, 0>> \notin moved
    <3>1. <<2, 0>>[1] = 2
      OBVIOUS
    <3>. QED
      BY <2>3, <3>1
  <2>8. IsFiniteSet(old)
    BY <1>3, OverIsFinite
  <2>9. ExistsBijection(old, moved)
    <3>1. f \in [old -> moved]
      OBVIOUS
    <3>2. \A r, s \in old : f[r] = f[s] => r = s
      BY <2>2
    <3>3. \A row \in moved : \E r \in old : f[r] = row
      OBVIOUS
    <3>. HIDE DEF f, moved, old
    <3>4. f \in Injection(old, moved) /\ f \in Surjection(old, moved)
      BY <3>1, <3>2, <3>3 DEF Injection, Surjection, IsInjective
    <3>. QED
      BY <3>4 DEF ExistsBijection, Bijection
  <2>10. Over(mt, y) = IF y = x THEN moved \cup {<<2, 0>>} ELSE moved
    <3>. HIDE DEF moved, old
    <3>. QED
      BY <2>3, <2>4, <2>5, <2>6
  <2>. HIDE DEF old, moved, f
  <2>11. IsFiniteSet(moved) /\ Cardinality(moved) = Cardinality(old)
    BY <2>8, <2>9, FS_Bijection
  <2>12. Cardinality(moved \cup {<<2, 0>>}) = Cardinality(moved) + 1
    BY <2>7, <2>11, FS_AddElement
  <2>. QED
    BY <2>10, <2>11, <2>12 DEF old
<1>. QED
  BY <1>4, <1>5, <1>6

-----------------------------------------------------------------------------
(* What the list of the new nodes is, for each thing that happens to them. *)

LEMMA ListOfIs ==
    ASSUME NEW ns
    PROVE  /\ ListOf(ns).head = HeadOf(ns)
           /\ ListOf(ns).over = [x \in Items |-> Cardinality(Over(ns, x))]
           /\ DOMAIN ListOf(ns).over = Items
           /\ \A x \in Items : Found(ListOf(ns), x) <=> \E k \in Index : Has(ns[1][k], x)
BY DEF ListOf, HeadOf, Found

LEMMA ListTakes ==
    ASSUME NEW ns, Good(ns), NEW mt, NEW k \in Index, NEW x \in Items,
           ~ns[1][k].used, \A j \in Index : ~Has(ns[1][j], x),
           Puts(ns, mt, 1, k, [used |-> TRUE, item |-> x])
    PROVE  ListOf(mt) = Add(ListOf(ns), x)
<1>1. ~Found(ListOf(ns), x)
  BY ListOfIs
<1>2. Cardinality(ListOf(ns).head) < BIGLIST_SIZE
  BY FullHead, ListOfIs
<1>3. HeadOf(mt) = HeadOf(ns) \cup {x} /\ \A y \in Items : Over(mt, y) = Over(ns, y)
  BY Takes
<1>4. Add(ListOf(ns), x) = [ListOf(ns) EXCEPT !.head = @ \cup {x}]
  BY <1>1, <1>2 DEF Add
<1>. QED
  BY <1>3, <1>4 DEF ListOf

LEMMA ListGrows ==
    ASSUME NEW ns, Good(ns), NEW mt, NEW x \in Items,
           \A k \in Index : ns[1][k].used, \A j \in Index : ~Has(ns[1][j], x),
           mt = With(ns, NodeOf(x))
    PROVE  ListOf(mt) = Add(ListOf(ns), x)
<1>1. ~Found(ListOf(ns), x)
  BY ListOfIs
<1>2. ~(Cardinality(ListOf(ns).head) < BIGLIST_SIZE)
  BY FullHead, ListOfIs
<1>3. /\ HeadOf(mt) = HeadOf(ns)
      /\ \A y \in Items :
            Cardinality(Over(mt, y))
               = IF y = x THEN Cardinality(Over(ns, y)) + 1 ELSE Cardinality(Over(ns, y))
  BY Grows
<1>4. Add(ListOf(ns), x) = [ListOf(ns) EXCEPT !.over[x] = @ + 1]
  BY <1>1, <1>2 DEF Add
<1>. QED
  BY <1>3, <1>4 DEF ListOf

LEMMA ListFrees ==
    ASSUME NEW ns, Good(ns), NEW mt, NEW k \in Index, NEW x \in Items,
           Has(ns[1][k], x), Puts(ns, mt, 1, k, [used |-> FALSE, item |-> x])
    PROVE  /\ ListOf(mt) = Remove(ListOf(ns), x)
           /\ ListOf(mt) = ClearRow(ListOf(ns), x)
           /\ Found(ListOf(ns), x)
<1>1. Found(ListOf(ns), x)
  BY ListOfIs
<1>2. HeadOf(mt) = HeadOf(ns) \ {x} /\ \A y \in Items : Over(mt, y) = Over(ns, y)
  BY Frees
<1>3. ListOf(mt) = Remove(ListOf(ns), x)
  <2>1. [y \in Items |-> Cardinality(Over(mt, y))] = [y \in Items |-> Cardinality(Over(ns, y))]
    BY <1>2
  <2>. DEFINE over == [y \in Items |-> Cardinality(Over(ns, y))]
  <2>2. ListOf(ns) = [head |-> HeadOf(ns), over |-> over]
        /\ ListOf(mt) = [head |-> HeadOf(ns) \ {x}, over |-> over]
    BY <1>2, <2>1 DEF ListOf
  <2>. HIDE DEF over
  <2>. QED
    BY <2>2 DEF Remove
<1>. QED
  BY <1>1, <1>3 DEF ClearRow

LEMMA ListFreesBehind ==
    ASSUME NEW ns, Good(ns), NEW mt, NEW n \in 2 .. Len(ns), NEW k \in Index,
           NEW x \in Items, Has(ns[n][k], x), \A j \in Index : ~Has(ns[1][j], x),
           Puts(ns, mt, n, k, [used |-> FALSE, item |-> x])
    PROVE  /\ ListOf(mt) = ClearRow(ListOf(ns), x)
           /\ x \in Members(ListOf(ns))
<1>1. ~Found(ListOf(ns), x)
  BY ListOfIs
<1>2. /\ HeadOf(mt) = HeadOf(ns)
      /\ <<n, k>> \in Over(ns, x)
      /\ Over(mt, x) = Over(ns, x) \ {<<n, k>>}
      /\ \A y \in Items : y # x => Over(mt, y) = Over(ns, y)
  BY FreesBehind
<1>3. ns \in Seq(Node)
  BY DEF Good
<1>4. IsFiniteSet(Over(ns, x)) /\ Cardinality(Over(ns, x)) \in Nat
  BY <1>3, OverIsFinite
<1>5. Cardinality(Over(mt, x)) = Cardinality(Over(ns, x)) - 1
  BY <1>2, <1>4, FS_RemoveElement
<1>6. Cardinality(Over(ns, x)) > 0
  <2>1. Over(ns, x) # {}
    BY <1>2
  <2>. QED
    BY <1>4, <2>1, FS_EmptySet
<1>7. ListOf(ns).over[x] > 0
  BY <1>6, ListOfIs
<1>8. ClearRow(ListOf(ns), x) = [ListOf(ns) EXCEPT !.over[x] = IF @ > 0 THEN @ - 1 ELSE @]
  BY <1>1 DEF ClearRow
<1>9. ClearRow(ListOf(ns), x) = [ListOf(ns) EXCEPT !.over[x] = @ - 1]
  BY <1>7, <1>8
<1>10. ListOf(mt) = ClearRow(ListOf(ns), x)
  <2>1. [y \in Items |-> Cardinality(Over(mt, y))]
           = [[y \in Items |-> Cardinality(Over(ns, y))] EXCEPT ![x] = @ - 1]
    <3>1. \A y \in Items : y # x => Cardinality(Over(mt, y)) = Cardinality(Over(ns, y))
      BY <1>2
    <3>. QED
      BY <1>5, <3>1
  <2>. QED
    BY <1>2, <1>9, <2>1 DEF ListOf
<1>11. x \in Members(ListOf(ns))
  BY <1>7, ListOfIs DEF Members
<1>. QED
  BY <1>10, <1>11

(* clear, and a new list: one node without a used slot. *)
LEMMA ListIsEmpty ==
    ASSUME NEW node \in Node, \A k \in Index : ~node[k].used
    PROVE  Good(<<node>>) /\ ListOf(<<node>>) = EmptyList(Items)
<1>1. <<node>> \in Seq(Node) /\ Len(<<node>>) = 1 /\ <<node>>[1] = node
  OBVIOUS
<1>2. Good(<<node>>)
  BY <1>1 DEF Good, Has
<1>3. HeadOf(<<node>>) = {}
  BY <1>1 DEF HeadOf, Has
<1>4. ASSUME NEW x \in Items PROVE Cardinality(Over(<<node>>, x)) = 0
  <2>1. RowsBehind(<<node>>) = {}
    BY <1>1 DEF RowsBehind
  <2>2. Over(<<node>>, x) = {}
    BY <2>1 DEF Over
  <2>. QED
    BY <2>2, FS_EmptySet
<1>. QED
  BY <1>2, <1>3, <1>4 DEF ListOf, EmptyList

-----------------------------------------------------------------------------
(* What a call has to do, by its name. *)

LEMMA CallFind ==
    ASSUME NEW x, NEW value \in BOOLEAN, last' = <<"find", x, value>>,
           contents' = contents, value <=> Found(contents, x)
    PROVE  CallOfOps
<1>1. last'[1] = "find" /\ last'[2] = x /\ last'[3] = value
  OBVIOUS
<1>2. value = Found(contents, x)
  BY Zenon DEF Found
<1>3. "find" # "add" /\ "find" # "remove" /\ "find" # "row" /\ "find" # "clear"
  OBVIOUS
<1>. QED
  BY <1>1, <1>2, <1>3, Zenon DEF CallOfOps

LEMMA CallAdd ==
    ASSUME NEW x, NEW value \in BOOLEAN, last' = <<"add", x, value>>,
           contents' = Add(contents, x), value <=> ~Found(contents, x)
    PROVE  CallOfOps
<1>1. last'[1] = "add" /\ last'[2] = x /\ last'[3] = value
  OBVIOUS
<1>2. value = ~Found(contents, x)
  BY Zenon DEF Found
<1>3. "add" # "find" /\ "add" # "remove" /\ "add" # "row" /\ "add" # "clear"
  OBVIOUS
<1>. QED
  BY <1>1, <1>2, <1>3, Zenon DEF CallOfOps

LEMMA CallRemove ==
    ASSUME NEW x, NEW value \in BOOLEAN, last' = <<"remove", x, value>>,
           contents' = Remove(contents, x), value <=> Found(contents, x)
    PROVE  CallOfOps
<1>1. last'[1] = "remove" /\ last'[2] = x /\ last'[3] = value
  OBVIOUS
<1>2. value = Found(contents, x)
  BY Zenon DEF Found
<1>3. "remove" # "find" /\ "remove" # "add" /\ "remove" # "row" /\ "remove" # "clear"
  OBVIOUS
<1>. QED
  BY <1>1, <1>2, <1>3, Zenon DEF CallOfOps

LEMMA CallRow ==
    ASSUME NEW x, last' = <<"row", x, TRUE>>,
           contents' = ClearRow(contents, x), x \in Members(contents)
    PROVE  CallOfOps
<1>1. last'[1] = "row" /\ last'[2] = x
  OBVIOUS
<1>2. "row" # "find" /\ "row" # "add" /\ "row" # "remove" /\ "row" # "clear"
  OBVIOUS
<1>. QED
  BY <1>1, <1>2, Zenon DEF CallOfOps

LEMMA CallClear ==
    ASSUME last' = <<"clear", NoItem, TRUE>>, contents' = EmptyList(Items)
    PROVE  CallOfOps
<1>1. last'[1] = "clear"
  OBVIOUS
<1>2. "clear" # "find" /\ "clear" # "add" /\ "clear" # "remove" /\ "clear" # "row"
  OBVIOUS
<1>. QED
  BY <1>1, <1>2, Zenon DEF CallOfOps

-----------------------------------------------------------------------------
(* Every call keeps the invariant and does to the list what BigListOps says.*)

Lasts == {"new", "find", "add", "remove", "row", "clear"}
            \X (Items \cup {NoItem}) \X BOOLEAN

LEMMA InvOf == Good(nodes) /\ Len(nodes) <= MaxNodes /\ last \in Lasts => BigListInv
<1>. SUFFICES ASSUME Good(nodes), Len(nodes) <= MaxNodes, last \in Lasts
              PROVE  BigListInv
  OBVIOUS
<1>1. nodes \in Seq([Index -> [used : BOOLEAN, item : Items \cup {NoItem}]])
  BY DEF Good, Node
<1>2. Len(nodes) \in 1 .. MaxNodes
  BY LenProperties, BigListMCAssumption DEF Good
<1>3. \A row \in Rows : ItemAt(row) \in Items
  BY DEF Good, Rows, ItemAt
<1>. QED
  BY <1>1, <1>2, <1>3 DEF BigListInv, ListTypeOK, Lasts

LEMMA InvIs == BigListInv => /\ Good(nodes) /\ nodes \in Seq(Node)
                         /\ Len(nodes) \in Nat /\ Len(nodes) >= 1 /\ Len(nodes) <= MaxNodes
                         /\ last \in Lasts
<1>1. BigListInv => Good(nodes) /\ nodes \in Seq(Node)
  BY DEF BigListInv, Good
<1>2. BigListInv => Len(nodes) \in Nat /\ Len(nodes) >= 1 /\ Len(nodes) <= MaxNodes
  BY BigListMCAssumption DEF BigListInv, ListTypeOK
<1>3. BigListInv => last \in Lasts
  BY DEF BigListInv, ListTypeOK, Lasts
<1>. QED
  BY <1>1, <1>2, <1>3

LEMMA NextInv ==
    ASSUME Good(nodes'), Len(nodes') <= MaxNodes, last' \in Lasts
    PROVE  BigListInv'
<1>1. (Good(nodes) /\ Len(nodes) <= MaxNodes /\ last \in Lasts)' => BigListInv'
  BY InvOf, PTL
<1>. QED
  BY <1>1

LEMMA NextList == contents' = ListOf(nodes')
<1>1. (contents = ListOf(nodes))'
  BY ListIs, PTL
<1>. QED
  BY <1>1

LEMMA HoldsIs == \A x : Holds(x) <=> \E k \in Index : Has(nodes[1][k], x)
BY DEF Holds, items, Has

LEMMA InitBigList == ListInit => BigListInv /\ contents = EmptyList(Items)
<1>. SUFFICES ASSUME ListInit PROVE BigListInv /\ contents = EmptyList(Items)
  OBVIOUS
<1>1. NewNode \in Node /\ \A k \in Index : ~NewNode[k].used
  BY DEF NewNode, Node
<1>2. Good(nodes) /\ ListOf(nodes) = EmptyList(Items)
  BY <1>1, ListIsEmpty DEF ListInit
<1>3. Len(nodes) <= MaxNodes
  BY BigListMCAssumption DEF ListInit
<1>4. last \in Lasts
  BY DEF ListInit, Lasts
<1>. QED
  BY <1>2, <1>3, <1>4, InvOf, ListIs

(* A call that leaves the nodes alone. *)
LEMMA Reads ==
    ASSUME BigListInv, NEW x \in Items, Find(x) \/ AddAgain(x) \/ RemoveNothing(x)
    PROVE  BigListInv' /\ CallOfOps
<1>1. nodes' = nodes
  BY DEF Find, AddAgain, RemoveNothing
<1>2. Holds(x) \in BOOLEAN /\ TRUE \in BOOLEAN /\ FALSE \in BOOLEAN
  BY DEF Holds
<1>3. last' \in Lasts
  <2>1. Find(x) => last' \in Lasts
    BY <1>2 DEF Find, Lasts
  <2>2. <<"add", x, FALSE>> \in Lasts /\ <<"remove", x, FALSE>> \in Lasts
    BY DEF Lasts
  <2>3. /\ AddAgain(x) => last' = <<"add", x, FALSE>>
        /\ RemoveNothing(x) => last' = <<"remove", x, FALSE>>
    BY DEF AddAgain, RemoveNothing
  <2>. QED
    BY <2>1, <2>2, <2>3
<1>4. BigListInv'
  <2>1. Good(nodes') /\ Len(nodes') <= MaxNodes
    BY <1>1, InvIs
  <2>. QED
    BY <1>3, <2>1, NextInv
<1>5. contents' = contents
  BY <1>1 DEF contents, Holds, items, RowsWith, Rows, ItemAt
<1>6. Found(contents, x) <=> Holds(x)
  BY ListIs, ListOfIs, HoldsIs
<1>7. CASE Find(x)
  <2>1. last' = <<"find", x, Holds(x)>>
    BY <1>7 DEF Find
  <2>2. CallOfOps
    BY <1>2, <1>5, <1>6, <2>1, CallFind, Zenon
  <2>. QED
    BY <1>4, <2>2
<1>8. CASE AddAgain(x)
  <2>1. last' = <<"add", x, FALSE>> /\ Found(contents, x)
    BY <1>6, <1>8 DEF AddAgain
  <2>2. contents' = Add(contents, x)
    BY <1>5, <2>1 DEF Add
  <2>3. CallOfOps
    BY <1>2, <2>1, <2>2, CallAdd, Zenon
  <2>. QED
    BY <1>4, <2>3
<1>9. CASE RemoveNothing(x)
  <2>1. last' = <<"remove", x, FALSE>> /\ ~Found(contents, x)
    BY <1>6, <1>9 DEF RemoveNothing
  <2>2. contents' = Remove(contents, x)
    BY <1>5, <2>1 DEF Remove, Found, contents
  <2>3. CallOfOps
    BY <1>2, <2>1, <2>2, CallRemove, Zenon
  <2>. QED
    BY <1>4, <2>3
<1>. QED
  BY <1>7, <1>8, <1>9

(* add: a free slot of the first node, or a node of its own. *)
LEMMA Adds ==
    ASSUME BigListInv, NEW x \in Items, AddToSlot(x) \/ AddNode(x)
    PROVE  BigListInv' /\ CallOfOps
<1>1. /\ Good(nodes) /\ nodes \in Seq(Node) /\ 1 \in 1 .. Len(nodes)
      /\ Len(nodes) \in Nat /\ Len(nodes) <= MaxNodes
  BY InvIs
<1>2. \A j \in Index : ~Has(nodes[1][j], x)
  BY HoldsIs DEF AddToSlot, AddNode
<1>3. last' = <<"add", x, TRUE>> /\ last' \in Lasts
  <2>1. last' = <<"add", x, TRUE>>
    BY DEF AddToSlot, AddNode
  <2>. QED
    BY <2>1 DEF Lasts
<1>4. ~Found(contents, x)
  BY <1>2, ListIs, ListOfIs
<1>5. ASSUME Good(nodes'), Len(nodes') <= MaxNodes, ListOf(nodes') = Add(ListOf(nodes), x)
      PROVE  BigListInv' /\ CallOfOps
  <2>1. BigListInv'
    BY <1>3, <1>5, NextInv
  <2>2. contents' = Add(contents, x)
    BY <1>5, ListIs, NextList
  <2>3. TRUE \in BOOLEAN
    OBVIOUS
  <2>4. CallOfOps
    BY <1>3, <1>4, <2>2, <2>3, CallAdd, Zenon
  <2>. QED
    BY <2>1, <2>4
<1>6. CASE AddToSlot(x)
  <2>. DEFINE slot == [used |-> TRUE, item |-> x]
  <2>1. slot \in Slot
    BY DEF Slot
  <2>2. PICK k \in Index : ~nodes[1][k].used /\ nodes' = [nodes EXCEPT ![1][k] = slot]
    BY <1>6 DEF AddToSlot, items
  <2>. HIDE DEF slot
  <2>3. Puts(nodes, nodes', 1, k, slot)
    BY <1>1, <2>1, <2>2, PutsSlot
  <2>4. Puts(nodes, nodes', 1, k, [used |-> TRUE, item |-> x])
    BY <2>3 DEF slot
  <2>5. Good(nodes') /\ ListOf(nodes') = Add(ListOf(nodes), x)
    BY <1>1, <1>2, <2>2, <2>4, Takes, ListTakes
  <2>6. Len(nodes') <= MaxNodes
    BY <1>1, <2>3 DEF Puts
  <2>. QED
    BY <1>5, <2>5, <2>6
<1>7. CASE AddNode(x)
  <2>1. nodes' = With(nodes, NodeOf(x))
    BY <1>7 DEF AddNode, With, NodeOf, items
  <2>2. (\A k \in Index : nodes[1][k].used) /\ Len(nodes) < MaxNodes
    BY <1>7 DEF AddNode, items
  <2>3. Good(nodes') /\ ListOf(nodes') = Add(ListOf(nodes), x)
    BY <1>1, <1>2, <2>1, <2>2, Grows, ListGrows
  <2>4. NodeOf(x) \in Node
    BY NodeOfIs
  <2>5. Len(nodes') = Len(nodes) + 1
    BY <1>1, <2>1, <2>4, WithIs
  <2>6. Len(nodes') <= MaxNodes
    BY <1>1, <2>2, <2>5, BigListMCAssumption
  <2>. QED
    BY <1>5, <2>3, <2>6
<1>. QED
  BY <1>6, <1>7

LEMMA FreeSlot ==
    ASSUME NEW slot \in Slot, NEW x, slot.item = x
    PROVE  [slot EXCEPT !.used = FALSE] = [used |-> FALSE, item |-> x]
<1>. DEFINE s == [slot EXCEPT !.used = FALSE]
            t == [used |-> FALSE, item |-> x]
<1>1. s \in Slot /\ ~s.used /\ s.item = x
  BY DEF Slot
<1>2. t \in Slot /\ ~t.used /\ t.item = x
  BY DEF Slot
<1>. HIDE DEF s, t
<1>3. s = t
  BY <1>1, <1>2 DEF Slot
<1>. QED
  BY <1>3 DEF s, t

(* remove: the item is in one slot, and that is the one freed, however     *)
(* many nodes there are.                                                   *)
LEMMA Removes ==
    ASSUME BigListInv, NEW x \in Items, RemoveItem(x)
    PROVE  BigListInv' /\ CallOfOps
<1>1. /\ Good(nodes) /\ nodes \in Seq(Node) /\ 1 \in 1 .. Len(nodes)
      /\ Len(nodes) \in Nat /\ Len(nodes) >= 1 /\ Len(nodes) <= MaxNodes
  BY InvIs
<1>. DEFINE holding == {k \in Index : items[k].used /\ items[k].item = x}
            freed == {k \in holding : Cardinality({j \in holding : j < k}) < Len(nodes)}
            node == [k \in Index |-> IF k \in freed THEN [items[k] EXCEPT !.used = FALSE]
                                                    ELSE items[k]]
            slot == [used |-> FALSE, item |-> x]
<1>2. /\ holding # {}
      /\ nodes' = [nodes EXCEPT ![1] = node]
      /\ last' = <<"remove", x, TRUE>>
  BY DEF RemoveItem
<1>3. PICK k \in Index : Has(nodes[1][k], x)
  BY <1>2 DEF items, Has
<1>4. holding = {k}
  BY <1>1, <1>3 DEF items, Has, Good
<1>5. freed = {k}
  <2>. DEFINE before == {j \in holding : j < k}
  <2>1. before = {}
    BY <1>4, IndexIs
  <2>. HIDE DEF before
  <2>2. Cardinality(before) < Len(nodes)
    BY <1>1, <2>1, FS_EmptySet
  <2>3. Cardinality({j \in holding : j < k}) < Len(nodes)
    BY <2>2 DEF before
  <2>. HIDE DEF holding
  <2>. QED
    BY <1>4, <2>3
<1>6. nodes[1] \in Node
  BY <1>1, ElementOfSeq
<1>7. node = [nodes[1] EXCEPT ![k] = slot]
  <2>. HIDE DEF freed
  <2>1. [nodes[1][k] EXCEPT !.used = FALSE] = slot
    BY <1>3, <1>6, FreeSlot DEF Node, Slot, Has
  <2>. QED
    BY <1>3, <1>5, <1>6, <2>1 DEF items, Node
<1>. HIDE DEF node, freed, holding
<1>8. nodes' = [nodes EXCEPT ![1][k] = slot]
  BY <1>2, <1>7
<1>9. slot \in Slot
  BY DEF Slot
<1>. HIDE DEF slot
<1>10. Puts(nodes, nodes', 1, k, slot)
  BY <1>1, <1>8, <1>9, PutsSlot
<1>11. Puts(nodes, nodes', 1, k, [used |-> FALSE, item |-> x])
  BY <1>10 DEF slot
<1>12. Good(nodes') /\ ListOf(nodes') = Remove(ListOf(nodes), x) /\ Found(ListOf(nodes), x)
  BY <1>1, <1>3, <1>11, Frees, ListFrees
<1>13. BigListInv'
  <2>1. Len(nodes') <= MaxNodes
    BY <1>1, <1>10 DEF Puts
  <2>2. last' \in Lasts
    BY <1>2 DEF Lasts
  <2>. QED
    BY <1>12, <2>1, <2>2, NextInv
<1>14. contents' = Remove(contents, x) /\ Found(contents, x)
  BY <1>12, ListIs, NextList
<1>15. TRUE \in BOOLEAN
  OBVIOUS
<1>16. CallOfOps
  BY <1>2, <1>14, <1>15, CallRemove, Zenon
<1>. QED
  BY <1>13, <1>16

(* An iterator: the first row with the item is in the first node if there  *)
(* is one there.                                                           *)
LEMMA Clears ==
    ASSUME BigListInv, NEW x \in Items, ClearFirstRow(x)
    PROVE  BigListInv' /\ CallOfOps
<1>1. /\ Good(nodes) /\ nodes \in Seq(Node) /\ 1 \in 1 .. Len(nodes)
      /\ Len(nodes) \in Nat /\ Len(nodes) >= 1 /\ Len(nodes) <= MaxNodes
  BY InvIs
<1>2. PICK row \in Rows :
         /\ ItemAt(row) = x
         /\ \A other \in Rows : ItemAt(other) = x => ~Before(other, row)
         /\ nodes' = [nodes EXCEPT ![row[1]][row[2]].used = FALSE]
  BY DEF ClearFirstRow
<1>. DEFINE n == row[1]
            k == row[2]
            slot == [used |-> FALSE, item |-> x]
<1>3. n \in 1 .. Len(nodes) /\ k \in Index /\ Has(nodes[n][k], x)
  BY <1>2 DEF Rows, ItemAt, Has
<1>. HIDE DEF n, k
<1>4. nodes' = [nodes EXCEPT ![n][k] = slot]
  <2>1. nodes[n] \in Node
    BY <1>1, <1>3, ElementOfSeq
  <2>2. [nodes[n][k] EXCEPT !.used = FALSE] = slot
    BY <1>3, <2>1, FreeSlot DEF Node, Slot, Has
  <2>3. nodes' = [nodes EXCEPT ![n] =
                     [nodes[n] EXCEPT ![k] = [nodes[n][k] EXCEPT !.used = FALSE]]]
    BY <1>2 DEF n, k
  <2>. HIDE DEF slot
  <2>. QED
    BY <2>2, <2>3
<1>5. slot \in Slot
  BY DEF Slot
<1>. HIDE DEF slot
<1>6. Puts(nodes, nodes', n, k, slot)
  BY <1>1, <1>3, <1>4, <1>5, PutsSlot
<1>7. Puts(nodes, nodes', n, k, [used |-> FALSE, item |-> x])
  BY <1>6 DEF slot
<1>8. /\ Good(nodes')
      /\ ListOf(nodes') = ClearRow(ListOf(nodes), x)
      /\ x \in Members(ListOf(nodes))
  <2>1. CASE n = 1
    BY <1>1, <1>3, <1>7, <2>1, Frees, ListFrees DEF Members, Found
  <2>2. CASE n # 1
    <3>1. n \in 2 .. Len(nodes)
      BY <1>1, <1>3, <2>2
    <3>2. ASSUME NEW j \in Index, Has(nodes[1][j], x) PROVE FALSE
      <4>1. <<1, j>> \in Rows /\ ItemAt(<<1, j>>) = x
        BY <1>1, <3>2 DEF Rows, ItemAt, Has
      <4>2. Before(<<1, j>>, row)
        BY <3>1 DEF Before, n
      <4>. QED
        BY <1>2, <4>1, <4>2
    <3>3. \A j \in Index : ~Has(nodes[1][j], x)
      BY <3>2
    <3>4. Good(nodes')
      BY <1>1, <1>3, <1>7, <3>1, FreesBehind
    <3>5. ListOf(nodes') = ClearRow(ListOf(nodes), x) /\ x \in Members(ListOf(nodes))
      BY <1>1, <1>3, <1>7, <3>1, <3>3, ListFreesBehind
    <3>. QED
      BY <3>4, <3>5
  <2>. QED
    BY <2>1, <2>2
<1>9. last' = <<"row", x, TRUE>> /\ last' \in Lasts
  BY DEF ClearFirstRow, Lasts
<1>10. BigListInv'
  <2>1. Len(nodes') <= MaxNodes
    BY <1>1, <1>6 DEF Puts
  <2>. QED
    BY <1>8, <1>9, <2>1, NextInv
<1>11. contents' = ClearRow(contents, x) /\ x \in Members(contents)
  BY <1>8, ListIs, NextList
<1>. QED
  BY <1>9, <1>10, <1>11, CallRow

LEMMA ClearsAll == ASSUME BigListInv, Clear PROVE BigListInv' /\ CallOfOps
<1>. DEFINE node == [k \in Index |-> [items[k] EXCEPT !.used = FALSE]]
<1>1. nodes' = <<node>> /\ last' = <<"clear", NoItem, TRUE>>
  BY DEF Clear
<1>2. nodes[1] \in Node
  BY InvIs, ElementOfSeq
<1>3. node \in Node /\ \A k \in Index : ~node[k].used
  BY <1>2 DEF Node, items
<1>. HIDE DEF node
<1>4. Good(nodes') /\ ListOf(nodes') = EmptyList(Items)
  BY <1>1, <1>3, ListIsEmpty
<1>5. Len(nodes') <= MaxNodes
  BY <1>1, BigListMCAssumption
<1>6. last' \in Lasts
  BY <1>1 DEF Lasts
<1>7. BigListInv'
  BY <1>4, <1>5, <1>6, NextInv
<1>8. contents' = EmptyList(Items)
  BY <1>4, NextList
<1>. QED
  BY <1>1, <1>7, <1>8, CallClear

LEMMA StepBigList == BigListInv /\ [ListNext]_list_vars => BigListInv' /\ [CallOfOps]_list_vars
<1>1. ASSUME BigListInv, UNCHANGED list_vars PROVE BigListInv'
  BY <1>1 DEF BigListInv, list_vars, Good, ListTypeOK, Rows, ItemAt
<1>2. ASSUME BigListInv, ListNext PROVE BigListInv' /\ CallOfOps
  BY <1>2, Reads, Adds, Removes, Clears, ClearsAll DEF ListNext
<1>. QED
  BY <1>1, <1>2

-----------------------------------------------------------------------------
(* Each call of find, add, remove, clear and of an iterator that frees a   *)
(* row (biglist.h) does to the items what BigListOps says, and returns     *)
(* what it says, for any number of slots in a node, of nodes and of items: *)
(* ChatRooms, which keeps its lists with BigListOps, has those of the code.*)
THEOREM ListIsBigListOps == ListSpec => ImplementsOps
<1>1. ListSpec => contents = EmptyList(Items)
  BY InitBigList DEF ListSpec
<1>2. ListSpec => [][CallOfOps]_list_vars
  <2>1. ListInit => BigListInv
    BY InitBigList
  <2>2. BigListInv /\ [ListNext]_list_vars => BigListInv' /\ [CallOfOps]_list_vars
    BY StepBigList
  <2>. QED
    BY <2>1, <2>2, PTL DEF ListSpec
<1>. QED
  BY <1>1, <1>2, PTL DEF ImplementsOps
=============================================================================
