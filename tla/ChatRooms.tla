------------------------------ MODULE ChatRooms ------------------------------
(***************************************************************************)
(* Connections, chatrooms and who is in which: the state of websocket,     *)
(* chatclient and chatroom that the main thread and the worker share.      *)
(*                                                                         *)
(* The main thread runs websocket::callback_chatroom: it registers a new   *)
(* connection and turns every message and every close into a task.  The    *)
(* worker takes the tasks in order (TaskQueue) and runs each one to its    *)
(* end; all membership is its alone, so a task is one step here.  What a   *)
(* message says is chosen when the worker parses it, and so is whether a   *)
(* password or an answer in it is right.  What clients are told of the     *)
(* changes is in ChatPages.tla.                                            *)
(***************************************************************************)
EXTENDS BigListOps, Integers, Sequences

CONSTANTS Clients,      \* connections; each is opened and closed once
          MaxRooms,     \* bound: the chatrooms created in a behaviour
          MaxMessages   \* bound: the tasks queued when a message arrives

ASSUME ChatRoomsAssumption == MaxRooms \in Nat /\ MaxMessages \in Nat

RoomIds == 1 .. MaxRooms

VARIABLES
    \* chatclient
    wsi,               \* "none" before the connection, "open", "null"
    should_disconnect,
    logged_in_user,    \* whether it is logged in
    rooms,             \* chatclient::chatrooms, the rooms it is in
    \* websocket
    chatclients,       \* the registered connections
    chatrooms,         \* the registered rooms
    next_chatroomid,
    chatroom_tasks,    \* the tasks the worker has not begun
    \* chatroom
    heap,              \* the chatroom objects that were not deleted
    clients,           \* chatroom::clients, the connections in a room
    number_of_clients,
    delete_if_unused

client_vars == <<wsi, should_disconnect, logged_in_user>>
server_vars == <<chatclients, chatrooms, next_chatroomid>>
room_vars == <<heap, clients, number_of_clients, delete_if_unused>>
vars == <<client_vars, rooms, server_vars, chatroom_tasks, room_vars>>

NoRooms == EmptyList(RoomIds)
NoClients == EmptyList(Clients)

(* A faulty variant: initialize_task is not called. *)
UninitialisedTask(type, c) == [type |-> "none", client |-> c]

(* initialize_task *)
Task(type, c) == [type |-> type, client |-> c]

-----------------------------------------------------------------------------
(* Faulty variants: the list, the number, the deletion or the register is  *)
(* forgotten.                                                              *)
ClientsKept(c, R) == clients
NumberKept(c, R) == number_of_clients
NeverUnused(c, R) == {r \in R : delete_if_unused[r] /\ number_of_clients[r] = 0}
ChatRoomsKept(gone) == chatrooms

(* One client leaving the rooms in R: chatroom::remove_client, then the    *)
(* rooms that are to be deleted because nobody is left.                    *)
ClientsWithout(c, R) ==
    [r \in RoomIds |-> IF r \in R THEN Remove(clients[r], c) ELSE clients[r]]

NumberWithout(c, R) ==
    [r \in RoomIds |-> IF r \in R /\ Found(clients[r], c)
                       THEN number_of_clients[r] - 1 ELSE number_of_clients[r]]

Unused(c, R) == {r \in R : delete_if_unused[r] /\ NumberWithout(c, R)[r] = 0}

ChatRoomsWithout(gone) == [chatrooms EXCEPT !.head = @ \ gone]

-----------------------------------------------------------------------------
Init ==
    /\ wsi = [c \in Clients |-> "none"]
    /\ should_disconnect = [c \in Clients |-> FALSE]
    /\ logged_in_user = [c \in Clients |-> FALSE]
    /\ rooms = [c \in Clients |-> NoRooms]
    /\ chatclients = NoClients
    /\ chatrooms = NoRooms
    /\ next_chatroomid = 1
    /\ chatroom_tasks = << >>
    /\ heap = {}
    /\ clients = [r \in RoomIds |-> NoClients]
    /\ number_of_clients = [r \in RoomIds |-> 0]
    /\ delete_if_unused = [r \in RoomIds |-> TRUE]

-----------------------------------------------------------------------------
(* The main thread. *)

(* LWS_CALLBACK_ESTABLISHED *)
Established(c) ==
    /\ wsi[c] = "none"
    /\ wsi' = [wsi EXCEPT ![c] = "open"]
    /\ chatclients' = Add(chatclients, c)
    /\ UNCHANGED <<should_disconnect, logged_in_user, rooms, chatrooms,
                   next_chatroomid, chatroom_tasks, room_vars>>

(* LWS_CALLBACK_RECEIVE *)
Receive(c) ==
    /\ wsi[c] = "open"
    /\ Len(chatroom_tasks) < MaxMessages
    /\ chatroom_tasks' = Append(chatroom_tasks, Task("received_message", c))
    /\ UNCHANGED <<client_vars, rooms, server_vars, room_vars>>

(* A faulty variant: no task is queued. *)
ClosedWithoutTask(c) ==
    /\ wsi[c] = "open"
    /\ wsi' = [wsi EXCEPT ![c] = "null"]
    /\ UNCHANGED <<should_disconnect, logged_in_user, rooms, server_vars,
                   chatroom_tasks, room_vars>>

(* LWS_CALLBACK_CLOSED.  task::closeconnection(client, run_async) clears   *)
(* wsi before the task is queued.                                          *)
Closed(c) ==
    /\ wsi[c] = "open"
    /\ wsi' = [wsi EXCEPT ![c] = "null"]
    /\ chatroom_tasks' = Append(chatroom_tasks, Task("close_connection", c))
    /\ UNCHANGED <<should_disconnect, logged_in_user, rooms, server_vars, room_vars>>

(* LWS_CALLBACK_SERVER_WRITEABLE with no message left: it returns -1, and  *)
(* libwebsockets closes the connection.                                    *)
Dropped(c) == should_disconnect[c] /\ Closed(c)

-----------------------------------------------------------------------------
(* The worker: one operator per command, c is the client that sent it.     *)

(* addchatroom; `secure' says that the server password was right. *)
AddChatRoom(c, secure) ==
    LET r == next_chatroomid
    IN  /\ r <= MaxRooms
        /\ next_chatroomid' = r + 1
        /\ heap' = heap \cup {r}
        /\ clients' = [clients EXCEPT ![r] = Add(NoClients, c)]
        /\ number_of_clients' = [number_of_clients EXCEPT ![r] = 1]
        /\ delete_if_unused' = [delete_if_unused EXCEPT ![r] = ~secure]
        /\ rooms' = [rooms EXCEPT ![c] = Add(@, r)]
        /\ chatrooms' = Add(chatrooms, r)
        /\ UNCHANGED <<client_vars, chatclients>>

(* exit_all_chatrooms when leave_other_chatrooms is not zero *)
RoomsToLeave(c, leave_other_chatrooms) ==
    IF leave_other_chatrooms THEN Members(rooms[c]) ELSE {}

(* joinchatroom with a right answer, or to a room that asks for none *)
JoinChatRoom(c, r, leave_other_chatrooms) ==
    LET R == RoomsToLeave(c, leave_other_chatrooms)
    IN  /\ r \in Members(chatrooms)
        /\ ~Found(clients[r], c)
        /\ clients' = [ClientsWithout(c, R) EXCEPT ![r] = Add(@, c)]
        /\ number_of_clients' = [NumberWithout(c, R) EXCEPT ![r] = @ + 1]
        /\ rooms' = [rooms EXCEPT ![c] = Add(IF leave_other_chatrooms THEN NoRooms ELSE @, r)]
        /\ chatrooms' = ChatRoomsWithout(Unused(c, R))
        /\ heap' = heap \ Unused(c, R)
        /\ UNCHANGED <<client_vars, chatclients, next_chatroomid, delete_if_unused>>

(* leavechatroom *)
LeaveChatRoom(c, r) ==
    /\ r \in Members(chatrooms)
    /\ Found(clients[r], c)
    /\ clients' = ClientsWithout(c, {r})
    /\ number_of_clients' = NumberWithout(c, {r})
    /\ rooms' = [rooms EXCEPT ![c] = Remove(@, r)]
    /\ LET gone == IF NumberWithout(c, {r})[r] > 0 THEN {} ELSE Unused(c, {r})
       IN  /\ chatrooms' = ChatRoomsWithout(gone)
           /\ heap' = heap \ gone
    /\ UNCHANGED <<client_vars, chatclients, next_chatroomid, delete_if_unused>>

(* removechatroom with the right server password.  The room's destructor   *)
(* clears its list of clients.                                             *)
RemoveChatRoom(r) ==
    /\ r \in Members(chatrooms)
    /\ chatrooms' = ClearRow(chatrooms, r)
    /\ rooms' = [d \in Clients |->
                    IF d \in Members(clients[r]) THEN Remove(rooms[d], r) ELSE rooms[d]]
    /\ clients' = [clients EXCEPT ![r] = NoClients]
    /\ heap' = heap \ {r}
    /\ UNCHANGED <<client_vars, chatclients, next_chatroomid, number_of_clients,
                   delete_if_unused>>

(* exit_all_chatrooms and task::closeconnection: the client leaves every   *)
(* room it is in, and its list of rooms is emptied.                        *)
ExitAllChatRooms(c) ==
    LET R == Members(rooms[c])
    IN  /\ clients' = ClientsWithout(c, R)
        /\ number_of_clients' = NumberWithout(c, R)
        /\ rooms' = [rooms EXCEPT ![c] = NoRooms]
        /\ chatrooms' = ChatRoomsWithout(Unused(c, R))
        /\ heap' = heap \ Unused(c, R)
        /\ UNCHANGED <<next_chatroomid, delete_if_unused>>

(* logout *)
Logout(c, disconnect) ==
    /\ disconnect \/ logged_in_user[c]
    /\ ExitAllChatRooms(c)
    /\ should_disconnect' = [should_disconnect EXCEPT ![c] = @ \/ disconnect]
    /\ logged_in_user' = [logged_in_user EXCEPT ![c] = @ /\ disconnect]
    /\ UNCHANGED <<wsi, chatclients>>

(* login of a user the server knows, with the right password *)
Login(c) ==
    /\ logged_in_user' = [logged_in_user EXCEPT ![c] = TRUE]
    /\ UNCHANGED <<wsi, should_disconnect, rooms, server_vars, room_vars>>

(* Commands that only queue messages, and every refusal of the above.  A   *)
(* message that is no command ends the process: that is in Process.        *)
Answer == UNCHANGED <<client_vars, rooms, server_vars, room_vars>>

(* A faulty variant: the connection is cleared while it is in its rooms. *)
CloseConnectionInRooms(c) ==
    /\ chatclients' = Remove(chatclients, c)
    /\ logged_in_user' = [logged_in_user EXCEPT ![c] = FALSE]
    /\ rooms' = [rooms EXCEPT ![c] = NoRooms]
    /\ UNCHANGED <<wsi, should_disconnect, chatrooms, next_chatroomid, room_vars>>

(* task::closeconnection(): then the connection is forgotten and cleared. *)
CloseConnection(c) ==
    /\ ExitAllChatRooms(c)
    /\ chatclients' = Remove(chatclients, c)
    /\ logged_in_user' = [logged_in_user EXCEPT ![c] = FALSE]
    /\ UNCHANGED <<wsi, should_disconnect>>

(* tasks::do_tasks takes the oldest task, if it is of this type and of     *)
(* this client.                                                            *)
TakeTask(type, c) ==
    /\ chatroom_tasks # << >>
    /\ Head(chatroom_tasks) = Task(type, c)
    /\ chatroom_tasks' = Tail(chatroom_tasks)

(* task::receivedmessage *)
ReceivedMessage(c) ==
    /\ TakeTask("received_message", c)
    /\ \/ \E secure \in BOOLEAN : AddChatRoom(c, secure)
       \/ \E r \in RoomIds, leave_other_chatrooms \in BOOLEAN :
             JoinChatRoom(c, r, leave_other_chatrooms)
       \/ \E r \in RoomIds : LeaveChatRoom(c, r)
       \/ \E r \in RoomIds : RemoveChatRoom(r)
       \/ \E disconnect \in BOOLEAN : Logout(c, disconnect)
       \/ Login(c)
       \/ Answer

ClosedConnection(c) == TakeTask("close_connection", c) /\ CloseConnection(c)

RunTask == \E c \in Clients : ReceivedMessage(c) \/ ClosedConnection(c)

-----------------------------------------------------------------------------
Next ==
    \/ \E c \in Clients : Established(c) \/ Receive(c) \/ Closed(c) \/ Dropped(c)
    \/ RunTask

(* The worker keeps taking tasks (TaskQueue!EveryTaskRuns).  No client has *)
(* to connect, to send or to close.                                        *)
Fairness == WF_vars(RunTask)

Spec == Init /\ [][Next]_vars
FairSpec == Spec /\ Fairness

-----------------------------------------------------------------------------
TypeOK ==
    /\ wsi \in [Clients -> {"none", "open", "null"}]
    /\ should_disconnect \in [Clients -> BOOLEAN]
    /\ logged_in_user \in [Clients -> BOOLEAN]
    /\ rooms \in [Clients -> Lists(RoomIds)]
    /\ chatclients \in Lists(Clients)
    /\ chatrooms \in Lists(RoomIds)
    /\ next_chatroomid \in 1 .. MaxRooms + 1
    /\ chatroom_tasks \in Seq([type : {"received_message", "close_connection"},
                               client : Clients])
    /\ heap \subseteq RoomIds
    /\ clients \in [RoomIds -> Lists(Clients)]
    /\ number_of_clients \in [RoomIds -> Int]
    /\ delete_if_unused \in [RoomIds -> BOOLEAN]

(* A client is in a room's list of clients exactly when the room is in the *)
(* client's list of rooms: the commands change the two lists one after the *)
(* other, on six different paths.                                          *)
MembershipAgrees ==
    \A c \in Clients, r \in heap : c \in Members(clients[r]) <=> r \in Members(rooms[c])

(* No list refers to a deleted room: task::closeconnection and             *)
(* exit_all_chatrooms dereference every room of a client.                  *)
NoDeletedRoom ==
    /\ Members(chatrooms) = heap
    /\ \A c \in Clients : Members(rooms[c]) \subseteq heap

(* No room and no task refers to a connection that task::closeconnection   *)
(* has cleared, though messages of it were queued before the close.        *)
NoClearedClient ==
    /\ \A r \in heap : Members(clients[r]) \subseteq Members(chatclients)
    /\ \A k \in 1 .. Len(chatroom_tasks) : chatroom_tasks[k].client \in Members(chatclients)

(* number_of_clients is the number of clients in the room: a room is       *)
(* deleted or kept by this number alone.                                   *)
NumberIsCount ==
    \A r \in heap : number_of_clients[r] = Cardinality(Members(clients[r]))

(* A room that is to be deleted when everybody leaves is deleted then,     *)
(* whether they leave, log out, move to another room or disconnect.        *)
NoUnusedRoom == \A r \in heap : delete_if_unused[r] => Members(clients[r]) # {}

(* task.cpp:147, "The user closed the connection. Remove them from any     *)
(* chatrooms": every member of a room is a registered connection.  The     *)
(* code does not keep it when a list is longer than BIGLIST_SIZE.          *)
MembersAreConnected == \A r \in heap : Members(clients[r]) \subseteq Members(chatclients)

(* A closed connection is at last out of every room and of the list of     *)
(* connections.                                                            *)
ClosedIsForgotten ==
    \A c \in Clients : wsi[c] = "null" ~>
        /\ c \notin Members(chatclients)
        /\ \A r \in heap : c \notin Members(clients[r])

-----------------------------------------------------------------------------
(* Up to this size of the lists nothing overflows their first node. *)
WithinCapacity ==
    /\ IsFiniteSet(Clients) /\ Cardinality(Clients) <= BIGLIST_SIZE
    /\ MaxRooms <= BIGLIST_SIZE

(* Why the above holds while it does: an invariant that every step keeps.  *)
ListsFlat ==
    /\ Flat(chatclients) /\ Flat(chatrooms)
    /\ \A c \in Clients : Flat(rooms[c])
    /\ \A r \in RoomIds : Flat(clients[r])

RoomsExist ==
    /\ chatrooms.head = heap
    /\ \A c \in Clients : rooms[c].head \subseteq heap
    /\ \A r \in heap : r < next_chatroomid

RoomsCounted ==
    \A r \in heap :
        /\ \A c \in Clients : c \in clients[r].head <=> r \in rooms[c].head
        /\ number_of_clients[r] = Cardinality(clients[r].head)
        /\ delete_if_unused[r] => clients[r].head # {}

(* The close of a connection is the last task of it. *)
TasksInOrder ==
    \A k \in 1 .. Len(chatroom_tasks) :
        LET task == chatroom_tasks[k]
        IN  /\ task.client \in chatclients.head
            /\ task.type = "close_connection" =>
                 /\ wsi[task.client] = "null"
                 /\ \A j \in 1 .. Len(chatroom_tasks) :
                        j > k => chatroom_tasks[j].client # task.client

ClientsConnected ==
    /\ \A c \in Clients : wsi[c] = "open" => c \in chatclients.head
    /\ \A r \in heap : clients[r].head \subseteq chatclients.head

IndInv ==
    /\ TypeOK
    /\ ListsFlat
    /\ RoomsExist
    /\ RoomsCounted
    /\ TasksInOrder
    /\ ClientsConnected
=============================================================================
