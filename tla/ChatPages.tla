------------------------------ MODULE ChatPages ------------------------------
(***************************************************************************)
(* What the clients are told of the chatrooms.  The commands of ChatRooms  *)
(* with the messages they queue, and what example.html makes of them.      *)
(*                                                                         *)
(* A client's messages reach it in the order they were queued (one fast    *)
(* queue per client), so each is applied to its page in the step that      *)
(* queues it: `page' is what the page shows when all of them have arrived. *)
(***************************************************************************)
EXTENDS ChatRooms

VARIABLES
    page,       \* page[c][r]: what c's page shows of room r
    listed      \* history: clients that were sent a chatroomlist

page_vars == <<page, listed>>

(* An element of the page's array `chatrooms', or none.  mine is bit 1 of  *)
(* its field info.                                                         *)
NotShown == [shown |-> FALSE, count |-> 0, mine |-> FALSE]

EmptyPage == [r \in RoomIds |-> NotShown]

(* add_message drops a message for a client whose wsi is null. *)
Receivers(list) == {c \in Members(list) : wsi[c] = "open"}

(* userjoinedchatroom and userleftchatroom take the number over, if the    *)
(* page shows the room.  Its own membership changes if the message is      *)
(* about itself.                                                           *)
OfOther(entry, number) ==
    IF entry.shown THEN [entry EXCEPT !.count = number] ELSE entry
OfItself(entry, number, in) ==
    IF entry.shown THEN [entry EXCEPT !.count = number, !.mine = in] ELSE entry

(* userjoinedchatroom (in) or userleftchatroom (~in) about c, to everyone  *)
(* in a list of clients.                                                   *)
Told(pages, r, list, c, number, in) ==
    [d \in Clients |->
        IF d \notin Receivers(list) THEN pages[d]
        ELSE [pages[d] EXCEPT ![r] =
                 IF d = c THEN OfItself(@, number, in) ELSE OfOther(@, number)]]

(* The same for each room in R, with the list and the number of each. *)
ToldAll(R, lists, c, number, in) ==
    [d \in Clients |->
        [r \in RoomIds |->
            IF r \in R THEN Told(page, r, lists[r], c, number[r], in)[d][r] ELSE page[d][r]]]

(* A faulty variant: nobody is told. *)
DeletedUntold(pages, gone) == pages

(* chatroomwasdeleted, to all connections *)
Deleted(pages, gone) ==
    [d \in Clients |->
        [r \in RoomIds |->
            IF r \in gone /\ d \in Receivers(chatclients) THEN NotShown ELSE pages[d][r]]]

(* A faulty variant: those who stay, and the client, are not told. *)
PageAfterExitUntold(c, R) == Deleted(page, Unused(c, R))

(* exit_all_chatrooms: userleftchatroom goes to the room before the client *)
(* is taken out of it, with the number before.                             *)
PageAfterExit(c, R) ==
    Deleted(ToldAll(R, clients, c, number_of_clients, FALSE), Unused(c, R))

-----------------------------------------------------------------------------
(* The main thread.  A page begins empty. *)
PageInit == page = [c \in Clients |-> EmptyPage] /\ listed = {}

EstablishedPage(c) == Established(c) /\ UNCHANGED page_vars

ReceivePage(c) == Receive(c) /\ UNCHANGED page_vars

ClosedPage(c) ==
    /\ Closed(c)
    /\ page' = [page EXCEPT ![c] = EmptyPage]
    /\ listed' = listed \ {c}

DroppedPage(c) == should_disconnect[c] /\ ClosedPage(c)

-----------------------------------------------------------------------------
(* The worker. *)

(* addchatroom: chatroomcreated to the client with info(true), to all      *)
(* others with info(false).                                                *)
AddChatRoomPage(c, secure) ==
    /\ AddChatRoom(c, secure)
    /\ page' = [d \in Clients |->
                   IF wsi[d] = "open" /\ d \in Members(chatclients) \cup {c}
                   THEN [page[d] EXCEPT ![next_chatroomid] =
                            [shown |-> TRUE, count |-> 1, mine |-> d = c]]
                   ELSE page[d]]
    /\ UNCHANGED listed

(* joinchatroom: userjoinedchatroom to the room with the client in it *)
JoinChatRoomPage(c, r, leave_other_chatrooms) ==
    /\ JoinChatRoom(c, r, leave_other_chatrooms)
    /\ page' = Told(PageAfterExit(c, RoomsToLeave(c, leave_other_chatrooms)),
                    r, clients'[r], c, number_of_clients'[r], TRUE)
    /\ UNCHANGED listed

(* leavechatroom: userleftchatroom to those who stay and to the client, or *)
(* chatroomwasdeleted to all.  The last client to leave a room that is     *)
(* kept is sent nothing.                                                   *)
LeaveChatRoomPage(c, r) ==
    /\ LeaveChatRoom(c, r)
    /\ LET number == number_of_clients'[r]
           told == Told(page, r, clients'[r], c, number, FALSE)
       IN  page' = IF number = 0 THEN Deleted(page, heap \ heap')
                   ELSE IF wsi[c] # "open" THEN told
                   ELSE [told EXCEPT ![c][r] = OfItself(@, number, FALSE)]
    /\ UNCHANGED listed

(* removechatroom: chatroomwasdeleted to all *)
RemoveChatRoomPage(r) ==
    /\ RemoveChatRoom(r)
    /\ page' = Deleted(page, {r})
    /\ UNCHANGED listed

LogoutPage(c, disconnect) ==
    /\ Logout(c, disconnect)
    /\ page' = PageAfterExit(c, Members(rooms[c]))
    /\ UNCHANGED listed

(* login: userjoinedchatroom to every room the client is in *)
LoginPage(c) ==
    /\ Login(c)
    /\ page' = ToldAll(Members(rooms[c]), clients, c, number_of_clients, TRUE)
    /\ UNCHANGED listed

(* getchatroomlist: the page shows these rooms and no others. *)
GetChatRoomList(c) ==
    /\ Answer
    /\ wsi[c] = "open"
    /\ page' = [page EXCEPT ![c] =
                   [r \in RoomIds |->
                       IF r \in Members(chatrooms)
                       THEN [shown |-> TRUE, count |-> number_of_clients[r],
                             mine |-> c \in Members(clients[r])]
                       ELSE NotShown]]
    /\ listed' = listed \cup {c}

(* Errors, and commands whose messages are not about the rooms. *)
AnswerPage == Answer /\ UNCHANGED page_vars

ReceivedMessagePage(c) ==
    /\ TakeTask("received_message", c)
    /\ \/ \E secure \in BOOLEAN : AddChatRoomPage(c, secure)
       \/ \E r \in RoomIds, leave_other_chatrooms \in BOOLEAN :
             JoinChatRoomPage(c, r, leave_other_chatrooms)
       \/ \E r \in RoomIds : LeaveChatRoomPage(c, r)
       \/ \E r \in RoomIds : RemoveChatRoomPage(r)
       \/ \E disconnect \in BOOLEAN : LogoutPage(c, disconnect)
       \/ LoginPage(c)
       \/ GetChatRoomList(c)
       \/ AnswerPage

(* task::closeconnection: userleftchatroom goes to those who stay, with    *)
(* the number after.                                                       *)
ClosedConnectionPage(c) ==
    /\ ClosedConnection(c)
    /\ page' = Deleted(ToldAll(Members(rooms[c]), clients', c, number_of_clients', FALSE),
                       heap \ heap')
    /\ UNCHANGED listed

PageNext ==
    \E c \in Clients :
        \/ EstablishedPage(c) \/ ReceivePage(c) \/ ClosedPage(c) \/ DroppedPage(c)
        \/ ReceivedMessagePage(c)
        \/ ClosedConnectionPage(c)

PageSpec == Init /\ PageInit /\ [][PageNext]_<<vars, page_vars>>

-----------------------------------------------------------------------------
PageTypeOK ==
    /\ page \in [Clients -> [RoomIds ->
                   [shown : BOOLEAN, count : 0 .. Cardinality(Clients), mine : BOOLEAN]]]
    /\ listed \subseteq Clients

(* A page never shows a room that is gone, and once a client has asked for *)
(* the list it goes on showing every room there is.                        *)
PageShowsRooms ==
    \A c \in Clients : wsi[c] = "open" =>
        LET shown == {r \in RoomIds : page[c][r].shown}
        IN  shown \subseteq heap /\ (c \in listed => shown = heap)

(* What a page can be wrong about: the number it shows for a room the      *)
(* client is in is the true one or one too many, and a room it believes to *)
(* be in without being there is one that is kept without clients.          *)
PageNearlyRight ==
    \A c \in Clients, r \in heap : wsi[c] = "open" /\ page[c][r].shown =>
        LET in == c \in Members(clients[r])
        IN  /\ in => page[c][r].count - number_of_clients[r] \in {0, 1}
            /\ in => page[c][r].mine
            /\ page[c][r].mine => in \/ ~delete_if_unused[r]
-----------------------------------------------------------------------------
(* The page of a connection that is still to come shows nothing.           *)
NoPageYet == \A c \in Clients : wsi[c] = "none" => page[c] = EmptyPage /\ c \notin listed

(* Why pages are right while no list outgrows BIGLIST_SIZE: an invariant   *)
(* that every step keeps.                                                  *)
PageInv ==
    /\ IndInv
    /\ PageTypeOK
    /\ NoPageYet
    /\ PageShowsRooms
    /\ PageNearlyRight
=============================================================================
