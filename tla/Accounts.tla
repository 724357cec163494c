------------------------------ MODULE Accounts -------------------------------
(***************************************************************************)
(* The users the server knows and who is logged in as whom, when two       *)
(* threads change both without a lock.                                     *)
(*                                                                         *)
(* The worker runs login, adduser, removeuser, getusers, logout and the    *)
(* close of a connection.  A login of a name it does not find is a task    *)
(* for the slow thread, which asks another server, adds the user to the    *)
(* same list and logs the connection in, whatever happened to it since.    *)
(* Every access to a row of the list or to logged_in_user is a step.       *)
(*                                                                         *)
(* The rows are those of one biglist node (BigList has more).  Addresses   *)
(* of users are not used again, so that a use after a deletion is seen.    *)
(***************************************************************************)
EXTENDS Naturals, Sequences

CONSTANTS Clients,      \* connections; each is opened and closed once
          Names, Ids,   \* user names and userids
          MaxUsers,     \* bound: the users created in a behaviour
          MaxTasks      \* bound: the remote logins that wait

ASSUME AccountsAssumption ==
    /\ MaxUsers \in Nat \ {0}
    /\ MaxTasks \in Nat
    /\ 0 \notin Names \cup Ids      \* which is Null

Threads == {"worker", "slow"}
Null == 0
Users == 1 .. MaxUsers       \* addresses
Rows == 1 .. MaxUsers        \* no more rows than users are ever used

NoTask == [client |-> Null, name |-> Null]
NoCommand == [client |-> Null, name |-> Null, id |-> Null, user |-> Null]

VARIABLES
    \* chatclient, websocket::chatclients
    connection,        \* "none", "open", "closed" once the worker forgot it
    logged_in_user,    \* an address
    \* user
    heap,              \* the users that were not deleted
    userid, username,
    \* websocket
    used, item,        \* the rows of the list users
    slow_tasks,
    \* threads
    pc,
    command,           \* what the worker runs
    task,              \* what the slow thread runs
    row,               \* the row a thread looks at or writes
    new_user,          \* the user a thread is adding
    unseen,            \* connections the loop of removeuser has not come to
    fault,             \* a null pointer was read: the process has ended
    \* history
    by,                \* the thread that logged a connection in
    remote,            \* users the slow thread made
    collided           \* rows both threads were about to use

user_vars == <<heap, userid, username, remote>>
list_vars == <<used, item, collided>>
login_vars == <<logged_in_user, by>>
slow_vars == <<slow_tasks, task>>
vars == <<connection, login_vars, user_vars, list_vars, slow_vars, pc, command, row,
          new_user, unseen, fault>>

Init ==
    /\ connection = [c \in Clients |-> "none"]
    /\ logged_in_user = [c \in Clients |-> Null]
    /\ heap = {}
    /\ userid = [u \in Users |-> Null]
    /\ username = [u \in Users |-> Null]
    /\ used = [r \in Rows |-> FALSE]
    /\ item = [r \in Rows |-> Null]
    /\ slow_tasks = << >>
    /\ pc = [t \in Threads |-> "idle"]
    /\ command = NoCommand
    /\ task = NoTask
    /\ row = [t \in Threads |-> 1]
    /\ new_user = [t \in Threads |-> Null]
    /\ unseen = {}
    /\ fault = FALSE
    /\ by = [c \in Clients |-> "none"]
    /\ remote = {}
    /\ collided = {}

At(t, label) == pc[t] = label
Goto(t, label) == pc' = [pc EXCEPT ![t] = label]
Open == {c \in Clients : connection[c] = "open"}

-----------------------------------------------------------------------------
(* biglist::add, by either thread. *)

(* The first row that is not used.  The loop reads one row after the       *)
(* other; what changes meanwhile the test below sees.                      *)
FirstUnused == CHOOSE r \in Rows : ~used[r] /\ \A s \in Rows : s < r => used[s]

FindRow(t) ==
    /\ At(t, "find row")
    /\ row' = [row EXCEPT ![t] = FirstUnused]
    /\ Goto(t, "test row")
    /\ UNCHANGED <<connection, login_vars, user_vars, list_vars, slow_vars, command,
                   new_user, unseen, fault>>

(* A faulty variant: the row found is taken without a second look. *)
TestNothing(t) ==
    /\ At(t, "test row")
    /\ Goto(t, "mark row")
    /\ UNCHANGED <<connection, login_vars, user_vars, list_vars, slow_vars, command, row,
                   new_user, unseen, fault>>

(* if (empty1->items[empty2].used) *)
TestRow(t) ==
    /\ At(t, "test row")
    /\ IF used[row[t]]
       THEN row' = [row EXCEPT ![t] = @ + 1] /\ UNCHANGED <<pc, collided>>
       ELSE /\ Goto(t, "mark row")
            /\ collided' = IF \E s \in Threads \ {t} : At(s, "mark row") /\ row[s] = row[t]
                           THEN collided \cup {row[t]} ELSE collided
            /\ UNCHANGED row
    /\ UNCHANGED <<connection, login_vars, user_vars, used, item, slow_vars, command,
                   new_user, unseen, fault>>

(* used = true, and only then item = item *)
MarkRow(t) ==
    /\ At(t, "mark row")
    /\ used' = [used EXCEPT ![row[t]] = TRUE]
    /\ Goto(t, "fill row")
    /\ UNCHANGED <<connection, login_vars, user_vars, item, collided, slow_vars, command, row,
                   new_user, unseen, fault>>

FillRow(t, next) ==
    /\ At(t, "fill row")
    /\ item' = [item EXCEPT ![row[t]] = new_user[t]]
    /\ row' = [row EXCEPT ![t] = 1]
    /\ Goto(t, next)
    /\ UNCHANGED <<connection, login_vars, user_vars, used, collided, slow_vars, unseen, fault>>

(* new user(): the address is not used again. *)
NewUser(t, id, name) ==
    LET u == CHOOSE v \in Users : username[v] = Null
    IN  /\ \E v \in Users : username[v] = Null
        /\ heap' = heap \cup {u}
        /\ userid' = [userid EXCEPT ![u] = id]
        /\ username' = [username EXCEPT ![u] = name]
        /\ remote' = IF t = "slow" THEN remote \cup {u} ELSE remote
        /\ new_user' = [new_user EXCEPT ![t] = u]

-----------------------------------------------------------------------------
(* The worker: user::find and the other loops over the list.               *)

StopAt(label, r) == Goto("worker", label) /\ row' = [row EXCEPT !["worker"] = r]

Here == item[row["worker"]]

(* An iterator at the next row: an unused one is skipped, a null item is   *)
(* dereferenced, and an item that does not match is passed over.           *)
Visit(label, matches, found, stop, end) ==
    LET r == row["worker"]
    IN  /\ At("worker", label)
        /\ IF r > MaxUsers
           THEN StopAt(end, 1) /\ UNCHANGED <<command, fault>>
           ELSE IF used[r] /\ Here = Null
           THEN fault' = TRUE /\ UNCHANGED <<pc, row, command>>
           ELSE IF used[r] /\ matches
           THEN StopAt(found, stop) /\ command' = [command EXCEPT !.user = Here] /\ UNCHANGED fault
           ELSE StopAt(label, r + 1) /\ UNCHANGED <<command, fault>>
        /\ UNCHANGED <<connection, login_vars, user_vars, list_vars, slow_vars, new_user,
                       unseen>>

HasName(u) == username[u] = command.name
HasId(u) == userid[u] = command.id

(* The end of a command, whatever the answer. *)
Done ==
    /\ Goto("worker", "idle")
    /\ command' = NoCommand

(* The worker begins a command: c logs in as name. *)
BeginLogin(c, name) ==
    /\ At("worker", "idle")
    /\ c \in Open
    /\ Len(slow_tasks) < MaxTasks
    /\ command' = [client |-> c, name |-> name, id |-> Null, user |-> Null]
    /\ Goto("worker", "login")
    /\ UNCHANGED <<connection, login_vars, user_vars, list_vars, slow_vars, row, new_user,
                   unseen, fault>>

LoginFinds == Visit("login", HasName(Here), "compare password", 1, "not found")

(* chatcommand_login::login; `right' says that the password is. *)
ComparePassword(right) ==
    LET c == command.client
    IN  /\ At("worker", "compare password")
        /\ IF right
           THEN /\ logged_in_user' = [logged_in_user EXCEPT ![c] = command.user]
                /\ by' = [by EXCEPT ![c] = "worker"]
           ELSE UNCHANGED login_vars
        /\ Done
        /\ UNCHANGED <<connection, user_vars, list_vars, slow_vars, row, new_user, unseen,
                       fault>>

(* The user is not found: task::remotelogin. *)
QueueRemoteLogin ==
    /\ At("worker", "not found")
    /\ slow_tasks' = Append(slow_tasks, [client |-> command.client, name |-> command.name])
    /\ Done
    /\ UNCHANGED <<connection, login_vars, user_vars, list_vars, task, row, new_user, unseen,
                   fault>>

(* adduser with the server password *)
BeginAddUser(id, name) ==
    /\ At("worker", "idle")
    /\ command' = [client |-> Null, name |-> name, id |-> id, user |-> Null]
    /\ Goto("worker", "find id")
    /\ UNCHANGED <<connection, login_vars, user_vars, list_vars, slow_vars, row, new_user,
                   unseen, fault>>

FindId == Visit("find id", HasId(Here), "answer", 1, "find name")

(* A faulty variant: the user name is not looked for. *)
FindNoName == Visit("find name", FALSE, "answer", 1, "new user")

FindName == Visit("find name", HasName(Here), "answer", 1, "new user")

Answer ==
    /\ At("worker", "answer")
    /\ Done
    /\ UNCHANGED <<connection, login_vars, user_vars, list_vars, slow_vars, row, new_user,
                   unseen, fault>>

AddUser ==
    /\ At("worker", "new user")
    /\ NewUser("worker", command.id, command.name)
    /\ Goto("worker", "find row")
    /\ UNCHANGED <<connection, login_vars, list_vars, slow_vars, command, row, unseen, fault>>

UserAdded ==
    /\ FillRow("worker", "idle")
    /\ command' = NoCommand
    /\ new_user' = [new_user EXCEPT !["worker"] = Null]
    /\ UNCHANGED task

-----------------------------------------------------------------------------
(* getusers: a loop over the rows, for each a loop over the connections. *)
BeginGetUsers ==
    /\ At("worker", "idle")
    /\ Goto("worker", "get users")
    /\ UNCHANGED <<connection, login_vars, user_vars, list_vars, slow_vars, command, row,
                   new_user, unseen, fault>>

GetUsers == Visit("get users", FALSE, "idle", 1, "idle")

-----------------------------------------------------------------------------
(* removeuser with the server password *)
BeginRemoveUser(id) ==
    /\ At("worker", "idle")
    /\ command' = [client |-> Null, name |-> Null, id |-> id, user |-> Null]
    /\ unseen' = Open
    /\ Goto("worker", "look for login")
    /\ UNCHANGED <<connection, login_vars, user_vars, list_vars, slow_vars, row, new_user, fault>>

(* A faulty variant: the user is removed logged in or not. *)
LookForNoLogin(c) ==
    /\ At("worker", "look for login")
    /\ c \in unseen
    /\ unseen' = unseen \ {c}
    /\ UNCHANGED <<connection, login_vars, user_vars, list_vars, slow_vars, pc, command, row,
                   new_user, fault>>

(* The loop over chatclients.  The userid of a deleted user is anything.   *)
LookForLogin(c) ==
    LET u == logged_in_user[c]
    IN  /\ At("worker", "look for login")
        /\ c \in unseen
        /\ \E found \in BOOLEAN :
              /\ u \in heap \cup {Null} => (found <=> u # Null /\ HasId(u))
              /\ IF found
                 THEN Goto("worker", "answer") /\ unseen' = {}
                 ELSE unseen' = unseen \ {c} /\ UNCHANGED pc
        /\ UNCHANGED <<connection, login_vars, user_vars, list_vars, slow_vars, command, row,
                       new_user, fault>>

NobodyLoggedIn ==
    /\ At("worker", "look for login")
    /\ unseen = {}
    /\ Goto("worker", "remove")
    /\ UNCHANGED <<connection, login_vars, user_vars, list_vars, slow_vars, command, row,
                   new_user, unseen, fault>>

(* The loop over the users begins: the iterator looks for a used row. *)
FirstUser == Visit("remove", TRUE, "first user", row["worker"], "answer")

(* If it is the one to remove, it is.  Otherwise the iterator stays where  *)
(* it is: the loop never ends.                                             *)
TestUser ==
    /\ At("worker", "first user")
    /\ HasId(command.user)
    /\ Goto("worker", "delete user")
    /\ UNCHANGED <<connection, login_vars, user_vars, list_vars, slow_vars, command, row,
                   new_user, unseen, fault>>

LoopForEver ==
    /\ At("worker", "first user")
    /\ ~HasId(command.user)
    /\ UNCHANGED vars

(* delete row->item *)
DeleteUser ==
    /\ At("worker", "delete user")
    /\ heap' = heap \ {item[row["worker"]]}
    /\ Goto("worker", "clear row")
    /\ UNCHANGED <<connection, login_vars, userid, username, remote, list_vars, slow_vars,
                   command, row, new_user, unseen, fault>>

ItemCleared == item' = [item EXCEPT ![row["worker"]] = Null] /\ UNCHANGED used
RowFreed == used' = [used EXCEPT ![row["worker"]] = FALSE] /\ UNCHANGED item

(* A faulty variant: the row is free before its item is cleared. *)
FreeFirst(first) == IF first THEN RowFreed ELSE ItemCleared

(* row->item = nullptr, and only then row->used = false *)
Clear(first) == IF first THEN ItemCleared ELSE RowFreed

ClearFirst ==
    /\ At("worker", "clear row")
    /\ Clear(TRUE)
    /\ Goto("worker", "clear row again")
    /\ UNCHANGED <<connection, login_vars, user_vars, collided, slow_vars, command, row,
                   new_user, unseen, fault>>

ClearSecond ==
    /\ At("worker", "clear row again")
    /\ Clear(FALSE)
    /\ row' = [row EXCEPT !["worker"] = 1]
    /\ Done
    /\ UNCHANGED <<connection, login_vars, user_vars, collided, slow_vars, new_user, unseen,
                   fault>>

-----------------------------------------------------------------------------
(* Connections: opened by the main thread, logged out and forgotten by the *)
(* worker.                                                                 *)
Established(c) ==
    /\ connection[c] = "none"
    /\ connection' = [connection EXCEPT ![c] = "open"]
    /\ UNCHANGED <<login_vars, user_vars, list_vars, slow_vars, pc, command, row, new_user,
                   unseen, fault>>

Forget(c) ==
    /\ logged_in_user' = [logged_in_user EXCEPT ![c] = Null]
    /\ by' = [by EXCEPT ![c] = "none"]
    /\ UNCHANGED <<user_vars, list_vars, slow_vars, pc, command, row, new_user, unseen, fault>>

Logout(c) ==
    /\ At("worker", "idle")
    /\ c \in Open
    /\ logged_in_user[c] # Null
    /\ Forget(c)
    /\ UNCHANGED connection

(* task::closeconnection(), chatclient::clear *)
CloseConnection(c) ==
    /\ At("worker", "idle")
    /\ c \in Open
    /\ connection' = [connection EXCEPT ![c] = "closed"]
    /\ Forget(c)

-----------------------------------------------------------------------------
(* The slow thread: chatcommand_login::remotelogin. *)

(* What readurl may return.  The transfer ends well, with an error that    *)
(* has a text in read_url, or with one that has none; what arrived until   *)
(* then, in any number of calls of write_callback, begins with a digit,    *)
(* with something else, or is empty.                                       *)
Results == [code : {"ok", "named", "other"}, data : {"digit", "text", "empty"}]

Accepted(result) == result.code # "named" /\ result.data = "digit"

RemoteLogin ==
    /\ At("slow", "idle")
    /\ slow_tasks # << >>
    /\ task' = Head(slow_tasks)
    /\ slow_tasks' = Tail(slow_tasks)
    /\ Goto("slow", "read url")
    /\ UNCHANGED <<connection, login_vars, user_vars, list_vars, command, row, new_user, unseen,
                   fault>>

(* An error is answered and that is all. *)
LoginRefused(result) ==
    /\ At("slow", "read url")
    /\ ~Accepted(result)
    /\ Goto("slow", "idle")
    /\ task' = NoTask
    /\ UNCHANGED <<connection, login_vars, user_vars, list_vars, slow_tasks, command, row,
                   new_user, unseen, fault>>

LoginAccepted(result, id) ==
    /\ At("slow", "read url")
    /\ Accepted(result)
    /\ NewUser("slow", id, task.name)
    /\ Goto("slow", "find row")
    /\ UNCHANGED <<connection, login_vars, list_vars, slow_vars, command, row, unseen, fault>>

RemoteUserAdded ==
    /\ FillRow("slow", "log in")
    /\ UNCHANGED <<command, new_user, task>>

(* client->logged_in_user = new_user, connected or not. *)
RemoteLoggedIn ==
    LET c == task.client
    IN  /\ At("slow", "log in")
        /\ logged_in_user' = [logged_in_user EXCEPT ![c] = new_user["slow"]]
        /\ by' = [by EXCEPT ![c] = "slow"]
        /\ new_user' = [new_user EXCEPT !["slow"] = Null]
        /\ task' = NoTask
        /\ Goto("slow", "idle")
        /\ UNCHANGED <<connection, user_vars, list_vars, slow_tasks, command, row, unseen, fault>>

-----------------------------------------------------------------------------
LoginStep ==
    \/ \E c \in Clients, name \in Names : BeginLogin(c, name)
    \/ LoginFinds \/ QueueRemoteLogin
    \/ \E right \in BOOLEAN : ComparePassword(right)

AddUserStep ==
    \/ \E id \in Ids, name \in Names : BeginAddUser(id, name)
    \/ FindId \/ FindName \/ Answer \/ AddUser \/ UserAdded

RemoveUserStep ==
    \/ \E id \in Ids : BeginRemoveUser(id)
    \/ \E c \in Clients : LookForLogin(c)
    \/ NobodyLoggedIn \/ FirstUser \/ TestUser \/ LoopForEver
    \/ DeleteUser \/ ClearFirst \/ ClearSecond

SlowStep ==
    \/ RemoteLogin
    \/ \E result \in Results : LoginRefused(result)
    \/ \E result \in Results, id \in Ids : LoginAccepted(result, id)
    \/ RemoteUserAdded \/ RemoteLoggedIn

AddStep(t) == FindRow(t) \/ TestRow(t) \/ MarkRow(t)

Next ==
    /\ ~fault
    /\ \/ \E c \in Clients : Established(c) \/ Logout(c) \/ CloseConnection(c)
       \/ LoginStep \/ AddUserStep \/ BeginGetUsers \/ GetUsers \/ RemoveUserStep
       \/ SlowStep
       \/ \E t \in Threads : AddStep(t)

Spec == Init /\ [][Next]_vars
-----------------------------------------------------------------------------
TypeOK ==
    /\ connection \in [Clients -> {"none", "open", "closed"}]
    /\ logged_in_user \in [Clients -> Users \cup {Null}]
    /\ heap \subseteq Users
    /\ userid \in [Users -> Ids \cup {Null}]
    /\ username \in [Users -> Names \cup {Null}]
    /\ used \in [Rows -> BOOLEAN]
    /\ item \in [Rows -> Users \cup {Null}]
    /\ slow_tasks \in Seq([client : Clients, name : Names])
    /\ row \in [Threads -> Rows \cup {MaxUsers + 1}]
    /\ new_user \in [Threads -> Users \cup {Null}]
    /\ unseen \subseteq Clients
    /\ fault \in BOOLEAN

(* A connection is logged in as a user that was deleted, or logged in      *)
(* after the server forgot it, only by the slow thread: removeuser and the *)
(* close (chatcommand_removeuser.cpp:40, task.cpp:194) are right about     *)
(* every login of the worker, also of a user the slow thread added.        *)
OnlyRemoteIsStale ==
    \A c \in Clients :
        \/ logged_in_user[c] \notin heap /\ logged_in_user[c] # Null
        \/ connection[c] # "open" /\ logged_in_user[c] # Null
        => by[c] = "slow"

(* Two users of one name or of one id are listed only if the slow thread   *)
(* made one of them: adduser refuses both (chatcommand_adduser.cpp:46), a  *)
(* remote login does not look.                                             *)
TwinsOnlyByRemote ==
    \A r, s \in Rows :
        LET u == item[r]
            v == item[s]
        IN  /\ used[r] /\ used[s] /\ u # Null /\ v # Null /\ u # v
            /\ userid[u] = userid[v] \/ username[u] = username[v]
            => {u, v} \cap remote # {}

(* A loop over the users reads a null pointer only at the row the slow     *)
(* thread has marked and not filled (biglist.h:127), never at a row that   *)
(* removeuser frees.                                                       *)
NullOnlyBeingFilled ==
    fault => At("slow", "fill row") /\ row["slow"] = row["worker"]

(* A user that was added can be found until it is removed, unless both     *)
(* threads saw the same row unused and one of them wrote over the other.   *)
LostOnlyTogether ==
    \A u \in heap :
        \/ \E r \in Rows : used[r] /\ item[r] = u
        \/ \E t \in Threads : new_user[t] = u
        \/ At("worker", "clear row again")
        \/ collided # {}
=============================================================================
