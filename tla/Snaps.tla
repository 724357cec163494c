-------------------------------- MODULE Snaps --------------------------------
(***************************************************************************)
(* Snaps: messages to a user that wait on the server, in the order they    *)
(* were sent, until they expire, and that a connection of the user gets    *)
(* after it has called getsnaps.                                           *)
(*                                                                         *)
(* The queue of snaps belongs to the worker, which runs each command to    *)
(* its end: a command is one step here, except readsnap, whose loop over   *)
(* the connections is a state of its own.  The main thread empties the     *)
(* queues of the connections, and the clock moves on, between the steps.   *)
(* Only the snaps in those queues are modelled, not the other replies; a   *)
(* login succeeds or is not modelled (Accounts has them).                  *)
(***************************************************************************)
EXTENDS Integers, SequencesExt

CONSTANTS Clients,      \* connections, all open and registered at first
          Users,        \* user numbers
          StartTime,    \* seconds since 1970 when the server starts
          MaxTime,      \* bound: seconds that pass
          MaxSnaps,     \* bound: snaps sent
          MaxLength,    \* bound: seconds until a snap expires
          MaxQueue      \* bound: snaps waiting in a connection's queue

ASSUME SnapsAssumption ==
    /\ StartTime \in Nat \ {0}
    /\ {MaxTime, MaxSnaps, MaxLength, MaxQueue} \subseteq Nat

SnapIds == 1 .. MaxSnaps
Times == StartTime .. StartTime + MaxTime

(* Not a snap: the null pointer left in the queue where a snap was deleted. *)
NoSnap == 0

(* Not a user: logged_in_user is null. *)
NoUser == "nobody"

VARIABLES
    \* websocket
    snaps,             \* concurrent_queue<snap *>, snapids and NoSnap
    next_snapid,
    \* snap
    to_userid, from_userid, dateexpired,
    has_text,          \* snap_message->actual_message.length > 0
    shows_received,    \* the text holds a datereceived other than 0
    \* chatclient
    chatclients,       \* the registered connections
    logged_in_user,
    latest_snapid,
    messages_to_send,  \* the snaps in the fast queue of a connection
    \* the worker in chatclient::send_message_to_user, or NotReading
    reading,
    now,               \* time()
    \* history
    asked,             \* getsnaps was called since the user logged in
    sent               \* the snaps sent to a connection since then

snap_vars == <<to_userid, from_userid, dateexpired>>
text_vars == <<has_text, shows_received>>
queue_vars == <<snaps, next_snapid, snap_vars, text_vars>>
login_vars == <<chatclients, logged_in_user>>
delivery_vars == <<latest_snapid, messages_to_send, sent>>
vars == <<queue_vars, login_vars, delivery_vars, reading, now, asked>>

(* The loop of send_message_to_user: its snap, the user it looks for, and  *)
(* the connection its iterator stands at.                                  *)
NotReading == [snapid |-> NoSnap]
Reading == [snapid : SnapIds, userid : Users, item : Clients]

Init ==
    /\ snaps = << >>
    /\ next_snapid = 1
    /\ to_userid = [id \in SnapIds |-> NoUser]
    /\ from_userid = [id \in SnapIds |-> NoUser]
    /\ dateexpired = [id \in SnapIds |-> 0]
    /\ has_text = [id \in SnapIds |-> FALSE]
    /\ shows_received = [id \in SnapIds |-> FALSE]
    /\ chatclients = Clients
    /\ logged_in_user = [c \in Clients |-> NoUser]
    /\ latest_snapid = [c \in Clients |-> -1]
    /\ messages_to_send = [c \in Clients |-> << >>]
    /\ reading = NotReading
    /\ now = StartTime
    /\ asked = [c \in Clients |-> FALSE]
    /\ sent = [c \in Clients |-> << >>]

-----------------------------------------------------------------------------
(* snap::delete_old_snaps *)

(* A faulty variant: the front is not looked at before it is removed. *)
PopAll == << >>

(* The first loop: everything in front of the first snap that is there and *)
(* has not expired.  A snap that does not expire has dateexpired 0.        *)
PopExpired ==
    LET first == SelectInSeq(snaps, LAMBDA id : id # NoSnap /\ dateexpired[id] > now)
    IN  IF first = 0 THEN << >> ELSE SubSeq(snaps, first, Len(snaps))

(* The condition of the second loop.  Its other case is a snap that was    *)
(* read, but nothing ever sets snap::datereceived.                         *)
Expired == {id \in SnapIds : 0 < dateexpired[id] /\ dateexpired[id] <= now}

(* A faulty variant: nothing is emptied. *)
TextKept == has_text

(* The second loop empties the messages of the expired snaps it finds. *)
TextAfterDelete ==
    [id \in SnapIds |-> has_text[id] /\ ~(id \in Expired /\ Contains(PopExpired, id))]

(* ... and leaves null pointers in their places. *)
SnapsAfterDelete ==
    [k \in 1 .. Len(PopExpired) |-> IF PopExpired[k] \in Expired THEN NoSnap ELSE PopExpired[k]]

-----------------------------------------------------------------------------
(* chatcommand_sendsnap::send_snaps_to_user *)

(* The elements of s that are in S, in order: SelectSeq without its        *)
(* recursion, which the provers do not expand.                             *)
Selected(s, S) ==
    LET places == {k \in 1 .. Len(s) : s[k] \in S}
        Rank(k) == Cardinality({j \in places : j <= k})
    IN  [i \in 1 .. Cardinality(places) |-> s[CHOOSE k \in places : Rank(k) = i]]

(* The snaps of user u, to it and from it, that still have a text. *)
SnapsOf(u) ==
    {id \in SnapIds : u \in {to_userid'[id], from_userid'[id]} /\ has_text'[id]}

(* Faulty variants: a snap is passed over, or all are sent once more. *)
PendingAfter(u, latest) == Selected(snaps', {id \in SnapsOf(u) : id > latest})
PendingAll(u, latest) == Selected(snaps', SnapsOf(u))

(* The snaps that a connection of user u is sent, in the queue as the      *)
(* command has left it.                                                    *)
Pending(u, latest) == Selected(snaps', {id \in SnapsOf(u) : id >= latest})

(* The connections in R get their pending snaps, counted from `latest';    *)
(* `before' is the history of what they got.                               *)
SendSnapsToUser(R, latest, before) ==
    LET pending == [c \in Clients |->
                       IF c \in R THEN Pending(logged_in_user[c], latest[c]) ELSE << >>]
    IN  /\ \A c \in R : Len(messages_to_send[c]) + Len(pending[c]) <= MaxQueue
        /\ latest_snapid' = [c \in Clients |->
                IF pending[c] = << >> THEN latest[c] ELSE Last(pending[c]) + 1]
        /\ messages_to_send' = [c \in Clients |-> messages_to_send[c] \o pending[c]]
        /\ sent' = [c \in Clients |-> before[c] \o pending[c]]

-----------------------------------------------------------------------------
(* The worker: commands of the connection c. *)

Working(c) == reading = NotReading /\ c \in chatclients

(* getsnaps *)
GetSnaps(c) ==
    /\ Working(c)
    /\ logged_in_user[c] # NoUser
    /\ snaps' = SnapsAfterDelete
    /\ has_text' = TextAfterDelete
    /\ UNCHANGED snap_vars
    /\ SendSnapsToUser({c}, [latest_snapid EXCEPT ![c] = 0], [sent EXCEPT ![c] = << >>])
    /\ asked' = [asked EXCEPT ![c] = TRUE]
    /\ UNCHANGED <<next_snapid, shows_received, login_vars, reading, now>>

(* When a snap expires; 0 for one that is to expire when it is read. *)
DateExpired(expirelength) == IF expirelength <= 0 THEN 0 ELSE now + expirelength

(* If you sent a snap, you must want to receive snaps too. *)
WantsSnaps(c) == [latest_snapid EXCEPT ![c] = IF @ < 0 THEN 0 ELSE @]

(* sendsnap *)
SendSnap(c, u, expirelength) ==
    /\ Working(c)
    /\ logged_in_user[c] # NoUser
    /\ next_snapid <= MaxSnaps
    /\ next_snapid' = next_snapid + 1
    /\ to_userid' = [to_userid EXCEPT ![next_snapid] = u]
    /\ from_userid' = [from_userid EXCEPT ![next_snapid] = logged_in_user[c]]
    /\ dateexpired' = [dateexpired EXCEPT ![next_snapid] = DateExpired(expirelength)]
    /\ snaps' = Append(SnapsAfterDelete, next_snapid)
    /\ has_text' = [TextAfterDelete EXCEPT ![next_snapid] = TRUE]
    /\ SendSnapsToUser({d \in chatclients : logged_in_user[d] = u /\ WantsSnaps(c)[d] >= 0},
                       WantsSnaps(c), sent)
    /\ UNCHANGED <<shows_received, login_vars, reading, now, asked>>

(* sendsnap of a connection that is not logged in *)
SendSnapRefused(c) ==
    /\ Working(c)
    /\ logged_in_user[c] = NoUser
    /\ latest_snapid' = WantsSnaps(c)
    /\ UNCHANGED <<queue_vars, login_vars, messages_to_send, sent, reading, now, asked>>

(* The number of characters of a time, and of the field for it that        *)
(* chatcommand::snap_message leaves: eight blanks and the 0.               *)
Characters(t) == 1 + Cardinality({k \in 1 .. 9 : t \div 10^k > 0})
FieldLength == 9

(* snap::set_datereceived *)
SetDateReceived(id) ==
    shows_received' = [shows_received EXCEPT ![id] = @ \/ Characters(now) <= FieldLength]

(* readsnap: it answers the connection and enters the loop that is to tell *)
(* the other user.  For a snap to oneself the first of two such loops.     *)
ReadSnap(c, id) ==
    /\ Working(c)
    /\ logged_in_user[c] # NoUser
    /\ snaps' = SnapsAfterDelete
    /\ has_text' = TextAfterDelete
    /\ IF Contains(SnapsAfterDelete, id) /\ logged_in_user[c] \in {from_userid[id], to_userid[id]}
       THEN /\ Len(messages_to_send[c]) < MaxQueue
            /\ SetDateReceived(id)
            /\ messages_to_send' = [messages_to_send EXCEPT ![c] = Append(@, id)]
            /\ \E first \in chatclients :
                  reading' = [snapid |-> id, item |-> first,
                              userid |-> IF logged_in_user[c] = from_userid[id]
                                         THEN to_userid[id] ELSE from_userid[id]]
       ELSE UNCHANGED <<shows_received, messages_to_send, reading>>
    /\ UNCHANGED <<next_snapid, snap_vars, login_vars, latest_snapid, sent, now, asked>>

(* One pass of the loop in chatclient::send_message_to_user: its iterator  *)
(* does not move.                                                          *)
Resend ==
    /\ reading # NotReading
    /\ LET c == reading.item
       IN  /\ logged_in_user[c] = reading.userid
           /\ latest_snapid[c] >= 0
           /\ Len(messages_to_send[c]) < MaxQueue
           /\ messages_to_send' = [messages_to_send EXCEPT ![c] = Append(@, reading.snapid)]
    /\ UNCHANGED <<queue_vars, login_vars, latest_snapid, sent, reading, now, asked>>

(* login *)
Login(c, u) ==
    /\ Working(c)
    /\ logged_in_user' = [logged_in_user EXCEPT ![c] = u]
    /\ asked' = [asked EXCEPT ![c] = FALSE]
    /\ UNCHANGED <<queue_vars, chatclients, delivery_vars, reading, now>>

(* logout *)
Logout(c) ==
    /\ Working(c)
    /\ logged_in_user[c] # NoUser
    /\ logged_in_user' = [logged_in_user EXCEPT ![c] = NoUser]
    /\ asked' = [asked EXCEPT ![c] = FALSE]
    /\ UNCHANGED <<queue_vars, chatclients, delivery_vars, reading, now>>

(* task::closeconnection() and chatclient::clear; that nothing is queued   *)
(* any more once the connection is lost is left out (Outbox has it).       *)
CloseConnection(c) ==
    /\ Working(c)
    /\ chatclients' = chatclients \ {c}
    /\ logged_in_user' = [logged_in_user EXCEPT ![c] = NoUser]
    /\ messages_to_send' = [messages_to_send EXCEPT ![c] = << >>]
    /\ asked' = [asked EXCEPT ![c] = FALSE]
    /\ sent' = [sent EXCEPT ![c] = << >>]
    /\ UNCHANGED <<queue_vars, latest_snapid, reading, now>>

-----------------------------------------------------------------------------
(* The main thread. *)

(* LWS_CALLBACK_SERVER_WRITEABLE: the text is sent, unless it was emptied. *)
Writeable(c) ==
    /\ messages_to_send[c] # << >>
    /\ messages_to_send' = [messages_to_send EXCEPT ![c] = Tail(@)]
    /\ UNCHANGED <<queue_vars, login_vars, latest_snapid, sent, reading, now, asked>>

(* Only commands look at the clock: it may stand still once there are none. *)
Tick ==
    /\ reading = NotReading
    /\ now < StartTime + MaxTime
    /\ now' = now + 1
    /\ UNCHANGED <<queue_vars, login_vars, delivery_vars, reading, asked>>

Next ==
    \/ \E c \in Clients :
          \/ GetSnaps(c) \/ SendSnapRefused(c) \/ Logout(c) \/ CloseConnection(c)
          \/ Writeable(c)
          \/ \E u \in Users : Login(c, u)
          \/ \E u \in Users, expirelength \in 0 .. MaxLength : SendSnap(c, u, expirelength)
          \/ \E id \in SnapIds : ReadSnap(c, id)
    \/ Resend
    \/ Tick

Spec == Init /\ [][Next]_vars

(* The main thread and the worker's loop go on. *)
FairSpec == Spec /\ WF_vars(Resend) /\ \A c \in Clients : WF_vars(Writeable(c))

-----------------------------------------------------------------------------
Ids == SnapIds \cup {NoSnap}

TypeOK ==
    /\ snaps \in Seq(Ids)
    /\ next_snapid \in 1 .. MaxSnaps + 1
    /\ to_userid \in [SnapIds -> Users \cup {NoUser}]
    /\ from_userid \in [SnapIds -> Users \cup {NoUser}]
    /\ dateexpired \in [SnapIds -> {0} \cup StartTime .. StartTime + MaxTime + MaxLength]
    /\ has_text \in [SnapIds -> BOOLEAN]
    /\ shows_received \in [SnapIds -> BOOLEAN]
    /\ chatclients \subseteq Clients
    /\ logged_in_user \in [Clients -> Users \cup {NoUser}]
    /\ latest_snapid \in [Clients -> -1 .. MaxSnaps + 1]
    /\ messages_to_send \in [Clients -> Seq(SnapIds)]
    /\ reading \in Reading \cup {NotReading}
    /\ now \in Times
    /\ asked \in [Clients -> BOOLEAN]
    /\ sent \in [Clients -> Seq(SnapIds)]

(* README.md:80, "all of your snaps will start being sent to you": a       *)
(* connection that asked for its user's snaps has been sent each one that  *)
(* is in the queue, those of before it asked and those of after, however   *)
(* often others asked, sent or were sent snaps since.                      *)
SnapsArrive ==
    \A c \in Clients : asked[c] =>
        \A id \in Range(snaps) \ {NoSnap} :
            to_userid[id] = logged_in_user[c] => Contains(sent[c], id)

(* One number, latest_snapid, says which snaps a connection has: it gets   *)
(* none twice and an older one never after a newer one, until it asks      *)
(* again, whoever is logged in on it.                                      *)
InOrderOnce ==
    \A c \in Clients : \A i, j \in 1 .. Len(sent[c]) : i < j => sent[c][i] < sent[c][j]

(* A snap that has time left is in the queue: the loop that removes snaps  *)
(* from the front and the one that leaves null pointers in the middle both *)
(* spare it, in whatever order snaps with long and short lives were sent.  *)
KeptUntilExpired ==
    \A id \in 1 .. next_snapid - 1 : dateexpired[id] > now => Contains(snaps, id) /\ has_text[id]

(* A deleted snap that waits in the queue of a connection is not sent any  *)
(* more: its text is emptied.  Only the first loop does not do so, hence   *)
(* one that keeps its text was in front of every snap that is left.        *)
TextKeptOnlyInFront ==
    \A c \in Clients : \A id \in Range(messages_to_send[c]) :
        ~Contains(snaps, id) /\ has_text[id] =>
            \A k \in 1 .. Len(snaps) : snaps[k] # NoSnap => snaps[k] > id

(* README.md:134, "expirelength of 0 means delete the message when it's    *)
(* read": one that no readsnap was called for is in the queue.  The code   *)
(* takes it for expired when it is at the front.                           *)
UnreadIsKept ==
    \A id \in 1 .. next_snapid - 1 :
        dateexpired[id] = 0 /\ reading.snapid # id => Contains(snaps, id)

(* README.md:115, "Call this after you read a snap": a readsnap ends, and  *)
(* the worker gets to the next task.  The loop of send_message_to_user     *)
(* never does.                                                             *)
ReadSnapEnds == reading # NotReading ~> reading = NotReading
=============================================================================
