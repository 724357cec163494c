------------------------------ MODULE Messages -------------------------------
(***************************************************************************)
(* What a message looks like on its way: a client writes a command, the    *)
(* server takes its parameters, builds an answer or an announcement from   *)
(* the parts of a stringbuilder, and the page takes it apart again.        *)
(*                                                                         *)
(* A character is one symbol, and so is the name of a command with its     *)
(* bracket.  A wide character is two or three bytes on the wire.           *)
(* That the server reads what was written, and how many parts a message    *)
(* has, is proved; the rest is left to TLC.                                *)
(***************************************************************************)
EXTENDS Integers, Sequences, SequencesExt, FiniteSets

CONSTANTS Texts,        \* the texts a user enters, sequences of characters
          Ids,          \* message ids
          MaxEntries,   \* bound: the rooms or users of a list
          MaxOutput     \* bound: the parameters the page remembers

ASSUME MessagesAssumption ==
    /\ MaxEntries \in Nat
    /\ MaxOutput \in Nat
    /\ Ids \subseteq Nat
    /\ \A text \in Texts : text \in Seq(ToSet(text))

Digits == <<"0", "1", "2", "3", "4", "5", "6", "7", "8", "9">>
IsDigit(c) == c \in ToSet(Digits)
Digit(d) == Digits[d + 1]
DigitValue(c) == (CHOOSE k \in DOMAIN Digits : Digits[k] = c) - 1
ValueOf(s) ==
    LET value[k \in 0 .. Len(s)] ==
            IF k = 0 THEN 0 ELSE 10 * value[k - 1] + DigitValue(s[k])
    IN  value[Len(s)]

(* How JavaScript writes a number. *)
Decimal[n \in Nat] ==
    IF n < 10 THEN <<Digit(n)>> ELSE Append(Decimal[n \div 10], Digit(n % 10))

(* UTF-8: the bytes of the wide characters. *)
WideBytes == [u2 |-> <<"u2-1", "u2-2">>, u3 |-> <<"u3-1", "u3-2", "u3-3">>]
Wide == DOMAIN WideBytes
IsWideByte(b) == \E c \in Wide : b \in ToSet(WideBytes[c])
Bytes(s) == FlattenSeq([k \in DOMAIN s |-> IF s[k] \in Wide THEN WideBytes[s[k]] ELSE <<s[k]>>])

Plain(s) == \A k \in DOMAIN s : s[k] \notin Wide

(* Every byte of a wide character is one of all its bytes. *)
WideAt(b, k, c) == IsPrefix(WideBytes[c], SubSeq(b, k, Len(b)))
IsUtf8(b) ==
    \A k \in DOMAIN b : IsWideByte(b[k]) =>
        \E c \in Wide : \E first \in 1 .. k : k < first + Len(WideBytes[c]) /\ WideAt(b, first, c)

Characters(b) ==
    LET Char(k) == IF ~IsWideByte(b[k]) THEN b[k]
                   ELSE IF \E c \in Wide : WideAt(b, k, c) THEN CHOOSE c \in Wide : WideAt(b, k, c)
                   ELSE "inside"
    IN  SelectSeq([k \in DOMAIN b |-> Char(k)], LAMBDA c : c # "inside")

-----------------------------------------------------------------------------
(* What clients send. *)

(* The kinds of the parameters of the commands the page writes: an integer *)
(* is followed by a comma, a text preceded by its length and a comma.      *)
PageWrites ==
    [send |-> <<"i", "i", "s">>, sendto |-> <<"i", "i", "i", "s">>,
     sendsnap |-> <<"i", "i", "i", "i", "s">>, addchatroom |-> <<"i", "s", "s", "s", "s">>,
     adduser |-> <<"i", "i", "s", "s", "s">>, login |-> <<"i", "s", "s">>,
     joinchatroom |-> <<"i", "i", "i", "s">>, leavechatroom |-> <<"i", "i">>,
     getusers |-> <<"i", "i", "s">>, getchatroomlist |-> <<"i">>,
     sendtoall |-> <<"s", "i", "s">>]

(* The kinds processmessage asks for, command by command. *)
ServerAsks ==
    [send |-> <<"i", "i", "s">>, sendto |-> <<"i", "i", "i", "s">>,
     sendsnap |-> <<"i", "i", "i", "i", "s">>, addchatroom |-> <<"i", "s", "s", "s", "s">>,
     adduser |-> <<"i", "i", "s", "s", "s">>, login |-> <<"i", "s", "s">>,
     joinchatroom |-> <<"i", "i", "i", "s">>, leavechatroom |-> <<"i", "i">>,
     getusers |-> <<"i", "i", "s">>, getchatroomlist |-> <<"i">>,
     sendtoall |-> <<"s", "i", "s">>]

Commands == DOMAIN PageWrites

(* The parameters: the id, the text, and otherwise a number per position. *)
ParametersOf(types, id, text) ==
    [k \in DOMAIN types |-> IF types[k] = "s" THEN text
                            ELSE IF k = 1 \/ types[1] = "s" THEN id ELSE k]

(* The page counts characters (text.length); another client may count the  *)
(* bytes, as the server does.  A number at the end has no comma.           *)
RequestBytes(types, values, counts) ==
    LET Written(k) ==
            IF types[k] = "i"
            THEN Decimal[values[k]] \o (IF k < Len(types) THEN <<",">> ELSE << >>)
            ELSE LET length == IF counts = "bytes" THEN Len(Bytes(values[k]))
                               ELSE Len(values[k])
                 IN  Decimal[length] \o <<",">> \o Bytes(values[k])
    IN  <<"(">> \o FlattenSeq([k \in DOMAIN types |-> Written(k)]) \o <<")">>

-----------------------------------------------------------------------------
(* parameters and datastring: the server takes a command apart. *)

Substr(s, start, length) ==
    IF start < 0 \/ start >= Len(s) THEN << >>
    ELSE SubSeq(s, start + 1, IF start + length > Len(s) THEN Len(s) ELSE start + length)

RemoveFromFront(s, n) == SubSeq(s, (IF n > Len(s) THEN Len(s) ELSE n) + 1, Len(s))

(* Digits up to a comma or the end; any other byte is a failure. *)
GetLong(input) ==
    LET stop == SelectInSeq(input, LAMBDA b : ~IsDigit(b))
        digits == IF stop = 0 THEN input ELSE SubSeq(input, 1, stop - 1)
    IN  [value |-> ValueOf(digits),
         rest |-> IF stop = 0 THEN << >> ELSE RemoveFromFront(input, stop),
         success |-> stop = 0 \/ input[stop] = ","]

(* A faulty variant: the text is not taken out of the input. *)
GetStringAgain(input) ==
    LET length == GetLong(input)
    IN  [value |-> Substr(length.rest, 0, length.value), rest |-> length.rest,
         success |-> length.success /\ length.value <= Len(length.rest)]

GetString(input) ==
    LET length == GetLong(input)
    IN  [value |-> Substr(length.rest, 0, length.value),
         rest |-> RemoveFromFront(length.rest, length.value),
         success |-> length.success /\ length.value <= Len(length.rest)]

NextParameter(got, type) ==
    LET one == IF type = "i" THEN GetLong(got.rest) ELSE GetString(got.rest)
    IN  IF got.success
        THEN [values |-> Append(got.values, one.value), rest |-> one.rest, success |-> one.success]
        ELSE got

(* One parameter after the other, as long as there is no failure. *)
Parse(types, message) ==
    LET got[k \in 0 .. Len(types)] ==
            IF k = 0 THEN [values |-> << >>, rest |-> Substr(message, 1, Len(message) - 2),
                           success |-> TRUE]
            ELSE NextParameter(got[k - 1], types[k])
    IN  got[Len(types)]

-----------------------------------------------------------------------------
(* stringbuilder: the parts of a message are numbers and texts. *)

Number(n) == <<"number", n>>
Text(b) == <<"text", b>>

AddNumber(n) == <<Number(n), Text(<<",">>)>>
AddText(b) == <<Number(Len(b)), Text(<<",">>), Text(b)>>

(* The places of the parts are in one biglist node: nodes[index] is null   *)
(* behind it, and append() writes to it.                                   *)
BIGLIST_SIZE == 50

(* A faulty variant: only the nodes that need no memory. *)
FitsFast(parts) == Len(parts) <= 40

Fits(parts) == Len(parts) <= BIGLIST_SIZE

(* length(): a number counts its digits by fours, then one by one. *)
CountedDigits(number) ==
    LET digits[n \in Nat] == IF n >= 10000 THEN 4 + digits[n \div 10000]
                             ELSE IF n >= 10 THEN 1 + digits[n \div 10] ELSE 1
    IN  digits[number]

(* A faulty variant: ten has one digit. *)
LengthShort(parts) ==
    LET total[k \in 0 .. Len(parts)] ==
            IF k = 0 THEN 0
            ELSE total[k - 1] + (IF parts[k] = Number(10) THEN 1
                                 ELSE IF parts[k][1] = "number" THEN CountedDigits(parts[k][2])
                                 ELSE Len(parts[k][2]))
    IN  total[Len(parts)]

Length(parts) ==
    LET total[k \in 0 .. Len(parts)] ==
            IF k = 0 THEN 0
            ELSE total[k - 1] + (IF parts[k][1] = "number" THEN CountedDigits(parts[k][2])
                                 ELSE Len(parts[k][2]))
    IN  total[Len(parts)]

(* tostring(): the digit of every power of ten from the top (18 in the     *)
(* code), without the zeros in front.                                      *)
TopPower == 8
WrittenDigits(number) ==
    LET digit(k) == (number \div 10^k) % 10
        first == Max({0} \cup {k \in 0 .. TopPower : digit(k) > 0})
    IN  [k \in 1 .. first + 1 |-> Digit(digit(first + 1 - k))]

ToBytes(parts) ==
    FlattenSeq([k \in DOMAIN parts |->
        IF parts[k][1] = "number" THEN WrittenDigits(parts[k][2]) ELSE parts[k][2]])

-----------------------------------------------------------------------------
(* What the server sends: the parts, and the values that are meant. *)

Nobody == [userid |-> 0, username |-> << >>]

(* The userid and the user name, or "0,0," for a guest. *)
AddUser(u) == IF u = Nobody THEN <<Text(<<"0", ",", "0", ",">>)>>
              ELSE AddNumber(u.userid) \o AddText(u.username)

Message(parts, meant) ==
    [parts |-> <<Text(<<"(">>)>> \o parts \o <<Text(<<")">>)>>, meant |-> meant]

Numbers(s) == [k \in DOMAIN s |-> Number(s[k])]
AddNumbers(s) == FlattenSeq([k \in DOMAIN s |-> AddNumber(s[k])])
UserMeant(u) == <<Number(u.userid), Text(u.username)>>

chat(id, text) ==
    Message(AddNumbers(<<id, 2, 3, 4>>) \o AddText(text), Numbers(<<id, 2, 3, 4>>) \o <<Text(text)>>)

msg(id, text) ==
    Message(AddNumbers(<<id, 2, 3>>) \o AddText(text), Numbers(<<id, 2, 3>>) \o <<Text(text)>>)

(* The dates are padded so that read_snap can write into them. *)
snap_message(text) ==
    Message(AddNumbers(<<1, 2, 3, 4>>) \o <<Text(<<" ">>)>> \o AddNumbers(<<0, 6>>) \o AddText(text),
            Numbers(<<1, 2, 3, 4, 0, 6>>) \o <<Text(text)>>)

chatroomcreated(id, name) ==
    Message(AddNumbers(<<id, 2>>) \o AddText(name) \o AddNumbers(<<4, 5>>),
            Numbers(<<id, 2>>) \o <<Text(name)>> \o Numbers(<<4, 5>>))

userjoinedchatroom(id, u) ==
    Message(AddNumbers(<<id, 2, 3>>) \o AddUser(u) \o AddNumber(6),
            Numbers(<<id, 2, 3>>) \o UserMeant(u) \o <<Number(6)>>)

userleftchatroom(id, u) ==
    Message(AddNumbers(<<id, 2, 3>>) \o AddUser(u) \o AddNumber(7),
            Numbers(<<id, 2, 3>>) \o UserMeant(u) \o <<Number(7)>>)

privatemessage(u, text) ==
    Message(AddNumber(1) \o AddUser(u) \o AddText(text), <<Number(1)>> \o UserMeant(u) \o <<Text(text)>>)

error(text, id) == Message(AddText(text) \o AddNumber(id), <<Text(text), Number(id)>>)

(* The text lacks a character of its length, and a comma. *)
incorrect_system_password(id) ==
    Message(<<Text(<<"2", ",", "a">>), Number(id)>>, <<Text(<<"a">>), Number(id)>>)

(* The list of n rooms of one name, of n users, of n clients in a room. *)
Repeated(n, s) == FlattenSeq([k \in 1 .. n |-> s])

chatroomlist(id, n, name) ==
    Message(AddNumber(id) \o Repeated(n, AddNumber(2) \o AddText(name) \o AddNumbers(<<4, 5>>)),
            <<Number(id)>> \o Repeated(n, <<Number(2), Text(name)>> \o Numbers(<<4, 5>>)))

users(id, n, u) ==
    Message(AddNumber(id) \o Repeated(n, AddNumber(u.userid) \o AddText(u.username) \o AddNumber(1)),
            <<Number(id)>> \o Repeated(n, UserMeant(u) \o <<Number(1)>>))

usersinchatroom(id, n, u) ==
    Message(AddNumbers(<<id, 2>>) \o Repeated(n, AddNumber(3) \o AddUser(u)),
            Numbers(<<id, 2>>) \o Repeated(n, <<Number(3)>> \o UserMeant(u)))

-----------------------------------------------------------------------------
(* build_login_url: the user name in the URL of another server. *)

Safe(b) == ~IsWideByte(b) /\ b \notin {" ", ",", "&"}
Hex(b) == <<"%", "hex of", b>>

(* Space for a byte: one that is not safe takes two more, a space does not. *)
CountedUrl(name) ==
    FoldLeft(LAMBDA n, b : n + IF Safe(b) \/ b = " " THEN 1 ELSE 3, 0, name)

(* char is signed: the upper half of a byte of a wide character indexes    *)
(* before the hex digits, and anything may be there.                       *)
WrittenUrl(name) ==
    FlattenSeq([k \in DOMAIN name |->
        IF Safe(name[k]) THEN <<name[k]>>
        ELSE IF name[k] = " " THEN <<"+">>
        ELSE IF IsWideByte(name[k]) THEN <<"%", "anything", name[k]>>
        ELSE Hex(name[k])])

(* What the other server makes of it: three bytes for an escaped one. *)
UrlDecoded(u) ==
    LET decoded[k \in Nat] ==
            IF k > Len(u) THEN << >>
            ELSE IF u[k] = "%" THEN <<u[k + 2]>> \o decoded[k + 3]
            ELSE <<IF u[k] = "+" THEN " " ELSE u[k]>> \o decoded[k + 1]
    IN  decoded[1]

-----------------------------------------------------------------------------
(* The page: getparameters, one turn of its loop after the other. *)

NaN == -1

(* The kinds each handler of the page asks for; the others show the text. *)
PageAsks ==
    [chat |-> <<"i", "i", "i", "i", "s">>, msg |-> <<"i", "i", "i", "s">>,
     snap |-> <<"i", "i", "i", "i", "i", "i", "s">>,
     chatroomcreated |-> <<"i", "i", "s", "i", "i">>,
     userjoinedchatroom |-> <<"i", "i", "i", "i", "s", "i">>,
     userleftchatroom |-> <<"i", "i", "i", "i", "s", "i">>,
     privatemessage |-> <<"i", "i", "s", "s">>, error |-> <<"s", "i">>,
     chatroomlist |-> <<"i", "[", "i", "s", "i", "i", "]">>,
     users |-> <<"i", "[", "i", "s", "i", "]">>,
     usersinchatroom |-> <<"i", "i", "[", "i", "i", "s", "]">>]

Lists == {"chatroomlist", "users", "usersinchatroom"}

(* parseInt: blanks, then digits. *)
ParseInt(s) ==
    LET first == SelectInSeq(s, LAMBDA c : c # " ")
        text == IF first = 0 THEN << >> ELSE SubSeq(s, first, Len(s))
        stop == SelectInSeq(text, LAMBDA c : ~IsDigit(c))
        digits == IF stop = 0 THEN text ELSE SubSeq(text, 1, stop - 1)
    IN  IF digits = << >> THEN NaN ELSE ValueOf(digits)

(* indexOf(",", start); NaN counts as 0. *)
IndexOfComma(s, start) ==
    LET from == IF start = NaN THEN 0 ELSE start
        k == SelectInSeq(SubSeq(s, from + 1, Len(s)), LAMBDA c : c = ",")
    IN  IF k = 0 THEN -1 ELSE from + k - 1

VARIABLES phase,    \* where the message is
          request,  \* the command, its id and text, and how its length was counted
          wire,     \* the bytes sent
          parsed,   \* what the server read
          answer,   \* the kind of the message to the page
          parts,    \* of the answer
          meant,    \* the values in it
          url,
          turn      \* getparameters: loop, start, parenstart, output

message_vars == <<phase, request, wire, parsed, answer, parts, meant, url, turn>>

NoTurn == [loop |-> 1, start |-> 0, parenstart |-> 0, output |-> << >>]

MessageInit ==
    /\ phase = "typed"
    /\ request \in [command : Commands, id : Ids, text : Texts, counts : {"characters", "bytes"}]
    /\ wire = << >>
    /\ parsed = << >>
    /\ answer = "none"
    /\ parts = << >>
    /\ meant = << >>
    /\ url = << >>
    /\ turn = NoTurn

Parameters == ParametersOf(PageWrites[request.command], request.id, request.text)

ClientSends ==
    /\ phase = "typed"
    /\ phase' = "sent"
    /\ wire' = RequestBytes(PageWrites[request.command], Parameters, request.counts)
    /\ UNCHANGED <<request, parsed, answer, parts, meant, url, turn>>

ServerParses ==
    LET got == Parse(ServerAsks[request.command], wire)
    IN  /\ phase = "sent"
        /\ IF got.success
           THEN phase' = "parsed" /\ parsed' = got.values
           ELSE phase' = "refused" /\ UNCHANGED parsed
        /\ wire' = << >>
        /\ UNCHANGED <<request, answer, parts, meant, url, turn>>

(* The messages in which a command, now or later, shows up at a page. *)
Announced(command) ==
    CASE command = "send" -> {"chat"}
      [] command = "sendto" -> {"msg"}
      [] command = "sendsnap" -> {"snap"}
      [] command = "addchatroom" -> {"chatroomcreated", "chatroomlist"}
      [] command = "adduser" -> {"users", "usersinchatroom", "userjoinedchatroom",
                                 "privatemessage"}
      [] command = "login" -> {}
      [] command = "joinchatroom" -> {"userjoinedchatroom", "error"}
      [] command = "leavechatroom" -> {"userleftchatroom", "usersinchatroom"}
      [] command = "getusers" -> {"error", "incorrect_system_password"}
      [] command = "getchatroomlist" -> {"chatroomlist"}
      [] command = "sendtoall" -> {"privatemessage", "incorrect_system_password"}

(* The message of that kind; the text is the last one the server read, and *)
(* a list has n entries.                                                   *)
MessageOf(kind, n) ==
    LET texts == {k \in DOMAIN parsed : ServerAsks[request.command][k] = "s"}
        text == IF texts = {} THEN <<"a">> ELSE parsed[CHOOSE k \in texts : \A j \in texts : j <= k]
        id == IF request.command = "sendtoall" THEN parsed[2] ELSE parsed[1]
        u == IF request.command = "adduser" THEN [userid |-> 5, username |-> text] ELSE Nobody
    IN  CASE kind = "chat" -> chat(id, text)
          [] kind = "msg" -> msg(id, text)
          [] kind = "snap" -> snap_message(text)
          [] kind = "chatroomcreated" -> chatroomcreated(id, text)
          [] kind = "userjoinedchatroom" -> userjoinedchatroom(id, u)
          [] kind = "userleftchatroom" -> userleftchatroom(id, u)
          [] kind = "privatemessage" -> privatemessage(u, text)
          [] kind = "error" -> error(<<"a", " ", "a">>, id)
          [] kind = "incorrect_system_password" -> incorrect_system_password(id)
          [] kind = "chatroomlist" -> chatroomlist(id, n, text)
          [] kind = "users" -> users(id, n, u)
          [] kind = "usersinchatroom" -> usersinchatroom(id, n, u)

(* append() after append(); the server ends where one does not fit. *)
ServerAnswers(kind, n) ==
    LET m == MessageOf(kind, n)
    IN  /\ phase = "parsed"
        /\ kind \in Announced(request.command)
        /\ kind \notin Lists => n = 0
        /\ IF Fits(m.parts)
           THEN phase' = "built" /\ parts' = m.parts /\ meant' = m.meant
           ELSE phase' = "fault" /\ parts' = << >> /\ meant' = m.meant
        /\ answer' = kind
        /\ parsed' = << >>
        /\ UNCHANGED <<request, wire, url, turn>>

(* "error(27,Syntax error in parameters.)" *)
ServerRefuses ==
    /\ phase = "refused"
    /\ phase' = "built"
    /\ answer' = "error"
    /\ parts' = <<Text(<<"(", "1", ",", "a", ")">>)>>
    /\ meant' = <<Text(<<"a">>)>>
    /\ UNCHANGED <<request, wire, parsed, url, turn>>

BuildLoginUrl ==
    /\ phase = "parsed"
    /\ request.command = "login"
    /\ url' = WrittenUrl(parsed[2])
    /\ phase' = "url"
    /\ UNCHANGED <<request, wire, parsed, answer, parts, meant, turn>>

(* message::operator=: a buffer of length() bytes, filled by tostring(). *)
MessageIsSet ==
    /\ phase = "built"
    /\ wire' = ToBytes(parts)
    /\ phase' = "queued"
    /\ UNCHANGED <<request, parsed, answer, parts, meant, url, turn>>

(* A browser closes a connection on which a text is not UTF-8. *)
MessageArrives ==
    LET text == Characters(wire)
    IN  /\ phase = "queued"
        /\ IF IsUtf8(wire)
           THEN phase' = "reading" /\ wire' = SubSeq(text, 2, Len(text) - 1)
           ELSE phase' = "closed" /\ UNCHANGED wire
        /\ parts' = << >>
        /\ UNCHANGED <<request, parsed, answer, meant, url, turn>>

Types == IF answer \in DOMAIN PageAsks THEN PageAsks[answer] ELSE PageAsks.error

Push(value) == IF Len(turn.output) < MaxOutput THEN Append(turn.output, value) ELSE turn.output

(* A faulty variant: the comma is not passed over. *)
ReadIntegerStays ==
    LET comma == IndexOfComma(wire, turn.start)
        next == IF comma < 0 THEN Len(wire) ELSE comma
    IN  [turn EXCEPT !.output = Push(Number(ParseInt(Substr(wire, turn.start, next - turn.start)))),
                     !.start = next, !.loop = @ + 1]

ReadInteger ==
    LET comma == IndexOfComma(wire, turn.start)
        next == IF comma < 0 THEN Len(wire) ELSE comma
        digits == IF turn.start = NaN THEN << >> ELSE Substr(wire, turn.start, next - turn.start)
    IN  [turn EXCEPT !.output = Push(Number(ParseInt(digits))), !.start = next + 1, !.loop = @ + 1]

(* A faulty variant: the place after the text is one too far. *)
ReadTextAndComma ==
    LET next == IndexOfComma(wire, turn.start)
        len == ParseInt(Substr(wire, turn.start, next - turn.start))
    IN  IF next < 0 \/ turn.start = NaN \/ len = NaN THEN [turn EXCEPT !.loop = @ + 1]
        ELSE [turn EXCEPT !.output = Push(Text(Substr(wire, next + 1, len))),
                          !.start = next + 2 + len, !.loop = @ + 1]

ReadText ==
    LET next == IndexOfComma(wire, turn.start)
        len == IF turn.start = NaN THEN NaN
               ELSE ParseInt(Substr(wire, turn.start, next - turn.start))
    IN  IF next < 0 THEN [turn EXCEPT !.loop = @ + 1]
        ELSE [turn EXCEPT !.output = Push(Text(IF len = NaN THEN << >> ELSE Substr(wire, next + 1, len))),
                          !.start = IF len = NaN THEN NaN ELSE next + 1 + len,
                          !.loop = @ + 1]

Turn ==
    CASE Types[turn.loop] = "i" -> ReadInteger
      [] Types[turn.loop] = "s" -> ReadText
      [] Types[turn.loop] = "[" -> [turn EXCEPT !.parenstart = turn.loop, !.loop = @ + 1]
      [] Types[turn.loop] = "]" -> [turn EXCEPT !.loop = turn.parenstart + 1]

RanOut == turn.start # NaN /\ turn.start >= Len(wire)

PageReads ==
    /\ phase = "reading"
    /\ IF turn.loop > Len(Types) \/ RanOut
       THEN phase' = "read" /\ UNCHANGED turn
       ELSE turn' = Turn /\ UNCHANGED phase
    /\ UNCHANGED <<request, wire, parsed, answer, parts, meant, url>>

MessageNext ==
    \/ ClientSends \/ ServerParses \/ ServerRefuses \/ BuildLoginUrl
    \/ \E kind \in DOMAIN PageAsks \cup {"incorrect_system_password"}, n \in 0 .. MaxEntries :
          ServerAnswers(kind, n)
    \/ MessageIsSet \/ MessageArrives \/ PageReads

MessageSpec == MessageInit /\ [][MessageNext]_message_vars
-----------------------------------------------------------------------------
IsPlain == Plain(request.text)

MessageTypeOK ==
    /\ phase \in {"typed", "sent", "parsed", "refused", "built", "queued", "reading", "read",
                  "closed", "fault", "url"}
    /\ answer \in DOMAIN PageAsks \cup {"none", "incorrect_system_password"}
    /\ turn.loop \in 1 .. 8
    /\ turn.start \in Nat \cup {NaN}
    /\ Len(turn.output) <= MaxOutput
    /\ IsPlain => Len(turn.output) <= Len(meant)

HasText == "s" \in ToSet(PageWrites[request.command])

(* The server reads the parameters a client wrote, whatever digits and     *)
(* commas are in the texts, if the client counts bytes or the text has no  *)
(* wide character; the example page counts characters, and then it never   *)
(* does (parameters.cpp:29, example.html:571).                             *)
ServerReads ==
    LET agreed == IsPlain \/ request.counts = "bytes" \/ ~HasText
    IN  /\ phase = "parsed" =>
              (agreed <=> parsed = [k \in DOMAIN Parameters |->
                                       IF ServerAsks[request.command][k] = "s"
                                       THEN Bytes(Parameters[k]) ELSE Parameters[k]])
        /\ phase = "refused" => ~agreed

TextIsLast == Types[Len(Types)] = "s" /\ request.command # "adduser"

(* The page shows the values the server wrote, in a list too, unless a     *)
(* wide character is in a text before the last value, or the message is    *)
(* the refusal of a password (chatcommand.cpp:14).                         *)
PageShows ==
    phase = "read" /\ answer # "incorrect_system_password" /\ (IsPlain \/ TextIsLast)
    => turn.output = [k \in DOMAIN meant |-> IF meant[k][1] = "number" THEN meant[k]
                                             ELSE Text(Characters(meant[k][2]))]

(* The buffer of a message, sized by length(), is exactly what tostring()  *)
(* fills, and so is that of the URL of a remote login, which carries the   *)
(* name of the user (stringbuilder.cpp:175, 241, 128).                     *)
BuffersFit ==
    /\ phase = "queued" => Len(wire) = Length(parts)
    /\ phase = "url" =>
          /\ Len(url) = CountedUrl(parsed[2])
          /\ IsPlain => UrlDecoded(url) = parsed[2]

PerEntry == [chatroomlist |-> 4, users |-> 3, usersinchatroom |-> 3]

(* Only a list of more than five rooms, users or clients ends the server   *)
(* (stringbuilder.cpp:100).                                                *)
ShortListsFit ==
    phase = "fault" => answer \in Lists /\ Len(meant) \div PerEntry[answer] > 5

(* Every parameter the page reads takes it on in a message whose text is   *)
(* plain, so its loop over a list ends (example.html:469).  A name of wide *)
(* characters, of a client that counts bytes, can send it back to the      *)
(* beginning for ever.                                                     *)
PageMovesOn ==
    [][phase = "reading" /\ phase' = "reading" /\ IsPlain
       => \/ turn'.start > turn.start
          \/ Types[turn.loop] \in {"[", "]"} /\ turn'.start = turn.start]_message_vars
=============================================================================
