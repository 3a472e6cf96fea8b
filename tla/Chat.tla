-------------------------------- MODULE Chat --------------------------------
(***************************************************************************)
(* The chat of one tenant: rooms, their messages, and the sockets of       *)
(* ChatGateway, which broadcasts without storing anything.                 *)
(* A message is identified by its place in `messages`, the order of its    *)
(* insert, and stands for its text.                                        *)
(***************************************************************************)
EXTENDS Requests

CONSTANTS
    ChatUsers,      \* users who chat
    Rooms,          \* the uuids rooms may get
    MaxMessages,    \* bound: messages stored
    Sockets         \* sockets of the namespace /chat

ASSUME ChatAssumption == IsFiniteSet(Rooms) /\ MaxMessages \in Nat

VARIABLES
    rooms,      \* table chat_rooms
    messages,   \* table chat_messages
    online,     \* the maps connectedUsers and userTenants: the user of each socket
    sent        \* history: the last message stored for each room

chatTables == <<rooms, messages, online, sent>>

NoRoom == [exists |-> FALSE, group |-> FALSE, people |-> <<>>, last |-> None]

ChatRoom == [exists : BOOLEAN, group : BOOLEAN, people : Seq(ChatUsers),
             last : 1 .. MaxMessages \cup {None}]

ChatMessage == [room : Rooms, sender : ChatUsers, read : BOOLEAN, deleted : BOOLEAN]

LiveRooms      == {r \in Rooms : rooms[r].exists}
PeopleOf(r)    == {rooms[r].people[i] : i \in DOMAIN rooms[r].people}
MessagesOf(r)  == {i \in DOMAIN messages : messages[i].room = r}
DirectTag(u, v) == <<"direct", {u, v}>>
RoomTag(r)      == <<"room", r>>

\* A mistake a change could make: to look for the two in the order of the request only.
InOrder(u, v) == {r \in LiveRooms : ~rooms[r].group /\ rooms[r].people = <<u, v>>}

\* A direct room of the tenant in whose list both stand, in whatever order.
DirectRooms(u, v) == {r \in LiveRooms : ~rooms[r].group /\ {u, v} \subseteq PeopleOf(r)}

\* What is unread for u in room r: the flag belongs to the message, not to the reader.
Unread(r, u) == {i \in MessagesOf(r) : messages[i].sender # u /\ ~messages[i].read
                                       /\ ~messages[i].deleted}

ChatInit ==
    /\ rooms = [r \in Rooms |-> NoRoom]
    /\ messages = <<>>
    /\ online = [s \in Sockets |-> None]
    /\ sent = [r \in Rooms |-> None]
-----------------------------------------------------------------------------
(* Mistakes a change of the code could make, each against one property.    *)

LastBefore(r, i) == i - 1

FirstOnly(r, i) == IF rooms[r].last = None THEN i ELSE rooms[r].last
-----------------------------------------------------------------------------
(* Rooms.                                                                  *)

\* POST /chat/rooms/direct: the room that is found is the answer.
DirectFound(h, u, v) ==
    /\ DirectRooms(u, v) # {}
    /\ Reads(h)
    /\ UNCHANGED chatTables

DirectMissing(h, u, v) ==
    /\ DirectRooms(u, v) = {}
    /\ Begin(h, "room-insert", DirectTag(u, v), <<u, v>>)
    /\ UNCHANGED chatTables

RoomInsert(h, r) ==
    /\ At(h, "room-insert")
    /\ ~rooms[r].exists
    /\ rooms' = [rooms EXCEPT ![r] = [NoRoom EXCEPT !.exists = TRUE, !.people = Data(h)]]
    /\ Answer(h)
    /\ UNCHANGED <<messages, online, sent>>

\* POST /chat/rooms/group: the people are those of the request, its author only if named.
CreateGroupRoom(h, r, people) ==
    /\ ~rooms[r].exists
    /\ rooms' = [rooms EXCEPT ![r] =
                   [NoRoom EXCEPT !.exists = TRUE, !.group = TRUE, !.people = people]]
    /\ AtOnce(h, RoomTag(r))
    /\ UNCHANGED <<messages, online, sent>>
-----------------------------------------------------------------------------
(* Messages.                                                               *)

\* POST /chat/rooms/:roomId/messages asks only for the room, POST
\* /chat/conversations/:id/messages also that the sender is in it and then loads it again.
Post(h, r, u, step) ==
    /\ rooms[r].exists
    /\ Begin(h, step, RoomTag(r), [room |-> r, user |-> u])
    /\ UNCHANGED chatTables

SendMessage(h, r, u) == Post(h, r, u, "message-insert")

SendConversationMessage(h, r, u) == u \in PeopleOf(r) /\ Post(h, r, u, "room-find")

RoomFind(h) ==
    /\ At(h, "room-find")
    /\ Goto(h, "message-insert", Data(h))
    /\ UNCHANGED chatTables

MessageInsert(h) ==
    LET r == Data(h).room  i == Len(messages) + 1 IN
    /\ At(h, "message-insert")
    /\ i <= MaxMessages
    /\ messages' = Append(messages, [room |-> r, sender |-> Data(h).user,
                                     read |-> FALSE, deleted |-> FALSE])
    /\ sent' = [sent EXCEPT ![r] = i]
    /\ Goto(h, "room-touch", [room |-> r, message |-> i])
    /\ UNCHANGED <<rooms, online>>

\* The column takes the text of the message this request stored, whatever came since.
Touched(r, i) == i

RoomTouch(h) ==
    LET r == Data(h).room IN
    /\ At(h, "room-touch")
    /\ rooms' = [rooms EXCEPT ![r].last = Touched(r, Data(h).message)]
    /\ Answer(h)
    /\ UNCHANGED <<messages, online, sent>>

\* What the update of a reader's request takes: what others wrote and nobody has read.
ToRead(r, u) == {i \in MessagesOf(r) : messages[i].sender # u /\ ~messages[i].read}

Marked(r, u) == [i \in DOMAIN messages |->
                   [messages[i] EXCEPT !.read = @ \/ i \in ToRead(r, u)]]

\* POST /chat/conversations/:id/read.
MarkConversationRead(h, r, u) ==
    /\ rooms[r].exists
    /\ u \in PeopleOf(r)
    /\ Begin(h, "mark", <<"read", r, u>>, [room |-> r, user |-> u])
    /\ UNCHANGED chatTables

MarkAll(h) ==
    LET r == Data(h).room  u == Data(h).user IN
    /\ At(h, "mark")
    /\ messages' = Marked(r, u)
    /\ Answer(h)
    /\ UNCHANGED <<rooms, online, sent>>

\* DELETE /chat/messages/:id: its author's message is found, then blanked.  The room
\* keeps showing it as its last message.
DeleteMessage(h, i) ==
    /\ i \in DOMAIN messages
    /\ Begin(h, "blank", <<"message", i>>, i)
    /\ UNCHANGED chatTables

Blank(h) ==
    /\ At(h, "blank")
    /\ messages' = [messages EXCEPT ![Data(h)].deleted = TRUE]
    /\ Answer(h)
    /\ UNCHANGED <<rooms, online, sent>>

\* GET /chat/conversations reads the rooms, then counts what is unread room by room.
GetConversations(h, u) ==
    /\ Begin(h, "count", <<"list", u>>,
             [user |-> u, left |-> {r \in LiveRooms : u \in PeopleOf(r)}, seen |-> 0])
    /\ UNCHANGED chatTables

CountUnread(h) ==
    /\ At(h, "count")
    /\ \/ Data(h).left = {} /\ Answer(h)
       \/ \E r \in Data(h).left :
            Goto(h, "count", [Data(h) EXCEPT !.left = @ \ {r},
                                             !.seen = @ + Cardinality(Unread(r, Data(h).user))])
    /\ UNCHANGED chatTables
-----------------------------------------------------------------------------
(* ChatGateway.  Rooms joined and left, and what send-message and typing    *)
(* broadcast to them, leave nothing behind.                                *)

Connect(s, u) ==
    /\ online[s] = None
    /\ online' = [online EXCEPT ![s] = u]
    /\ UNCHANGED <<control, rooms, messages, sent>>

Disconnect(s) ==
    /\ online[s] # None
    /\ online' = [online EXCEPT ![s] = None]
    /\ UNCHANGED <<control, rooms, messages, sent>>

\* mark-read: the update of the service, for whoever the socket belongs to.
SocketMarksRead(h, s, r) ==
    /\ online[s] # None
    /\ AtOnce(h, <<"read", r, online[s]>>)
    /\ messages' = Marked(r, online[s])
    /\ UNCHANGED <<rooms, online, sent>>
-----------------------------------------------------------------------------
ChatBreaks(h) == Breaks(h) /\ UNCHANGED chatTables

ChatNext ==
    \/ \E h \in Handlers, u, v \in ChatUsers : DirectFound(h, u, v) \/ DirectMissing(h, u, v)
    \/ \E h \in Handlers, r \in Rooms : RoomInsert(h, r)
    \/ \E h \in Handlers, r \in Rooms, u, v \in ChatUsers : CreateGroupRoom(h, r, <<u, v>>)
    \/ \E h \in Handlers, r \in Rooms, u \in ChatUsers :
         SendMessage(h, r, u) \/ SendConversationMessage(h, r, u) \/ MarkConversationRead(h, r, u)
    \/ \E h \in Handlers : RoomFind(h) \/ MessageInsert(h) \/ RoomTouch(h) \/ MarkAll(h)
                           \/ Blank(h) \/ CountUnread(h) \/ ChatBreaks(h)
    \/ \E h \in Handlers, i \in 1 .. MaxMessages : DeleteMessage(h, i)
    \/ \E h \in Handlers, u \in ChatUsers : GetConversations(h, u)
    \/ \E s \in Sockets, u \in ChatUsers : Connect(s, u)
    \/ \E s \in Sockets : Disconnect(s)
    \/ \E h \in Handlers, s \in Sockets, r \in Rooms : SocketMarksRead(h, s, r)
-----------------------------------------------------------------------------
(* Properties.                                                             *)

\* Two people have one direct room, unless two requests for it were under way together:
\* it is looked for in either order of its two people before it is created.
DirectRoomOnce ==
    \A u, v \in ChatUsers :
        DirectTag(u, v) \notin disturbed
            => Cardinality({r \in LiveRooms : ~rooms[r].group /\ PeopleOf(r) = {u, v}}) <= 1

\* A room whose sends did not overlap and did not fail shows the message stored last, once
\* no send is under way, whatever was read or deleted in it meanwhile.
LastMessageStands ==
    \A r \in LiveRooms :
        RoomTag(r) \notin disturbed /\ (\A h \in Handlers : Busy(h) => task[h].on # RoomTag(r))
            => rooms[r].last = sent[r]

=============================================================================
