---------------------------- MODULE LoginTransfer ----------------------------
(***************************************************************************)
(* The transfer of a user's data after log-in: the server's handlers of    *)
(* data, frnd and room packets (event_handler.c, packets.c), the retry     *)
(* counters of redis_counter.c, and the client's reader thread that stores *)
(* what it gets in user_data and answers every packet (packet_handler.c,   *)
(* user_app.c).  Meanwhile another user's thread may add a message to one  *)
(* of the rooms or become a friend, and writes to the same socket.         *)
(* One client and its server thread; the log-in request is reduced to      *)
(* whether it is pending and how it was settled (see Requests).            *)
(***************************************************************************)
EXTENDS Integers, Sequences, SequencesExt

CONSTANTS
    Room,        \* ids of rooms
    Chats,       \* the user's chats at log-in, in order
    Friends,     \* the number of friends at log-in
    History,     \* room -> the messages stored when the user logs in
    ChunkSize,   \* messages that fit into a packet (PACKET_MAX_SIZE)
    FailMax,     \* PACKET_FAIL_MAX
    RoomMax,     \* ROOM_MAX
    MaxEvents,   \* bound: what other users do, failing commands, misreadings
                 \* and expired counters
    Events       \* what may happen besides an undisturbed transfer

Text == [n : Nat, split : BOOLEAN]    \* split: the text contains a semicolon

ASSUME RoomAssumption ==
    /\ Room \subseteq Nat \ {0}
    /\ Chats \in Seq(Room)          \* every acceptance makes a room of its own
    /\ \A i, j \in DOMAIN Chats : Chats[i] = Chats[j] => i = j
    /\ \A i \in DOMAIN Chats : History[Chats[i]] \in Seq(Text)
    /\ {FailMax, RoomMax, MaxEvents, Friends} \subseteq Nat
    /\ ChunkSize \in Nat \ {0}
    /\ Events \subseteq {"message", "friend", "fail", "expire", "merge", "extract", "misread"}

VARIABLES
    served,    \* the data request has written the socket and loaded the user
    friends,   \* Redis: friends_num
    chats,     \* Redis: the user's list of chats
    stored,    \* Redis: the messages of each room
    frndTries, \* frnd:<session>:counter, or Absent
    roomTries, \* room:<session>:<id>:counter, or Absent
    server,    \* where the client's server thread is
    other,     \* packets that the other user's thread is still to send
    toClient,  \* the two directions of the connection
    toServer,
    reader,    \* what the reader thread still has to signal
    mine,      \* user_data: friends, rooms, and whether session_key is set
    login,     \* the log-in request: pending, verdict
    pushes,    \* what other users did
    faults,    \* failures, misreadings and expiries
    misread    \* history: an unterminated array was read past its end

redis   == <<served, friends, chats, stored, frndTries, roomTries>>
client  == <<reader, mine, login>>
history == <<pushes, faults, misread>>
transferVars == <<redis, server, other, toClient, toServer, client, history>>

Absent == -1
NoRoom == 0
Garbage == [n |-> 0, split |-> FALSE]   \* fields taken for other fields

Idle   == [at |-> "idle"]
Reading == [at |-> "read"]
Free   == [friends |-> 0, rooms |-> <<>>, keyed |-> FALSE]

TransferInit ==
    /\ served = FALSE
    /\ friends = Friends
    /\ chats = Chats
    /\ stored = [r \in Room |-> IF r \in Range(Chats) THEN History[r] ELSE <<>>]
    /\ frndTries = Absent
    /\ roomTries = [r \in Room |-> Absent]
    /\ server = Idle
    /\ other = <<>>
    /\ toClient = <<>>
    /\ toServer = <<[type |-> "data", keyed |-> TRUE]>>   \* sent on logi;<session>
    /\ reader = Reading
    /\ mine = [Free EXCEPT !.keyed = TRUE]
    /\ login = [pending |-> TRUE, verdict |-> "none"]
    /\ pushes = 0
    /\ faults = 0
    /\ misread = FALSE

-----------------------------------------------------------------------------
(* Packets *)

Frnd(n)         == [type |-> "frnd", n |-> n]
RoomPacket(r)   == [type |-> "room", id |-> r, amount |-> Len(stored[r])]
Rmsg(r, ms, ok) == [type |-> "rmsg", id |-> r, msgs |-> ms, aligned |-> ok]
NoSuch(id)      == [type |-> "room;id;fail", id |-> id]
State(word)     == [type |-> word]      \* "frnd;fail", "room;ok", ...

\* Fault: every packet starts one message late.
ChunksShifted(r) ==
    LET ms == stored[r]
        count == (Len(ms) + ChunkSize - 1) \div ChunkSize
    IN [i \in 1..count |->
          Rmsg(r, SubSeq(ms, (i-1) * ChunkSize + 2, Len(ms)) \o <<ms[1]>>, i = 1)]

\* get_room_message_packets: later packets start with "rmsg;<id>;;", one
\* semicolon too many, which shifts every field.
Chunks(r) ==
    LET ms == stored[r]
        count == (Len(ms) + ChunkSize - 1) \div ChunkSize
    IN [i \in 1..count |->
          Rmsg(r, SubSeq(ms, (i-1) * ChunkSize + 1,
                         IF i = count THEN Len(ms) ELSE i * ChunkSize), i = 1)]

SendToClient(p) == toClient' = Append(toClient, p)
Reply(p)        == toServer' = Append(toServer, p)

-----------------------------------------------------------------------------
(* The server thread: one packet at a time *)

\* recv: the next packet, whose session the client still knew.
Receives(type) ==
    /\ server = Idle
    /\ toServer # <<>> /\ Head(toServer).type = type /\ Head(toServer).keyed
    /\ toServer' = Tail(toServer)

Eventful == pushes + faults < MaxEvents

\* A fault of a store, or a comparison or conversion that reads past the end
\* of an array without a terminator or in freed memory.
Fault    == "fail" \in Events /\ Eventful /\ faults' = faults + 1
Misreads == "misread" \in Events /\ Eventful /\ faults' = faults + 1 /\ misread' = TRUE

\* A packet without its session is too short for recognize_packet.
Unrecognised ==
    /\ server = Idle
    /\ toServer # <<>> /\ ~Head(toServer).keyed
    /\ toServer' = Tail(toServer)
    /\ SendToClient(State(CASE Head(toServer).type = "data" -> "data;fail"
                            [] Head(toServer).type = "frnd" -> "frnd;fail"
                            [] Head(toServer).type = "room" -> "room;fail"))
    /\ UNCHANGED <<redis, server, other, client, history>>

\* on_data_request; it may fail before the user is loaded, or after it with no
\* answer at all (get_friends_packet returned NULL).
DataRequest ==
    /\ Receives("data")
    /\ \/ /\ served' = TRUE /\ frndTries' = 0
          /\ SendToClient(Frnd(friends))
          /\ UNCHANGED faults
       \/ /\ Fault
          /\ SendToClient(State("data;fail"))
          /\ UNCHANGED <<served, frndTries>>
       \/ /\ Fault
          /\ served' = TRUE /\ frndTries' = 0
          /\ UNCHANGED toClient
    /\ UNCHANGED <<friends, chats, stored, roomTries, server, other, client, pushes, misread>>

\* Fault: the counter is not incremented.
Unincremented(n) == n

Increment(n) == IF n = Absent THEN 1 ELSE n + 1

\* redis_counter_get takes a missing counter for 0.
MayRetry(n) == n < FailMax

\* on_friend_request: "ok" waits half a second and starts the rooms (the
\* deletion of the counter misses its key); anything else is a retry.
FriendReply ==
    /\ Receives("frnd")
    /\ \/ /\ Head(toServer).ok
          /\ server' = [at |-> "transfer"]
          /\ UNCHANGED <<frndTries, toClient, faults>>
       \/ /\ ~Head(toServer).ok /\ MayRetry(frndTries)
          /\ frndTries' = Increment(frndTries)
          /\ \/ SendToClient(Frnd(friends)) /\ UNCHANGED faults
             \/ Fault /\ UNCHANGED toClient
          /\ UNCHANGED server
       \/ /\ ~Head(toServer).ok /\ ~MayRetry(frndTries)
          /\ SendToClient(State("frnd;fail"))
          /\ UNCHANGED <<frndTries, server, faults>>
    /\ UNCHANGED <<served, friends, chats, stored, roomTries, other, client, pushes, misread>>

\* room_packet_transfer: a counter for every chat, then the first room; the
\* client hears nothing when the user cannot be read.
Transfer ==
    /\ server.at = "transfer"
    /\ \/ /\ chats = <<>>
          /\ SendToClient(State("room;ok"))
          /\ server' = Idle
          /\ UNCHANGED <<roomTries, faults>>
       \/ /\ chats # <<>>
          /\ roomTries' = [r \in Room |-> IF r \in Range(chats) THEN 0 ELSE roomTries[r]]
          /\ server' = [at |-> "room", room |-> chats[1]]
          /\ UNCHANGED <<toClient, faults>>
       \/ /\ Fault
          /\ server' = Idle
          /\ UNCHANGED <<roomTries, toClient>>
    /\ UNCHANGED <<served, friends, chats, stored, frndTries, other, toServer, client, pushes, misread>>

\* redis_counter_room_get, twice: a room without a counter is not sent, nor is
\* one without tries left.
HasTries(r) == roomTries[r] # Absent /\ MayRetry(roomTries[r])

\* send_room_packet: a chat of the user with tries left is sent as it is now,
\* then its messages in packets.  redis_counter_room_get converts its reply
\* after it freed it: any number may come out.
SendRoom ==
    /\ server.at = "room"
    /\ LET r == server.room IN \E sent \in BOOLEAN :
        /\ \/ /\ sent = (HasTries(r) /\ r \in Range(chats))
              /\ UNCHANGED <<faults, misread>>
           \/ ~sent /\ Fault /\ UNCHANGED misread
           \/ /\ Misreads
              /\ roomTries[r] # Absent /\ (sent => r \in Range(chats))
        /\ roomTries' = IF sent THEN [roomTries EXCEPT ![r] = Increment(@)] ELSE roomTries
        /\ SendToClient(IF sent THEN RoomPacket(r) ELSE NoSuch(r))
        /\ server' = IF sent /\ stored[r] # <<>>
                     THEN [at |-> "messages", left |-> Chunks(r)] ELSE Idle
    /\ UNCHANGED <<served, friends, chats, stored, frndTries, other, toServer, client, pushes>>

SendChunk ==
    /\ server.at = "messages"
    /\ SendToClient(Head(server.left))
    /\ server' = IF Len(server.left) = 1 THEN Idle
                 ELSE [server EXCEPT !.left = Tail(@)]
    /\ UNCHANGED <<redis, other, toServer, client, history>>

NoMore == -2

\* Fault: the chat that was confirmed is sent again.
SameRoom(id) == IF id \in Range(chats) THEN id ELSE NoRoom

\* get_next_room: the chat after id, NoMore, or NoRoom.
NextRoom(id) ==
    LET at == {i \in DOMAIN chats : chats[i] = id}
        i  == CHOOSE j \in at : \A k \in at : j <= k
    IN IF at = {} THEN NoRoom ELSE IF i = Len(chats) THEN NoMore ELSE chats[i + 1]

\* The room that an answer names: extract_room_state converts a copy of the id
\* that has no terminator.
Confirmed == {Head(toServer).id}
               \cup (IF "misread" \in Events /\ Eventful THEN Room \cup {NoRoom} ELSE {})

\* on_room_request
RoomReply ==
    /\ Receives("room")
    /\ \E id \in Confirmed :
        \/ /\ IF id = Head(toServer).id THEN UNCHANGED <<faults, misread>> ELSE Misreads
           /\ \/ /\ id = NoRoom \/ ~Head(toServer).ok
                 /\ SendToClient(State("room;fail")) /\ UNCHANGED server
              \/ /\ id # NoRoom /\ Head(toServer).ok /\ NextRoom(id) = NoRoom
                 /\ SendToClient(NoSuch(id)) /\ UNCHANGED server
              \/ /\ id # NoRoom /\ Head(toServer).ok /\ NextRoom(id) = NoMore
                 /\ SendToClient(State("room;ok")) /\ UNCHANGED server
              \/ /\ id # NoRoom /\ Head(toServer).ok /\ NextRoom(id) \in Room
                 /\ server' = [at |-> "room", room |-> NextRoom(id)]
                 /\ UNCHANGED toClient
        \/ /\ id = Head(toServer).id /\ id # NoRoom /\ Head(toServer).ok
           /\ Fault
           /\ SendToClient(NoSuch(id)) /\ UNCHANGED <<server, misread>>
    /\ UNCHANGED <<redis, other, client, pushes>>

\* PACKET_TTL seconds have passed.
Expire ==
    /\ "expire" \in Events /\ Eventful
    /\ faults' = faults + 1
    /\ \/ frndTries' = Absent /\ UNCHANGED roomTries
       \/ \E r \in Room : roomTries' = [roomTries EXCEPT ![r] = Absent] /\ UNCHANGED frndTries
    /\ UNCHANGED <<served, friends, chats, stored, server, other, toClient, toServer, client, pushes, misread>>

-----------------------------------------------------------------------------
(* Another user's thread *)

\* on_message_request: the message is stored, then sent to whoever is online.
OtherSends(r) ==
    /\ "message" \in Events
    /\ Eventful /\ other = <<>>
    /\ r \in Range(chats)
    /\ LET m == [n |-> Len(stored[r]) + 1, split |-> FALSE] IN
       /\ stored' = [stored EXCEPT ![r] = Append(@, m)]
       /\ other' = <<Rmsg(r, <<m>>, TRUE)>>
    /\ pushes' = pushes + 1
    /\ UNCHANGED <<served, friends, chats, frndTries, roomTries, server, toClient, toServer, client, faults, misread>>

\* on_friend_add_request of somebody this user had invited.
OtherAccepts(r) ==
    /\ "friend" \in Events
    /\ Eventful /\ other = <<>>
    /\ served /\ r \notin Range(chats)
    /\ friends' = friends + 1
    /\ chats' = Append(chats, r)
    /\ other' = <<Frnd(1), RoomPacket(r)>>
    /\ pushes' = pushes + 1
    /\ UNCHANGED <<served, stored, frndTries, roomTries, server, toClient, toServer, client, faults, misread>>

\* Without a socket in Redis the packet is not sent.
OtherDelivers ==
    /\ other # <<>>
    /\ other' = Tail(other)
    /\ toClient' = IF served THEN Append(toClient, Head(other)) ELSE toClient
    /\ UNCHANGED <<redis, server, toServer, client, history>>

-----------------------------------------------------------------------------
(* The client's reader thread: recognize_packet *)

\* signal_response: an answer does not undo a time-out.
Signal(ok) ==
    login' = IF login.pending /\ login.verdict # "timeout"
             THEN [login EXCEPT !.verdict = IF ok THEN "ok" ELSE "fail"] ELSE login

\* A packet is there and the last one is dealt with.
Incoming(type) == reader = Reading /\ toClient # <<>> /\ Head(toClient).type = type

\* recv empties what has arrived: two packets may come as one, and what
\* follows a list of names or a message is swallowed.
Taken == \/ toClient' = Tail(toClient)
         \/ /\ "merge" \in Events
            /\ Len(toClient) > 1
            /\ toClient' = Tail(Tail(toClient))

\* Without friends there are no rooms to come.
Friendless(m) == m.friends = 0

\* extract_frnd appends; when it fails, the old amount is restored.
NoFriends(n)    == mine
AddedFriends(n) == [mine EXCEPT !.friends = @ + n]

FriendReplied(ok) == Reply([type |-> "frnd", ok |-> ok, keyed |-> mine.keyed])

FriendsRead(n) ==
    \/ /\ n > 0 /\ "extract" \in Events
       /\ mine' = NoFriends(n)
       /\ FriendReplied(FALSE)
       /\ UNCHANGED login
    \/ /\ mine' = AddedFriends(n)
       /\ IF Friendless(mine') \/ login.pending
          THEN FriendReplied(TRUE)
          ELSE UNCHANGED toServer
       /\ IF Friendless(mine') THEN Signal(TRUE) ELSE UNCHANGED login

ReadFriends ==
    /\ Incoming("frnd")
    /\ Taken
    /\ FriendsRead(Head(toClient).n)
    /\ UNCHANGED <<redis, server, other, reader, history>>

\* free_user_data resets everything, the session key with it.
Dropped == mine' = Free /\ Signal(FALSE)

DataAsked           == Reply([type |-> "data", keyed |-> mine.keyed])
RoomReplied(id, ok) == Reply([type |-> "room", id |-> id, ok |-> ok, keyed |-> mine.keyed])

\* The state words are compared in arrays that are not terminated.  When the
\* comparison fails, "frnd;fail" is a list of no friends.
ReadState ==
    /\ reader = Reading
    /\ toClient # <<>>
    /\ toClient' = Tail(toClient)
    /\ \/ /\ Head(toClient).type \in {"frnd;fail", "room;fail"}
          /\ Dropped /\ UNCHANGED <<toServer, faults, misread>>
       \/ /\ Head(toClient).type = "room;ok"
          /\ Signal(TRUE) /\ UNCHANGED <<mine, toServer, faults, misread>>
       \/ /\ Head(toClient).type = "data;fail"
          /\ DataAsked
          /\ UNCHANGED <<mine, login, faults, misread>>
       \/ /\ Head(toClient).type = "frnd;fail"
          /\ Misreads /\ FriendsRead(0)
       \/ /\ Head(toClient).type \in {"room;fail", "room;ok"}
          /\ Misreads /\ RoomReplied(NoRoom, FALSE) /\ UNCHANGED <<mine, login>>
       \/ /\ Head(toClient).type = "room;id;fail"     \* not recognised as a failure
          /\ RoomReplied(Head(toClient).id, FALSE) /\ UNCHANGED <<mine, login, faults, misread>>
    /\ UNCHANGED <<redis, server, other, reader, pushes>>

\* extract_room appends, whether the room is known or not, up to ROOM_MAX.
AddedRoom(id, amount) ==
    IF Len(mine.rooms) = RoomMax THEN mine
    ELSE [mine EXCEPT !.rooms = Append(@, [id |-> id, amount |-> amount, msgs |-> <<>>])]

\* Only while the log-in is pending a room is answered.
Answers == login.pending

ReadRoom ==
    /\ Incoming("room")
    /\ Taken
    /\ LET p == Head(toClient) IN
       /\ mine' = AddedRoom(p.id, p.amount)
       /\ IF Answers THEN RoomReplied(p.id, TRUE) ELSE UNCHANGED toServer
    /\ UNCHANGED <<redis, server, other, reader, login, history>>

Least(a, b) == IF a <= b THEN a ELSE b

\* extract_rmsg counts messages by semicolons.
Countable(p) == p.aligned /\ \A i \in DOMAIN p.msgs : ~p.msgs[i].split

\* add_messages_data: as many as the room still lacks.
HistoryAdded(p, i) ==
    LET lacks == mine.rooms[i].amount - Len(mine.rooms[i].msgs)
    IN [mine EXCEPT !.rooms[i].msgs = @ \o SubSeq(p.msgs, 1, Least(lacks, Len(p.msgs)))]

\* After log-in a packet is one new message, at msg_iter.
NewAdded(p, i) ==
    LET new == IF p.aligned THEN p.msgs[1] ELSE Garbage
    IN [mine EXCEPT !.rooms[i].amount = @ + 1, !.rooms[i].msgs = Append(@, new)]

\* extract_rmsg: the first room of the id is looked up and limits what is
\* taken; add_messages_data adds to the last one.
ReadMessages ==
    /\ Incoming("rmsg")
    /\ \E whole \in BOOLEAN :
        /\ IF whole THEN toClient' = Tail(toClient)
           ELSE "merge" \in Events /\ Len(toClient) > 1 /\ toClient' = Tail(Tail(toClient))
        /\ LET p == Head(toClient)
               known == {i \in DOMAIN mine.rooms : mine.rooms[i].id = p.id}
               first == CHOOSE i \in known : \A j \in known : i <= j
               last  == CHOOSE i \in known : \A j \in known : j <= i
               room  == mine.rooms[first]
               taken == SubSeq(p.msgs, 1, Least(room.amount - Len(room.msgs), Len(p.msgs)))
           IN \/ /\ known = {} \/ (login.pending /\ ~(whole /\ Countable(p)))
                 /\ reader' = [at |-> "signal", ok |-> FALSE]
                 /\ UNCHANGED mine
              \/ /\ known # {} /\ login.pending /\ whole /\ Countable(p)
                 /\ mine' = HistoryAdded([p EXCEPT !.msgs = taken], last)
                 /\ reader' = [at |-> "signal", ok |-> TRUE]
              \/ /\ known # {} /\ ~login.pending
                 /\ mine' = NewAdded(p, first)
                 /\ reader' = [at |-> "signal", ok |-> TRUE]
    /\ UNCHANGED <<redis, server, other, toServer, login, history>>

\* Whether the log-in is pending is asked once more.
SignalMessages ==
    /\ reader # Reading
    /\ reader' = Reading
    /\ Signal(reader.ok)
    /\ UNCHANGED <<redis, server, other, toClient, toServer, mine, history>>

-----------------------------------------------------------------------------
(* The log-in request *)

\* RESPONSE_TTL + 1 seconds without a signal.
TimeOut ==
    /\ login.pending /\ login.verdict = "none"
    /\ login' = [login EXCEPT !.verdict = "timeout"]
    /\ UNCHANGED <<redis, server, other, toClient, toServer, reader, mine, history>>

\* show_login_dialog and cleanup_response_data, on the main thread.
Dialog ==
    /\ login.pending /\ login.verdict # "none"
    /\ login' = [login EXCEPT !.pending = FALSE]
    /\ UNCHANGED <<redis, server, other, toClient, toServer, reader, mine, history>>

Server == Unrecognised \/ DataRequest \/ FriendReply \/ Transfer \/ SendRoom
            \/ SendChunk \/ RoomReply
Reader == ReadFriends \/ ReadState \/ ReadRoom \/ ReadMessages \/ SignalMessages

TransferNext ==
    \/ Server \/ Reader \/ OtherDelivers \/ TimeOut \/ Dialog \/ Expire
    \/ \E r \in Room : OtherSends(r) \/ OtherAccepts(r)

\* Threads and the main loop run; nothing makes other users act, and neither
\* the time-out nor an expiry has to come.
TransferSpec ==
    /\ TransferInit /\ [][TransferNext]_transferVars
    /\ WF_transferVars(Server) /\ WF_transferVars(Reader)
    /\ WF_transferVars(OtherDelivers) /\ WF_transferVars(Dialog)

-----------------------------------------------------------------------------
(* Properties *)

Ids(rooms) == [i \in DOMAIN rooms |-> rooms[i].id]
Quiet == server = Idle /\ toClient = <<>> /\ toServer = <<>> /\ reader = Reading /\ other = <<>>

\* While no friend is added, the rooms that the client has are the first chats
\* of the user, each once and in order, and no retry doubles the friends,
\* whatever fails, expires or arrives in one piece.
DataOnce ==
    chats = Chats /\ ~misread =>
        IsPrefix(Ids(mine.rooms), Chats) /\ mine.friends \in {0, Friends}

\* Undisturbed by other users, what the client has of a room is the beginning
\* of its messages; only once the log-in request is over a packet of a longer
\* history is taken for a (mangled) new message.
HistoryIsPrefix ==
    pushes = 0 /\ ~misread => \A i \in DOMAIN mine.rooms :
        LET msgs == mine.rooms[i].msgs
        IN \E n \in 0..Len(msgs) :
              /\ IsPrefix(SubSeq(msgs, 1, n), stored[mine.rooms[i].id])
              /\ \A k \in n + 1..Len(msgs) : msgs[k] = Garbage
              /\ login.pending => n = Len(msgs)

\* Every transfer ends: the failures that are retried are counted, and no
\* exchange of answers goes on for ever, when faults and misreadings do not.
TransferEnds == <>[]Quiet
=============================================================================
