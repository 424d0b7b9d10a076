------------------------------ MODULE RoomSave ------------------------------
(***************************************************************************)
(* The copy of a room in MongoDB: it is written when a member leaves and   *)
(* no other member is on line (redis_to_mongodb of bridge.c), from what    *)
(* the leaver's thread read of the room in Redis, where rooms stay for     *)
(* ever.  Meanwhile the other member sends, leaves or comes back.  A step  *)
(* of a thread is one command to a store.  Messages are only appended to a *)
(* room (RoomMessages), so a number says which of them a copy has.         *)
(***************************************************************************)
EXTENDS Integers, Sequences, FiniteSets

CONSTANTS User,
          Room,
          Chats,       \* user -> the rooms in user:<id>:chats, in order
          MaxLogins,   \* bound: data requests of all users
          MaxMessages  \* bound: messages of each room

ASSUME UserAssumption == IsFiniteSet(User)
ASSUME ChatsAssumption == Room # {} /\ Chats \in [User -> Seq(Room)]
ASSUME LimitsAssumption == MaxLogins \in Nat /\ MaxMessages \in Nat

VARIABLES
    amount,  \* Redis room:<id>: message_amount
    stored,  \* Redis room:<id>:messages: how many
    saved,   \* the ROOM document: messages of the room, unwritten entries
    present, \* users whose user:<id> exists in Redis
    pc,      \* the next step of each user's thread
    into,    \* the room its message goes to
    chat,    \* i in redis_to_mongodb
    need,    \* room.message_amount as its thread read it
    copy,    \* what its thread read
    logins,
    before,  \* history: messages stored before the members began to leave
    crossed, \* history: a member left while another sent, left or came
    lossy    \* history: a store failed, or a connection was reset

redis   == <<amount, stored, present>>
locals  == <<into, chat, need, copy>>
history == <<before, crossed, lossy>>
vars    == <<redis, saved, pc, locals, logins, history>>

Steps   == {"off", "load", "idle", "exec", "save", "room", "list", "check", "write"}
Leaving == {"save", "room", "list", "check", "write"}

Document == [kept : Nat, blank : Nat]
Empty    == [kept |-> 0, blank |-> 0]

\* room_creation has stored every room in both places, without messages.
Init ==
    /\ amount  = [r \in Room |-> 0]
    /\ stored  = [r \in Room |-> 0]
    /\ saved   = [r \in Room |-> Empty]
    /\ present = {}
    /\ pc      = [u \in User |-> "off"]
    /\ \E r \in Room : into = [u \in User |-> r]
    /\ chat    = [u \in User |-> 1]
    /\ need    = [u \in User |-> 0]
    /\ copy    = [u \in User |-> Empty]
    /\ logins  = 0
    /\ before  = [r \in Room |-> 0]
    /\ crossed = FALSE
    /\ lossy   = FALSE

Go(u, from, to) == pc[u] = from /\ pc' = [pc EXCEPT ![u] = to]
Keeps           == UNCHANGED lossy
Loses           == lossy' = TRUE

Chatting(u, r) == \E i \in DOMAIN Chats[u] : Chats[u][i] = r
Members(r)     == {u \in User : Chatting(u, r)}
Here(u)        == Chats[u][chat[u]]

-----------------------------------------------------------------------------
(* Coming: on_data_request *)

\* redis_user_socket_write creates user:<id>.
AskData(u) ==
    /\ Go(u, "off", "load")
    /\ logins < MaxLogins
    /\ logins' = logins + 1
    /\ present' = present \cup {u}
    /\ Keeps
    /\ UNCHANGED <<amount, stored, saved, locals, before>>

\* mongodb_to_redis: every room is in Redis already, only the user is written.
Loaded(u) ==
    /\ Go(u, "load", "idle")
    /\ Keeps
    /\ UNCHANGED <<redis, saved, locals, logins, before>>

\* It failed: user:<id> stays with its socket.
LoadFails(u) ==
    /\ Go(u, "load", "off")
    /\ Loses
    /\ UNCHANGED <<redis, saved, locals, logins, before>>

-----------------------------------------------------------------------------
(* on_message_request *)

\* redis_room_message_next
CountMessage(u, r) ==
    /\ Go(u, "idle", "exec")
    /\ Chatting(u, r) /\ amount[r] < MaxMessages
    /\ amount' = [amount EXCEPT ![r] = @ + 1]
    /\ into' = [into EXCEPT ![u] = r]
    /\ Keeps
    /\ UNCHANGED <<stored, present, saved, chat, need, copy, logins, before>>

\* redis_room_message_write
StoreMessage(u) ==
    /\ Go(u, "exec", "idle")
    /\ stored' = [stored EXCEPT ![into[u]] = @ + 1]
    /\ Keeps
    /\ UNCHANGED <<amount, present, saved, locals, logins, before>>

-----------------------------------------------------------------------------
(* Leaving: redis_to_mongodb, on log-out or when recv returns 0 *)

\* redis_user_read and mongodb_user_write.
Leave(u) ==
    /\ Go(u, "idle", "save")
    /\ before' = [r \in Room |->
           IF u \in Members(r) /\ \A v \in Members(r) : pc[v] \notin Leaving
           THEN stored[r] ELSE before[r]]
    /\ Keeps
    /\ UNCHANGED <<redis, saved, locals, logins>>

\* One of them failed: only a log-out can be repeated.
UserNotSaved(u) ==
    /\ \/ Go(u, "save", "off")
       \/ Go(u, "save", "idle")
    /\ Loses
    /\ UNCHANGED <<redis, saved, locals, logins, before>>

\* recv returned -1: nothing is saved, and user:<id> stays.
Reset(u) ==
    /\ Go(u, "idle", "off")
    /\ Loses
    /\ UNCHANGED <<redis, saved, locals, logins, before>>

\* Fault: only the set online forgets the user.
StillPresent(u) == present

\* redis_user_offline deletes user:<id>.
Absent(u) == present \ {u}

GoOffline(u) ==
    /\ Go(u, "save", "room")
    /\ present' = Absent(u)
    /\ chat' = [chat EXCEPT ![u] = 1]
    /\ Keeps
    /\ UNCHANGED <<amount, stored, saved, into, need, copy, logins, before>>

\* redis_room_exist succeeds, and redis_room_read reads the counts first.
ReadAmount(u) ==
    /\ chat[u] <= Len(Chats[u])
    /\ Go(u, "room", "list")
    /\ need' = [need EXCEPT ![u] = amount[Here(u)]]
    /\ Keeps
    /\ UNCHANGED <<redis, saved, into, chat, copy, logins, before>>

\* Then the messages: entries for which the list has none yet are written to
\* MongoDB as malloc returned them.
ReadList(u) ==
    /\ Go(u, "list", "check")
    /\ LET have == IF need[u] <= stored[Here(u)] THEN need[u] ELSE stored[Here(u)]
       IN copy' = [copy EXCEPT ![u] = [kept |-> have, blank |-> need[u] - have]]
    /\ Keeps
    /\ UNCHANGED <<redis, saved, into, chat, need, logins, before>>

\* mongodb_room_any_online, for the one other member.
AnyOnline(u) == \E v \in Members(Here(u)) \ {u} : v \in present

\* Fault: "continue" as "break".
NoChat(u) == Len(Chats[u]) + 1

NextChat(u) == chat[u] + 1

CheckOnline(u) ==
    /\ pc[u] = "check"
    /\ IF AnyOnline(u)
       THEN Go(u, "check", "room") /\ chat' = [chat EXCEPT ![u] = NextChat(u)]
       ELSE Go(u, "check", "write") /\ UNCHANGED chat
    /\ Keeps
    /\ UNCHANGED <<redis, saved, into, need, copy, logins, before>>

\* mongodb_insert replaces the document.
WriteRoom(u) ==
    /\ Go(u, "write", "room")
    /\ saved' = [saved EXCEPT ![Here(u)] = copy[u]]
    /\ chat' = [chat EXCEPT ![u] = NextChat(u)]
    /\ Keeps
    /\ UNCHANGED <<redis, into, need, copy, logins, before>>

\* A failure ends redis_to_mongodb: the remaining rooms are not written.
RoomNotSaved(u) ==
    /\ \/ Go(u, "room", "off")
       \/ Go(u, "list", "off")
       \/ Go(u, "write", "off")
    /\ chat[u] <= Len(Chats[u])
    /\ Loses
    /\ UNCHANGED <<redis, saved, locals, logins, before>>

Left(u) ==
    /\ chat[u] > Len(Chats[u])
    /\ Go(u, "room", "off")
    /\ Keeps
    /\ UNCHANGED <<redis, saved, locals, logins, before>>

Serve(u) ==
    \/ AskData(u) \/ Loaded(u) \/ LoadFails(u)
    \/ (\E r \in Room : CountMessage(u, r)) \/ StoreMessage(u)
    \/ Leave(u) \/ UserNotSaved(u) \/ Reset(u) \/ GoOffline(u)
    \/ ReadAmount(u) \/ ReadList(u) \/ CheckOnline(u) \/ WriteRoom(u)
    \/ RoomNotSaved(u) \/ Left(u)

Working == {"load", "exec"} \cup Leaving

Crossing(u) ==
    \E v \in User \ {u} :
        pc[v] \in Working /\ (pc[v] \in Leaving \/ pc'[u] \in Leaving)

Next == \E u \in User :
    /\ Serve(u)
    /\ crossed' = (crossed \/ Crossing(u))

Spec == Init /\ [][Next]_vars

-----------------------------------------------------------------------------
(* Properties *)

TypeOK ==
    /\ amount \in [Room -> Nat]
    /\ stored \in [Room -> Nat]
    /\ saved \in [Room -> Document]
    /\ present \subseteq User
    /\ pc \in [User -> Steps]
    /\ into \in [User -> Room]
    /\ chat \in [User -> Nat \ {0}]
    /\ need \in [User -> Nat]
    /\ copy \in [User -> Document]
    /\ logins \in Nat
    /\ before \in [Room -> Nat]
    /\ crossed \in BOOLEAN
    /\ lossy \in BOOLEAN

AllLeft(r) == \A u \in Members(r) : pc[u] = "off"

\* When the members of a room have left, in whatever order their steps were
\* taken, MongoDB has what had been sent before the first of them began to
\* leave: the one who goes off line last finds nobody and writes the room
\* ("if no transfer chat from redis to mongodb", bridge.c:72), and no older
\* copy replaces it.
SentBeforeIsSaved ==
    ~lossy => \A r \in Room : AllLeft(r) => before[r] <= saved[r].kept

\* When members did not leave while another sent, left or came back, the
\* document is the room: no message is missing, and none of its entries was
\* never read.
SavedIsRoomUnlessCrossed ==
    ~lossy /\ ~crossed => \A r \in Room : AllLeft(r) =>
        saved[r] = [kept |-> stored[r], blank |-> 0]
=============================================================================
