------------------------------- MODULE Friends -------------------------------
(***************************************************************************)
(* Friendships: invitations (on_friend_add_request) and the two copies of  *)
(* a user's record, its document in MongoDB and, while the user is on      *)
(* line, the keys user:<id>, user:<id>:friends and user:<id>:chats in      *)
(* Redis, which the data request fills from the document (mongodb_to_redis)*)
(* and the end of the connection writes back and deletes                   *)
(* (redis_to_mongodb).  A step is one command to a store; a run of RPUSHes *)
(* of one list is one step.  Every user has at most one connection here.   *)
(***************************************************************************)
EXTENDS Integers, Sequences, FiniteSets

CONSTANTS User,       \* user ids
          Garbage,    \* what an array entry that was never written holds
          MaxLogins,  \* bound: connections each user makes
          MaxAdds     \* bound: friend requests each user sends

ASSUME GarbageAssumption == Garbage \notin User \cup Nat
ASSUME BoundsAssumption ==
    MaxLogins \in Nat /\ MaxAdds \in Nat

VARIABLES
    doc,       \* USER documents: [friends, chats]
    hash,      \* Redis user:<id>: [socket, data, fnum, cnum]
    friends,   \* Redis user:<id>:friends
    chats,     \* Redis user:<id>:chats
    invites,   \* Redis user:<id>:friend_invite, as a set
    rooms,     \* rooms[c]: the members of room c
    pc,        \* next step of the thread of each user's connection
    target,    \* friend_id in on_friend_add_request
    side,      \* whose record is being extended: "own" or "other"
    copy,      \* the user_t a thread has read
    nums,      \* its friends_num and chats_num
    chat,      \* new_chat_id
    asked,     \* history: the pairs <<u, v>> such that u asked to add v
    overlap,   \* history: two operations have been under way at once
    logins, adds

redis  == <<hash, friends, chats, invites>>
locals == <<target, side, copy, nums, chat>>
bounds == <<logins, adds>>
vars   == <<doc, redis, rooms, pc, locals, asked, overlap, bounds>>

NoRecord == [friends |-> <<>>, chats |-> <<>>]
NoHash   == [socket |-> FALSE, data |-> FALSE, fnum |-> 0, cnum |-> 0]

Init ==
    /\ doc     = [u \in User |-> NoRecord]
    /\ hash    = [u \in User |-> NoHash]
    /\ friends = [u \in User |-> <<>>]
    /\ chats   = [u \in User |-> <<>>]
    /\ invites = [u \in User |-> {}]
    /\ rooms   = <<>>
    /\ pc      = [u \in User |-> "off"]
    /\ target  = [u \in User |-> u]
    /\ side    = [u \in User |-> "own"]
    /\ copy    = [u \in User |-> NoRecord]
    /\ nums    = [u \in User |-> <<0, 0>>]
    /\ chat    = [u \in User |-> 0]
    /\ asked   = {}
    /\ overlap = FALSE
    /\ logins  = [u \in User |-> 0]
    /\ adds    = [u \in User |-> 0]

Go(u, from, to) == pc[u] = from /\ pc' = [pc EXCEPT ![u] = to]

-----------------------------------------------------------------------------
(* on_data_request: redis_user_socket_write, then mongodb_to_redis.        *)

Connect(u) ==
    /\ Go(u, "off", "loadSocket")
    /\ logins[u] < MaxLogins
    /\ logins' = [logins EXCEPT ![u] = @ + 1]
    /\ UNCHANGED <<doc, redis, rooms, locals, asked, adds>>

LoadSocket(u) ==
    /\ Go(u, "loadSocket", "loadDoc")
    /\ hash' = [hash EXCEPT ![u].socket = TRUE]
    /\ UNCHANGED <<doc, friends, chats, invites, rooms, locals, asked, bounds>>

LoadDoc(u) ==
    /\ Go(u, "loadDoc", "loadHash")
    /\ copy' = [copy EXCEPT ![u] = doc[u]]
    /\ UNCHANGED <<doc, redis, rooms, target, side, nums, chat, asked, bounds>>

\* Fault: the counts are left out of the HSET.
LoadHashUncounted(u) ==
    /\ Go(u, "loadHash", "loadFriends")
    /\ hash' = [hash EXCEPT ![u].data = TRUE]
    /\ UNCHANGED <<doc, friends, chats, invites, rooms, locals, asked, bounds>>

\* redis_user_write: the hash is set, the lists are only appended to.
LoadHash(u) ==
    /\ Go(u, "loadHash", "loadFriends")
    /\ hash' = [hash EXCEPT ![u] = [@ EXCEPT !.data = TRUE,
                    !.fnum = Len(copy[u].friends), !.cnum = Len(copy[u].chats)]]
    /\ UNCHANGED <<doc, friends, chats, invites, rooms, locals, asked, bounds>>

LoadFriends(u) ==
    /\ Go(u, "loadFriends", "loadChats")
    /\ friends' = [friends EXCEPT ![u] = @ \o copy[u].friends]
    /\ UNCHANGED <<doc, hash, chats, invites, rooms, locals, asked, bounds>>

LoadChats(u) ==
    /\ Go(u, "loadChats", "idle")
    /\ chats' = [chats EXCEPT ![u] = @ \o copy[u].chats]
    /\ UNCHANGED <<doc, hash, friends, invites, rooms, locals, asked, bounds>>

-----------------------------------------------------------------------------
(* The end of the connection: redis_to_mongodb.                            *)

Disconnect(u) ==
    /\ Go(u, "idle", "saveNums")
    /\ UNCHANGED <<doc, redis, rooms, locals, asked, bounds>>

\* redis_user_read.  The counts size the arrays, and mongodb_user_write
\* stores as many entries: the rest of a longer list is dropped, the entries
\* that a shorter list leaves are whatever malloc returned.
First(list, n) == [i \in 1..n |-> IF i <= Len(list) THEN list[i] ELSE Garbage]

SaveNums(u) ==
    /\ Go(u, "saveNums", "saveFriends")
    /\ nums' = [nums EXCEPT ![u] = <<hash[u].fnum, hash[u].cnum>>]
    /\ UNCHANGED <<doc, redis, rooms, target, side, copy, chat, asked, bounds>>

SaveFriends(u) ==
    /\ Go(u, "saveFriends", "saveChats")
    /\ copy' = [copy EXCEPT ![u].friends = First(friends[u], nums[u][1])]
    /\ UNCHANGED <<doc, redis, rooms, target, side, nums, chat, asked, bounds>>

SaveChats(u) ==
    /\ Go(u, "saveChats", "saveDoc")
    /\ copy' = [copy EXCEPT ![u].chats = First(chats[u], nums[u][2])]
    /\ UNCHANGED <<doc, redis, rooms, target, side, nums, chat, asked, bounds>>

\* mongodb_user_write replaces the whole document.
SaveDoc(u) ==
    /\ Go(u, "saveDoc", "delHash")
    /\ doc' = [doc EXCEPT ![u] = copy[u]]
    /\ UNCHANGED <<redis, rooms, locals, asked, bounds>>

\* redis_user_cleanup, called by redis_user_offline.
DelHash(u) ==
    /\ Go(u, "delHash", "delFriends")
    /\ hash' = [hash EXCEPT ![u] = NoHash]
    /\ UNCHANGED <<doc, friends, chats, invites, rooms, locals, asked, bounds>>

DelFriends(u) ==
    /\ Go(u, "delFriends", "delChats")
    /\ friends' = [friends EXCEPT ![u] = <<>>]
    /\ UNCHANGED <<doc, hash, chats, invites, rooms, locals, asked, bounds>>

\* Fault: the chats are not deleted.
DelNothing(u) ==
    /\ Go(u, "delChats", "off")
    /\ UNCHANGED <<doc, redis, rooms, locals, asked, bounds>>

DelChats(u) ==
    /\ Go(u, "delChats", "off")
    /\ chats' = [chats EXCEPT ![u] = <<>>]
    /\ UNCHANGED <<doc, hash, friends, invites, rooms, locals, asked, bounds>>

-----------------------------------------------------------------------------
(* on_friend_add_request *)

RequestFriend(u, v) ==
    /\ u # v
    /\ Go(u, "idle", "addSent")
    /\ hash[u].data                       \* redis_user_read succeeds
    /\ adds[u] < MaxAdds
    /\ adds'   = [adds EXCEPT ![u] = @ + 1]
    /\ target' = [target EXCEPT ![u] = v]
    /\ side'   = [side EXCEPT ![u] = "own"]
    /\ asked'  = asked \cup {<<u, v>>}
    /\ UNCHANGED <<doc, redis, rooms, copy, nums, chat, logins>>

\* redis_check_friend_invite(user.id, friend_id): a repeated invitation.
CheckSent(u) ==
    /\ Go(u, "addSent", IF u \in invites[target[u]] THEN "idle" ELSE "addReceived")
    /\ UNCHANGED <<doc, redis, rooms, locals, asked, bounds>>

\* Fault: 0 is taken for "not invited".
CheckReceivedInverted(u) ==
    /\ Go(u, "addReceived", IF target[u] \in invites[u] THEN "invite" ELSE "accept")
    /\ UNCHANGED <<doc, redis, rooms, locals, asked, bounds>>

\* redis_check_friend_invite(friend_id, user.id): invited by that friend.
CheckReceived(u) ==
    /\ Go(u, "addReceived", IF target[u] \in invites[u] THEN "accept" ELSE "invite")
    /\ UNCHANGED <<doc, redis, rooms, locals, asked, bounds>>

Invite(u) ==
    /\ Go(u, "invite", "idle")
    /\ invites' = [invites EXCEPT ![target[u]] = @ \cup {u}]
    /\ UNCHANGED <<doc, hash, friends, chats, rooms, locals, asked, bounds>>

Accept(u) ==
    /\ Go(u, "accept", "pushFriend")
    /\ invites' = [invites EXCEPT ![u] = @ \ {target[u]}]
    /\ UNCHANGED <<doc, hash, friends, chats, rooms, locals, asked, bounds>>

\* redis_add_friend and redis_add_chat_to_user extend first the record of
\* the user, then that of the friend.
Owner(u) == IF side[u] = "own" THEN u ELSE target[u]
Other(u) == IF side[u] = "own" THEN target[u] ELSE u

PushFriend(u) ==
    /\ Go(u, "pushFriend", "incFriends")
    /\ friends' = [friends EXCEPT ![Owner(u)] = Append(@, Other(u))]
    /\ UNCHANGED <<doc, hash, chats, invites, rooms, locals, asked, bounds>>

\* HINCRBY creates the hash of a user who is gone.
IncFriends(u) ==
    /\ Go(u, "incFriends", IF side[u] = "own" THEN "newRoom" ELSE "pushChat")
    /\ hash' = [hash EXCEPT ![Owner(u)].fnum = @ + 1]
    /\ UNCHANGED <<doc, friends, chats, invites, rooms, locals, asked, bounds>>

RoomId == Len(rooms) + 1

\* room_creation, seen from the user records: a room with a new id.
NewRoom(u) ==
    /\ Go(u, "newRoom", "pushChat")
    /\ rooms' = Append(rooms, {u, target[u]})
    /\ chat' = [chat EXCEPT ![u] = RoomId]
    /\ UNCHANGED <<doc, redis, target, side, copy, nums, asked, bounds>>

PushChat(u) ==
    /\ Go(u, "pushChat", "incChats")
    /\ chats' = [chats EXCEPT ![Owner(u)] = Append(@, chat[u])]
    /\ UNCHANGED <<doc, hash, friends, invites, rooms, locals, asked, bounds>>

IncChats(u) ==
    /\ Go(u, "incChats", IF side[u] = "own" THEN "online" ELSE "idle")
    /\ hash' = [hash EXCEPT ![Owner(u)].cnum = @ + 1]
    /\ UNCHANGED <<doc, friends, chats, invites, rooms, locals, asked, bounds>>

\* Fault: nothing is done for a friend who is off line.
OnlineOnly(u) ==
    /\ Go(u, "online", IF hash[target[u]] # NoHash THEN "pushFriend" ELSE "idle")
    /\ side' = [side EXCEPT ![u] = "other"]
    /\ UNCHANGED <<doc, redis, rooms, target, copy, nums, chat, asked, bounds>>

\* redis_user_exist: any field of the hash makes the friend "online".
Exists(v) == hash[v].socket \/ hash[v].data \/ hash[v].fnum > 0 \/ hash[v].cnum > 0

CheckOnline(u) ==
    /\ Go(u, "online", IF Exists(target[u]) THEN "pushFriend" ELSE "readDoc")
    /\ side' = [side EXCEPT ![u] = "other"]
    /\ UNCHANGED <<doc, redis, rooms, target, copy, nums, chat, asked, bounds>>

\* The friend is offline: mongodb_user_read, the document written back with
\* one friend more, and mongodb_add_chat_to_user's $push.
ReadDoc(u) ==
    /\ Go(u, "readDoc", "writeDoc")
    /\ copy' = [copy EXCEPT ![u] = [doc[target[u]] EXCEPT !.friends = Append(@, u)]]
    /\ UNCHANGED <<doc, redis, rooms, target, side, nums, chat, asked, bounds>>

WriteDoc(u) ==
    /\ Go(u, "writeDoc", "pushDoc")
    /\ doc' = [doc EXCEPT ![target[u]] = copy[u]]
    /\ UNCHANGED <<redis, rooms, locals, asked, bounds>>

PushDoc(u) ==
    /\ Go(u, "pushDoc", "idle")
    /\ doc' = [doc EXCEPT ![target[u]].chats = Append(@, chat[u])]
    /\ UNCHANGED <<redis, rooms, locals, asked, bounds>>

-----------------------------------------------------------------------------
Load(u) == \/ LoadSocket(u) \/ LoadDoc(u) \/ LoadHash(u) \/ LoadFriends(u)
           \/ LoadChats(u)
Save(u) == \/ SaveNums(u) \/ SaveFriends(u) \/ SaveChats(u) \/ SaveDoc(u)
           \/ DelHash(u) \/ DelFriends(u) \/ DelChats(u)
Add(u)  == \/ CheckSent(u)  \/ CheckReceived(u) \/ Invite(u)   \/ Accept(u)
           \/ PushFriend(u) \/ IncFriends(u)    \/ NewRoom(u)  \/ PushChat(u)
           \/ IncChats(u)   \/ CheckOnline(u)   \/ ReadDoc(u)  \/ WriteDoc(u)
           \/ PushDoc(u)

Step(u) == \/ Connect(u) \/ Disconnect(u) \/ Load(u) \/ Save(u) \/ Add(u)
           \/ \E v \in User : RequestFriend(u, v)

Resting(u) == pc[u] \in {"off", "idle"}
Noted(u)   == overlap' = (overlap \/ \E v \in User \ {u} : ~Resting(v))

Next == \E u \in User : Step(u) /\ Noted(u)

Spec == Init /\ [][Next]_vars

-----------------------------------------------------------------------------
(* Properties *)

Elems(list) == {list[i] : i \in DOMAIN list}
Agreed(u, v) == <<u, v>> \in asked /\ <<v, u>> \in asked

\* Nobody becomes a friend without asking: in either copy of a user's record
\* a friend is someone who asked the user and whom the user asked, whatever
\* requests, log-ins and log-outs overlap.
FriendsAgreed ==
    \A u \in User :
        \A v \in (Elems(friends[u]) \cup Elems(doc[u].friends)) \ {Garbage} :
            Agreed(u, v)

AtRest == \A u \in User : Resting(u)
Alone  == AtRest /\ ~overlap

\* What a friend list is at rest: Redis while the user is on line, else the
\* document.
FriendsOf(u) == IF pc[u] = "idle" THEN Elems(friends[u]) ELSE Elems(doc[u].friends)
ChatsOf(u)   == IF pc[u] = "idle" THEN Elems(chats[u])   ELSE Elems(doc[u].chats)

\* They are as long as no two operations have overlapped, and the friendship
\* is on both sides, whoever is on line, and comes with a room they share.
FriendshipIsMutualAlone ==
    Alone => \A u, v \in User :
        u # v /\ Agreed(u, v) => /\ v \in FriendsOf(u)
                                 /\ ChatsOf(u) \cap ChatsOf(v) # {}

\* redis_user_read sizes its arrays by friends_num and chats_num and fills
\* them from the lists: for a user on line the two agree, and so no entry of a
\* document is garbage, as long as no two operations have overlapped.
CountsMatchListsAlone ==
    Alone => \A u \in User :
        /\ pc[u] = "idle" => /\ hash[u].fnum = Len(friends[u])
                             /\ hash[u].cnum = Len(chats[u])
        /\ Garbage \notin Elems(doc[u].friends) \cup Elems(doc[u].chats)

\* Off line, nothing of the user's record is left in Redis, as long as no two
\* operations have overlapped.
OfflineLeavesNothingAlone ==
    Alone => \A u \in User : pc[u] = "off" =>
        hash[u] = NoHash /\ friends[u] = <<>> /\ chats[u] = <<>>
=============================================================================
