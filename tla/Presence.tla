------------------------------ MODULE Presence ------------------------------
(***************************************************************************)
(* Who is reachable at which socket: the main server's data request, log   *)
(* out, disconnection and delivery (server.c, event_handler.c, bridge.c,   *)
(* redis_user.c).  Each connection has a thread; a step of it is one       *)
(* command to Redis, one send or one system call on the socket.  Redis     *)
(* keeps two hashes that point at each other, user:<id> and socket:<fd>,   *)
(* and the set online.  Every log-in draws a session key, so a connection  *)
(* stands for its own key.  The user's lists and rooms are not modelled.   *)
(***************************************************************************)
EXTENDS Integers, FiniteSets

CONSTANTS Conn,        \* connections to the main port, each with its own key
          User,
          MaxFd        \* bound: the descriptors accept can return

ASSUME FdAssumption == MaxFd \in Nat \ {0}
ASSUME NobodyAssumption == "nobody" \notin Conn \cup User

None == 0
Fd   == 1..MaxFd

VARIABLES
    pc,       \* the next step of each connection's thread
    user,     \* the user its key was given to, or "nobody"
    fdOf,     \* its open descriptor, or None
    key,      \* the session key whose user the thread saves and cleans up
    found,    \* friend_socket or socket: what HGET user:<id> socket answered
    to,       \* the member a message is being sent to
    leaving,  \* the thread closes its socket after cleaning up
    socketOf, \* HGET user:<id> socket, or None
    loaded,   \* users whose hash has name, password and counts
    holder,   \* HGET socket:<fd> session_key, or "nobody"; its id is the key's
    online,   \* the Redis set online
    asked,    \* connections that asked for their data and did not log out
    served,   \* history: connections whose last data request succeeded
    alive,    \* the server process
    overlap,  \* history: two connections have been served at the same time
    lossy,    \* history: a connection was reset or a load has failed
    early,    \* history: a client has left, or logged out, without its data
    twice     \* history: a user had two connections

redis == <<socketOf, loaded, holder, online>>
own   == <<key, found, to, leaving>>
history == <<overlap, lossy, early, twice>>
vars  == <<pc, user, fdOf, own, redis, asked, served, alive, history>>

Rest    == {"new", "loggedIn", "idle", "closed"}

Init ==
    /\ pc       = [c \in Conn |-> "new"]
    /\ user     = [c \in Conn |-> "nobody"]
    /\ fdOf     = [c \in Conn |-> None]
    /\ key      = [c \in Conn |-> c]
    /\ found    = [c \in Conn |-> None]
    /\ to       = [c \in Conn |-> "nobody"]
    /\ leaving  = [c \in Conn |-> FALSE]
    /\ socketOf = [u \in User |-> None]
    /\ loaded   = {}
    /\ holder   = [f \in Fd |-> "nobody"]
    /\ online   = {}
    /\ asked    = {}
    /\ served   = {}
    /\ alive    = TRUE
    /\ overlap  = FALSE
    /\ lossy    = FALSE
    /\ early    = FALSE
    /\ twice    = FALSE

Goto(c, step) == pc' = [pc EXCEPT ![c] = step]

At(c, step)   == alive /\ pc[c] = step

-----------------------------------------------------------------------------
(* Connecting *)

\* redis_user_online by the log-in process; nothing keeps a user from a second
\* connection.
LogIn(c, u) ==
    /\ At(c, "new")
    /\ twice' = (twice \/ \E d \in Conn : user[d] = u /\ pc[d] # "closed")
    /\ user' = [user EXCEPT ![c] = u]
    /\ online' = online \cup {u}
    /\ Goto(c, "loggedIn")
    /\ UNCHANGED <<fdOf, own, socketOf, loaded, holder, asked, served, alive>>

FreeFds == Fd \ {fdOf[c] : c \in Conn}

\* accept returns the lowest descriptor that is free.
Connect(c) ==
    /\ At(c, "loggedIn")
    /\ \E f \in FreeFds :
        /\ \A g \in FreeFds : f <= g
        /\ fdOf' = [fdOf EXCEPT ![c] = f]
    /\ Goto(c, "idle")
    /\ UNCHANGED <<user, own, redis, asked, served, alive>>

-----------------------------------------------------------------------------
(* on_data_request *)

AskData(c) ==
    /\ At(c, "idle")
    /\ asked' = asked \cup {c}
    /\ Goto(c, "socket")
    /\ UNCHANGED <<user, fdOf, own, redis, served, alive>>

\* Faults: the descriptor accepted last (the accept loop's newSocket) is taken
\* for the connection's own.
LastFd         == CHOOSE f \in Fd \ FreeFds : \A g \in Fd \ FreeFds : f >= g
LastSocket(c)  == [socketOf EXCEPT ![user[c]] = LastFd]
LastHolder(c)  == [holder EXCEPT ![LastFd] = c]

NewSocket(c) == [socketOf EXCEPT ![user[c]] = fdOf[c]]

\* redis_user_socket_write: HSET user:<id> socket ...
WriteSocket(c) ==
    /\ At(c, "socket")
    /\ socketOf' = NewSocket(c)
    /\ Goto(c, "hash")
    /\ UNCHANGED <<user, fdOf, own, loaded, holder, online, asked, served, alive>>

Holder(c) == [holder EXCEPT ![fdOf[c]] = c]

\* ... and HSET socket:<fd> id session_key.
WriteHash(c) ==
    /\ At(c, "hash")
    /\ holder' = Holder(c)
    /\ Goto(c, "online")
    /\ UNCHANGED <<user, fdOf, own, socketOf, loaded, online, asked, served, alive>>

\* mongodb_to_redis reads the user first; the socket stays written when it fails.
LoadFails(c) ==
    /\ At(c, "online")
    /\ Goto(c, "idle")
    /\ UNCHANGED <<user, fdOf, own, redis, asked, served, alive>>

GoOnline(c) ==
    /\ At(c, "online")
    /\ online' = online \cup {user[c]}
    /\ Goto(c, "data")
    /\ UNCHANGED <<user, fdOf, own, socketOf, loaded, holder, asked, served, alive>>

\* redis_user_write, and the friends packet.
WriteData(c) ==
    /\ At(c, "data")
    /\ loaded' = loaded \cup {user[c]}
    /\ served' = served \cup {c}
    /\ Goto(c, "idle")
    /\ UNCHANGED <<user, fdOf, own, socketOf, holder, online, asked, alive>>

-----------------------------------------------------------------------------
(* on_message_request: the delivery to one other member of the room.       *)

SendMessage(c, u) ==
    /\ At(c, "idle")
    /\ user[c] \in loaded          \* redis_room_belongs_to_user reads the user
    /\ u # user[c]
    /\ to' = [to EXCEPT ![c] = u]
    /\ Goto(c, "isOnline")
    /\ UNCHANGED <<user, fdOf, key, found, leaving, redis, asked, served, alive>>

IsOnline(c) ==
    /\ At(c, "isOnline")
    /\ IF to[c] \in online
       THEN Goto(c, "friend") /\ UNCHANGED to
       ELSE Goto(c, "idle") /\ to' = [to EXCEPT ![c] = "nobody"]
    /\ UNCHANGED <<user, fdOf, key, found, leaving, redis, asked, served, alive>>

\* redis_user_socket_read: a user without a socket is skipped.
FriendSocket(c) ==
    /\ At(c, "friend")
    /\ found' = [found EXCEPT ![c] = socketOf[to[c]]]
    /\ IF socketOf[to[c]] = None
       THEN Goto(c, "idle") /\ to' = [to EXCEPT ![c] = "nobody"]
       ELSE Goto(c, "send") /\ UNCHANGED to
    /\ UNCHANGED <<user, fdOf, key, leaving, redis, asked, served, alive>>

\* Whoever has the descriptor now gets the message; else send fails unseen.
Recipients(c) == {d \in Conn : fdOf[d] = found[c]}

Send(c) ==
    /\ At(c, "send")
    /\ found' = [found EXCEPT ![c] = None]
    /\ to' = [to EXCEPT ![c] = "nobody"]
    /\ Goto(c, "idle")
    /\ UNCHANGED <<user, fdOf, key, leaving, redis, asked, served, alive>>

-----------------------------------------------------------------------------
(* Leaving *)

\* on_log_out_request calls redis_to_mongodb with the key in the packet.
LogOut(c) ==
    /\ At(c, "idle")
    /\ early' = (early \/ c \notin asked)
    /\ key' = [key EXCEPT ![c] = c]
    /\ leaving' = [leaving EXCEPT ![c] = FALSE]
    /\ asked' = asked \ {c}
    /\ served' = served \ {c}
    /\ Goto(c, "read")
    /\ UNCHANGED <<user, fdOf, found, to, redis, alive>>

\* recv returns 0.
Disconnect(c) ==
    /\ At(c, "idle")
    /\ early' = (early \/ c \notin asked)
    /\ leaving' = [leaving EXCEPT ![c] = TRUE]
    /\ served' = served \ {c}
    /\ Goto(c, "getId")
    /\ UNCHANGED <<user, fdOf, key, found, to, redis, asked, alive>>

\* recv returns -1: the socket is closed and nothing else is done.
Reset(c) ==
    /\ At(c, "idle")
    /\ served' = served \ {c}
    /\ Goto(c, "close")
    /\ UNCHANGED <<user, fdOf, own, redis, asked, alive>>

\* redis_user_socket_get_id: atoi(NULL) for a socket without a hash.
GetId(c) ==
    /\ At(c, "getId")
    /\ alive' = (holder[fdOf[c]] # "nobody")
    /\ Goto(c, "getSession")
    /\ UNCHANGED <<user, fdOf, own, redis, asked, served>>

\* redis_user_socket_get_session
GetSession(c) ==
    /\ At(c, "getSession")
    /\ LET k == holder[fdOf[c]] IN
       IF k = "nobody"
       THEN Goto(c, "close") /\ UNCHANGED key
       ELSE Goto(c, "read") /\ key' = [key EXCEPT ![c] = k]
    /\ UNCHANGED <<user, fdOf, found, to, leaving, redis, asked, served, alive>>

After(c) == IF leaving[c] THEN "close" ELSE "idle"

\* The locals of the handlers are gone.
Return(c) ==
    /\ Goto(c, After(c))
    /\ key' = [key EXCEPT ![c] = c]
    /\ leaving' = [leaving EXCEPT ![c] = FALSE]

Leaver(c) == user[key[c]]

\* redis_to_mongodb: redis_user_read fails on a user who is not loaded;
\* mongodb_user_write follows.
ReadUser(c) ==
    /\ At(c, "read")
    /\ IF Leaver(c) \in loaded THEN Goto(c, "srem") /\ UNCHANGED <<key, leaving>> ELSE Return(c)
    /\ UNCHANGED <<user, fdOf, found, to, redis, asked, served, alive>>

\* Fault: the set is deleted instead of one member.
NoOneOnline(c) == {}

Offline(c) == online \ {Leaver(c)}

\* redis_user_offline
GoOffline(c) ==
    /\ At(c, "srem")
    /\ online' = Offline(c)
    /\ Goto(c, "findSocket")
    /\ UNCHANGED <<user, fdOf, own, socketOf, loaded, holder, asked, served, alive>>

\* redis_user_cleanup; without a socket the errors are only counted.
FindSocket(c) ==
    /\ At(c, "findSocket")
    /\ found' = [found EXCEPT ![c] = socketOf[Leaver(c)]]
    /\ Goto(c, IF socketOf[Leaver(c)] = None THEN "delUser" ELSE "delSocket")
    /\ UNCHANGED <<user, fdOf, key, to, leaving, redis, asked, served, alive>>

\* Fault: the socket's hash is kept.
KeptHolder(c) == holder

NoHolder(c) == [holder EXCEPT ![found[c]] = "nobody"]

DeleteSocket(c) ==
    /\ At(c, "delSocket")
    /\ holder' = NoHolder(c)
    /\ found' = [found EXCEPT ![c] = None]
    /\ Goto(c, "delUser")
    /\ UNCHANGED <<user, fdOf, key, to, leaving, socketOf, loaded, online, asked, served, alive>>

NoSocket(c) == [socketOf EXCEPT ![Leaver(c)] = None]

DeleteUser(c) ==
    /\ At(c, "delUser")
    /\ socketOf' = NoSocket(c)
    /\ loaded' = loaded \ {Leaver(c)}
    /\ Return(c)
    /\ UNCHANGED <<user, fdOf, found, to, holder, online, asked, served, alive>>

Close(c) ==
    /\ At(c, "close")
    /\ fdOf' = [fdOf EXCEPT ![c] = None]
    /\ Goto(c, "closed")
    /\ UNCHANGED <<user, own, redis, asked, served, alive>>

Lose(c)  == LoadFails(c) \/ Reset(c)
Leave(c) == LogOut(c) \/ Disconnect(c)

Keep(c) ==
    \/ \E u \in User : SendMessage(c, u)
    \/ Connect(c)
    \/ AskData(c) \/ WriteSocket(c) \/ WriteHash(c) \/ GoOnline(c) \/ WriteData(c)
    \/ IsOnline(c) \/ FriendSocket(c) \/ Send(c)
    \/ GetId(c) \/ GetSession(c)
    \/ ReadUser(c) \/ GoOffline(c) \/ FindSocket(c) \/ DeleteSocket(c)
    \/ DeleteUser(c) \/ Close(c)

Noted(c) == overlap' = (overlap \/ \E d \in Conn \ {c} : pc[d] \notin Rest)

Next == \E c \in Conn :
    /\ \/ Lose(c) /\ lossy' = TRUE /\ UNCHANGED <<early, twice>>
       \/ Leave(c) /\ UNCHANGED <<lossy, twice>>
       \/ (\E u \in User : LogIn(c, u)) /\ UNCHANGED <<lossy, early>>
       \/ Keep(c) /\ UNCHANGED <<lossy, early, twice>>
    /\ Noted(c)

Spec == Init /\ [][Next]_vars

-----------------------------------------------------------------------------
(* Properties *)

\* A connection whose data request succeeded can be reached and cleaned up for
\* as long as it does not leave: its user is online and loaded, and the two
\* hashes point at each other (on_message_request, event_handler.c:506, finds
\* who is online and sends to them).  A second connection of the user can take
\* it down, and so can a client that leaves without its data from a descriptor
\* whose hash a lost connection left behind.
ServedIsReachable ==
    ~twice /\ ~(early /\ lossy) =>
        \A c \in served : pc[c] \in {"idle", "isOnline", "friend", "send"} =>
            /\ user[c] \in online \cap loaded
            /\ socketOf[user[c]] = fdOf[c]
            /\ holder[fdOf[c]] = c

\* When all connections of a user have left, each in order, nothing of the
\* user is left in Redis, however the departures of others interleave
\* (redis_user_cleanup, redis_user.c:327).
ClosedLeavesNothing ==
    ~lossy /\ ~early /\ ~twice => \A u \in User :
        (\A c \in Conn : user[c] = u => pc[c] = "closed") =>
            /\ u \notin online \cup loaded
            /\ socketOf[u] = None
            /\ \A f \in Fd : holder[f] # "nobody" => user[holder[f]] # u

\* redis_user_socket_get_id "returns user id, -1 if fails" (redis_user.h:15):
\* it never ends the process, unless a client leaves without its data or a user
\* has two connections, the first of which to leave clears the other's hash.
NoCrash == early \/ twice \/ alive

\* A message goes to the user it is for: "if yes then sends packet to them
\* directly" (event_handler.c:507), as long as no two connections have been
\* served at once and none was lost, though descriptors are used again, users
\* connect twice and clients leave without their data.
MessagesReachTheirUserAlone ==
    overlap \/ lossy \/ \A c \in Conn : At(c, "send") =>
        \A d \in Recipients(c) : user[d] = to[c]
=============================================================================
