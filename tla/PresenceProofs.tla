--------------------------- MODULE PresenceProofs ---------------------------
(***************************************************************************)
(* Who stays reachable and what is left behind, for any number of          *)
(* connections, users and descriptors and every order of their steps.      *)
(***************************************************************************)
EXTENDS Presence, TLAPS

Asking   == {"socket", "hash", "online", "data"}
Using    == {"idle", "isOnline", "friend", "send"}
Going    == {"getId", "getSession"}
Clearing == {"read", "srem", "findSocket", "delSocket", "delUser"}
Steps    == {"new", "loggedIn", "close", "closed"} \cup Asking \cup Using \cup Going \cup Clearing

TypeOK ==
    /\ pc \in [Conn -> Steps]
    /\ user \in [Conn -> User \cup {"nobody"}]
    /\ fdOf \in [Conn -> Fd \cup {None}]
    /\ key \in [Conn -> Conn]
    /\ found \in [Conn -> Fd \cup {None}]
    /\ to \in [Conn -> User \cup {"nobody"}]
    /\ leaving \in [Conn -> BOOLEAN]
    /\ socketOf \in [User -> Fd \cup {None}]
    /\ loaded \subseteq User
    /\ holder \in [Fd -> Conn \cup {"nobody"}]
    /\ online \subseteq User
    /\ asked \subseteq Conn /\ served \subseteq Conn
    /\ alive \in BOOLEAN /\ overlap \in BOOLEAN
    /\ lossy \in BOOLEAN /\ early \in BOOLEAN /\ twice \in BOOLEAN

\* Connections are lost or leave early, but not both, and users connect once.
Sound   == ~twice /\ ~(early /\ lossy)
Clean   == ~twice /\ ~lossy
Orderly == Clean /\ ~early

Open(c) == pc[c] \notin {"new", "closed"}

\* What is known of a connection by its position.
Placed(c) ==
    /\ fdOf[c] = None <=> pc[c] \in {"new", "loggedIn", "closed"}
    /\ user[c] = "nobody" <=> pc[c] = "new"
    /\ IF pc[c] = "new" THEN key[c] = c ELSE user[key[c]] # "nobody"
    /\ pc[c] \in {"isOnline", "friend", "send"} => to[c] # "nobody"
    /\ pc[c] \in {"new", "loggedIn"} => c \notin asked
    /\ pc[c] \in Asking => c \in asked
    /\ pc[c] \in Going => leaving[c]
    /\ pc[c] \in Clearing /\ ~leaving[c] => c \notin asked
    /\ c \in served => c \in asked /\ pc[c] \in Asking \cup Using
    /\ ~early /\ pc[c] \in Going => c \in asked

\* Its user's hash and its socket's hash point at each other.
Wrote(c) ==
    \/ c \in asked /\ pc[c] \in {"online", "data"} \cup Using \cup Going
    \/ pc[c] = "read" /\ user[c] \in loaded
    \/ pc[c] \in {"srem", "findSocket", "delSocket"}

Linked(c) ==
    /\ Wrote(c) \/ pc[c] = "hash" => socketOf[user[c]] = fdOf[c]
    /\ Wrote(c) => holder[fdOf[c]] = c

\* It cleans up after its own user, and that one's socket.
CleansItsOwn(c) ==
    /\ pc[c] \in Clearing => key[c] = c
    /\ pc[c] = "delSocket" => found[c] = fdOf[c]

Reached(c) ==
    /\ c \in served => user[c] \in online \cap loaded
    /\ pc[c] = "data" => user[c] \in online

\* Who leaves in order has been loaded.
LoadedFirst(c) ==
    (c \in asked /\ pc[c] \in Using \cup Going) \/ pc[c] \in Clearing => user[c] \in loaded

HoldersKnown == \A f \in Fd : holder[f] # "nobody" => user[holder[f]] # "nobody"

FdsDistinct == \A c, d \in Conn : fdOf[c] = fdOf[d] /\ fdOf[c] # None => c = d

UsersDistinct == ~twice => \A c, d \in Conn : Open(c) /\ Open(d) /\ user[c] = user[d] => c = d

\* Without losses every hash belongs to a connection that will delete it.
Holds(c) ==
    \/ pc[c] \in {"online", "data"}
    \/ user[c] \in loaded /\ pc[c] \in {"socket", "hash"} \cup Using \cup Going
                                         \cup (Clearing \ {"delUser"})

HoldersHold == Clean => \A f \in Fd : holder[f] # "nobody" =>
    fdOf[holder[f]] = f /\ Holds(holder[f])

Uses(c) ==
    \/ c \in asked /\ pc[c] \in Asking \cup Using \cup Going
    \/ pc[c] \in Clearing

LoadedAreUsed == Clean => \A u \in loaded : \E c \in Conn : user[c] = u /\ Uses(c)

OnlineAreOpen == Orderly => \A u \in online : \E c \in Conn :
    user[c] = u /\ pc[c] \notin {"new", "findSocket", "delSocket", "delUser", "close", "closed"}

SocketsAreUsed == Clean => \A u \in User : socketOf[u] # None =>
    u \in loaded \/ \E c \in Conn : user[c] = u /\ pc[c] \in {"hash", "online", "data"}

IInv ==
    /\ TypeOK
    /\ \A c \in Conn : Placed(c)
    /\ Sound => \A c \in Conn : Linked(c) /\ CleansItsOwn(c) /\ Reached(c)
    /\ Orderly => \A c \in Conn : LoadedFirst(c)
    /\ FdsDistinct /\ UsersDistinct /\ HoldersKnown
    /\ HoldersHold /\ LoadedAreUsed /\ OnlineAreOpen /\ SocketsAreUsed
    /\ NoCrash

-----------------------------------------------------------------------------
(* What one step of a connection leaves alone.                             *)

StepOf(c) ==
    /\ \/ Lose(c) /\ lossy' = TRUE /\ UNCHANGED <<early, twice>>
       \/ Leave(c) /\ UNCHANGED <<lossy, twice>>
       \/ (\E u \in User : LogIn(c, u)) /\ UNCHANGED <<lossy, early>>
       \/ Keep(c) /\ UNCHANGED <<lossy, early, twice>>
    /\ Noted(c)

LEMMA NextIsStep == Next <=> \E c \in Conn : StepOf(c)
BY DEF Next, StepOf

LEMMA TypesKept ==
    ASSUME TypeOK, NEW c \in Conn, Placed(c), StepOf(c)
    PROVE  TypeOK'
<1>0. /\ overlap' \in BOOLEAN /\ lossy' \in BOOLEAN /\ early' \in BOOLEAN /\ twice' \in BOOLEAN
  BY DEF TypeOK, StepOf, Noted, Lose, Leave, LogOut, Disconnect, LogIn
<1>u. /\ user[c] \in User \cup {"nobody"} /\ fdOf[c] \in Fd \cup {None}
      /\ pc[c] # "new" => user[c] \in User /\ Leaver(c) \in User
      /\ pc[c] \in {"isOnline", "friend", "send"} => to[c] \in User
      /\ pc[c] = "getSession" => fdOf[c] \in Fd
  BY DEF TypeOK, Placed, Leaver
<1>p. pc' \in [Conn -> Steps]
  <2>1. \E s \in Steps : pc' = [pc EXCEPT ![c] = s]
    <3> USE DEF Goto, Steps, Asking, Using, Going, Clearing
    <3>1. Lose(c) \/ Leave(c) \/ (\E u \in User : LogIn(c, u)) => \E s \in Steps : pc' = [pc EXCEPT ![c] = s]
      BY DEF Lose, Leave, LoadFails, Reset, LogOut, Disconnect, LogIn
    <3>2. Keep(c) => \E s \in Steps : pc' = [pc EXCEPT ![c] = s]
      BY DEF Keep, Connect, AskData, WriteSocket, WriteHash, GoOnline, WriteData, SendMessage,
             IsOnline, FriendSocket, Send, GetId, GetSession, ReadUser, Return, After, GoOffline,
             FindSocket, DeleteSocket, DeleteUser, Close
    <3> QED
      BY <3>1, <3>2 DEF StepOf
  <2> QED
    BY <2>1 DEF TypeOK
<1> USE DEF TypeOK, own, redis, At
<1>1. CASE \E u \in User : LogIn(c, u)
  BY <1>0, <1>u, <1>p, <1>1 DEF LogIn
<1>2. CASE Connect(c)
  BY <1>0, <1>u, <1>p, <1>2 DEF Connect, FreeFds
<1>3. CASE AskData(c) \/ LoadFails(c) \/ Reset(c)
  BY <1>0, <1>u, <1>p, <1>3 DEF AskData, LoadFails, Reset
<1>4. CASE WriteSocket(c)
  BY <1>0, <1>u, <1>p, <1>4 DEF WriteSocket, NewSocket
<1>5. CASE WriteHash(c)
  BY <1>0, <1>u, <1>p, <1>5 DEF WriteHash, Holder
<1>6. CASE GoOnline(c)
  BY <1>0, <1>u, <1>p, <1>6 DEF GoOnline
<1>7. CASE WriteData(c)
  BY <1>0, <1>u, <1>p, <1>7 DEF WriteData
<1>8. CASE \E u \in User : SendMessage(c, u)
  BY <1>0, <1>u, <1>p, <1>8 DEF SendMessage
<1>9. CASE IsOnline(c)
  BY <1>0, <1>u, <1>p, <1>9 DEF IsOnline
<1>10. CASE FriendSocket(c)
  BY <1>0, <1>u, <1>p, <1>10 DEF FriendSocket
<1>11. CASE Send(c)
  BY <1>0, <1>u, <1>p, <1>11 DEF Send
<1>12. CASE LogOut(c)
  BY <1>0, <1>u, <1>p, <1>12 DEF LogOut
<1>13. CASE Disconnect(c)
  BY <1>0, <1>u, <1>p, <1>13 DEF Disconnect
<1>14. CASE GetId(c)
  BY <1>0, <1>u, <1>p, <1>14 DEF GetId
<1>15. CASE GetSession(c)
  BY <1>0, <1>u, <1>p, <1>15 DEF GetSession
<1>16. CASE ReadUser(c)
  BY <1>0, <1>u, <1>p, <1>16 DEF ReadUser, Return
<1>17. CASE GoOffline(c)
  BY <1>0, <1>u, <1>p, <1>17 DEF GoOffline, Offline
<1>18. CASE FindSocket(c)
  BY <1>0, <1>u, <1>p, <1>18 DEF FindSocket
<1>19. CASE DeleteSocket(c)
  BY <1>0, <1>u, <1>p, <1>19 DEF DeleteSocket, NoHolder
<1>20. CASE DeleteUser(c)
  BY <1>0, <1>u, <1>p, <1>20 DEF DeleteUser, NoSocket, Return
<1>21. CASE Close(c)
  BY <1>0, <1>u, <1>p, <1>21 DEF Close
<1> HIDE DEF TypeOK, own, redis, At
<1> QED
  BY <1>1, <1>2, <1>3, <1>4, <1>5, <1>6, <1>7, <1>8, <1>9, <1>10, <1>11,
     <1>12, <1>13, <1>14, <1>15, <1>16, <1>17, <1>18, <1>19, <1>20, <1>21 DEF StepOf, Lose, Leave, Keep

\* A step of one connection leaves what is the others' own.
LEMMA OthersKeep ==
    ASSUME TypeOK, NEW c \in Conn, StepOf(c), NEW d \in Conn \ {c}
    PROVE  /\ pc'[d] = pc[d] /\ user'[d] = user[d] /\ fdOf'[d] = fdOf[d] /\ key'[d] = key[d]
           /\ found'[d] = found[d] /\ leaving'[d] = leaving[d]
           /\ d \in asked' <=> d \in asked
           /\ d \in served' <=> d \in served
<1> USE DEF TypeOK, At, Goto, own, redis
<1>1. CASE (\E u \in User : LogIn(c, u)) \/ Connect(c) \/ AskData(c) \/ WriteSocket(c) \/ WriteHash(c)
  BY <1>1 DEF LogIn, Connect, AskData, WriteSocket, WriteHash
<1>2. CASE LoadFails(c) \/ GoOnline(c) \/ WriteData(c) \/ (\E u \in User : SendMessage(c, u))
  BY <1>2 DEF LoadFails, GoOnline, WriteData, SendMessage
<1>3. CASE IsOnline(c) \/ FriendSocket(c) \/ Send(c) \/ LogOut(c) \/ Disconnect(c) \/ Reset(c)
  BY <1>3 DEF IsOnline, FriendSocket, Send, LogOut, Disconnect, Reset
<1>4. CASE GetId(c) \/ GetSession(c) \/ ReadUser(c) \/ GoOffline(c) \/ FindSocket(c)
  BY <1>4 DEF GetId, GetSession, ReadUser, Return, After, GoOffline, FindSocket
<1>5. CASE DeleteSocket(c) \/ DeleteUser(c) \/ Close(c)
  BY <1>5 DEF DeleteSocket, DeleteUser, Return, After, Close
<1> QED
  BY <1>1, <1>2, <1>3, <1>4, <1>5 DEF StepOf, Lose, Leave, Keep

\* What has once happened stays noted; a user is the connection's for good.
LEMMA NotesStay ==
    ASSUME TypeOK, NEW c \in Conn, StepOf(c)
    PROVE  /\ twice => twice'
           /\ early => early'
           /\ lossy => lossy'
           /\ user'[c] = user[c] \/ pc[c] = "new"
BY DEF StepOf, Lose, Leave, Keep, LogIn, LogOut, Disconnect, LoadFails, Reset, Connect, AskData,
       WriteSocket, WriteHash, GoOnline, WriteData, SendMessage, IsOnline, FriendSocket, Send, GetId,
       GetSession, ReadUser, GoOffline, FindSocket, DeleteSocket, DeleteUser, Close, own, redis, At, TypeOK

\* What is known of positions, descriptors and users.
LEMMA PlacesKept ==
    ASSUME TypeOK, \A d \in Conn : Placed(d), FdsDistinct, UsersDistinct, HoldersKnown,
           NEW c \in Conn, StepOf(c)
    PROVE  (\A d \in Conn : Placed(d))' /\ FdsDistinct' /\ UsersDistinct' /\ HoldersKnown'
<1>0. /\ TypeOK' /\ Placed(c)
      /\ pc \in [Conn -> Steps] /\ user \in [Conn -> User \cup {"nobody"}]
      /\ fdOf \in [Conn -> Fd \cup {None}] /\ key \in [Conn -> Conn]
      /\ to \in [Conn -> User \cup {"nobody"}] /\ leaving \in [Conn -> BOOLEAN]
      /\ holder \in [Fd -> Conn \cup {"nobody"}]
      /\ None \notin Fd
  BY TypesKept DEF TypeOK, Fd, None
<1>n. /\ twice => twice'
      /\ early => early'
      /\ user'[c] = user[c] \/ pc[c] = "new"
  BY NotesStay
<1>u. \A d \in Conn : user[d] # "nobody" => user'[d] = user[d]
  BY <1>n, OthersKeep DEF Placed
<1>1. ASSUME NEW d \in Conn \ {c} PROVE Placed(d)'
  <2>1. /\ pc'[d] = pc[d] /\ user'[d] = user[d] /\ fdOf'[d] = fdOf[d] /\ key'[d] = key[d]
        /\ leaving'[d] = leaving[d]
        /\ (d \in asked' <=> d \in asked) /\ (d \in served' <=> d \in served)
    BY OthersKeep
  <2>2. to'[d] = to[d]
    BY <1>0 DEF StepOf, Lose, Leave, Keep, LogIn, LogOut, Disconnect, LoadFails, Reset, Connect,
           AskData, WriteSocket, WriteHash, GoOnline, WriteData, SendMessage, IsOnline,
           FriendSocket, Send, GetId, GetSession, ReadUser, Return, GoOffline, FindSocket,
           DeleteSocket, DeleteUser, Close, own
  <2>3. key[d] \in Conn /\ (user[key[d]] # "nobody" => user'[key[d]] # "nobody")
    BY <1>0, <1>u
  <2> QED
    BY <1>n, <2>1, <2>2, <2>3 DEF Placed, Asking, Using, Going, Clearing
<1>2. Placed(c)'
  <2> USE <1>0, <1>n DEF Placed, At, Goto, own, Asking, Using, Going, Clearing
  <2>1. CASE \E u \in User : LogIn(c, u)
    BY <2>1, NobodyAssumption DEF LogIn
  <2>2. CASE Connect(c)
    BY <2>2 DEF Connect, FreeFds
  <2>3. CASE AskData(c) \/ LoadFails(c) \/ Reset(c)
    BY <2>3 DEF AskData, LoadFails, Reset
  <2>4. CASE WriteSocket(c) \/ WriteHash(c)
    BY <2>4 DEF WriteSocket, WriteHash
  <2>5. CASE GoOnline(c) \/ WriteData(c)
    BY <2>5 DEF GoOnline, WriteData
  <2>6. CASE \E u \in User : SendMessage(c, u)
    BY <2>6, NobodyAssumption DEF SendMessage
  <2>7. CASE IsOnline(c) \/ FriendSocket(c) \/ Send(c)
    BY <2>7 DEF IsOnline, FriendSocket, Send
  <2>8. CASE LogOut(c)
    BY <2>8 DEF LogOut
  <2>9. CASE Disconnect(c)
    BY <2>9 DEF Disconnect
  <2>10. CASE GetId(c)
    BY <2>10 DEF GetId
  <2>11. CASE GetSession(c)
    BY <2>11 DEF GetSession, HoldersKnown
  <2>12. CASE ReadUser(c)
    BY <2>12 DEF ReadUser, Return, After
  <2>13. CASE GoOffline(c) \/ FindSocket(c) \/ DeleteSocket(c)
    BY <2>13 DEF GoOffline, FindSocket, DeleteSocket
  <2>14. CASE DeleteUser(c)
    BY <2>14 DEF DeleteUser, Return, After
  <2>15. CASE Close(c)
    BY <2>15 DEF Close
  <2> QED
    BY <2>1, <2>2, <2>3, <2>4, <2>5, <2>6, <2>7, <2>8,
       <2>9, <2>10, <2>11, <2>12, <2>13, <2>14, <2>15 DEF StepOf, Lose, Leave, Keep
<1>3. FdsDistinct'
  <2>1. fdOf'[c] \in {fdOf[c], None} \/ \A d \in Conn \ {c} : fdOf'[c] # fdOf[d]
    BY <1>0 DEF StepOf, Lose, Leave, Keep, LogIn, LogOut, Disconnect, LoadFails, Reset, Connect,
           FreeFds, AskData, WriteSocket, WriteHash, GoOnline, WriteData, SendMessage, IsOnline,
           FriendSocket, Send, GetId, GetSession, ReadUser, GoOffline, FindSocket,
           DeleteSocket, DeleteUser, Close
  <2> QED
    BY <2>1, OthersKeep DEF FdsDistinct
<1>4. UsersDistinct'
  <2> SUFFICES ASSUME ~twice', NEW d \in Conn \ {c}, Open(c)', Open(d)'
               PROVE  user'[d] # user'[c]
    <3>1. ASSUME ~twice', NEW d \in Conn \ {c}, NEW e \in Conn \ {c}, Open(d)', Open(e)',
                 user'[d] = user'[e]
          PROVE  d = e
      BY <1>n, <3>1, OthersKeep DEF UsersDistinct, Open
    <3> QED
      BY <3>1 DEF UsersDistinct
  <2>1. Open(d) /\ user'[d] = user[d]
    BY OthersKeep DEF Open
  <2>2. CASE pc[c] = "new"
    <3>1. PICK u \in User : LogIn(c, u)
      BY <2>2 DEF StepOf, Lose, Leave, Keep, LoadFails, Reset, LogOut, Disconnect, Connect, AskData,
           WriteSocket, WriteHash, GoOnline, WriteData, SendMessage, IsOnline,
           FriendSocket, Send, GetId, GetSession, ReadUser, GoOffline, FindSocket,
           DeleteSocket, DeleteUser, Close, At
    <3>2. user'[c] = u /\ (user[d] = u => pc[d] = "closed")
      BY <1>0, <3>1 DEF LogIn
    <3> QED
      BY <2>1, <3>2 DEF Open
  <2>3. CASE pc[c] # "new"
    <3>1. pc[c] # "closed"
      BY DEF StepOf, Lose, Leave, Keep, LogIn, LoadFails, Reset, LogOut, Disconnect, Connect, AskData,
           WriteSocket, WriteHash, GoOnline, WriteData, SendMessage, IsOnline,
           FriendSocket, Send, GetId, GetSession, ReadUser, GoOffline, FindSocket,
           DeleteSocket, DeleteUser, Close, At
    <3> QED
      BY <1>n, <2>1, <2>3, <3>1 DEF UsersDistinct, Open
  <2> QED
    BY <2>2, <2>3
<1>5. HoldersKnown'
  <2>1. ASSUME NEW f \in Fd PROVE holder'[f] \in {"nobody", c, holder[f]}
    BY <1>0 DEF StepOf, Lose, Leave, Keep, LogIn, LogOut, Disconnect, LoadFails, Reset, Connect,
           AskData, WriteSocket, WriteHash, Holder, GoOnline, WriteData, SendMessage, IsOnline,
           FriendSocket, Send, GetId, GetSession, ReadUser, GoOffline, FindSocket,
           DeleteSocket, NoHolder, DeleteUser, Close, redis
  <2>2. user'[c] # "nobody"
    <3>1. pc'[c] # "new"
      BY <1>0 DEF StepOf, Lose, Leave, Keep, LogIn, LogOut, Disconnect, LoadFails, Reset, Connect,
           AskData, WriteSocket, WriteHash, GoOnline, WriteData, SendMessage, IsOnline,
           FriendSocket, Send, GetId, GetSession, ReadUser, Return, After, GoOffline, FindSocket,
           DeleteSocket, DeleteUser, Close, Goto
    <3> QED
      BY <1>2, <3>1 DEF Placed
  <2> QED
    BY <1>0, <1>u, <2>1, <2>2 DEF HoldersKnown
<1> QED
  BY <1>1, <1>2, <1>3, <1>4, <1>5

\* A step changes the hashes of its own user and its own descriptor only.
LEMMA Footprint ==
    ASSUME TypeOK, NEW c \in Conn, Placed(c), CleansItsOwn(c), StepOf(c)
    PROVE  /\ \A u \in User : u # user'[c] =>
                /\ socketOf'[u] = socketOf[u]
                /\ (u \in online' <=> u \in online) /\ (u \in loaded' <=> u \in loaded)
           /\ \A f \in Fd : f # fdOf[c] => holder'[f] = holder[f]
<1>0. /\ user \in [Conn -> User \cup {"nobody"}] /\ socketOf \in [User -> Fd \cup {None}]
      /\ holder \in [Fd -> Conn \cup {"nobody"}]
  BY DEF TypeOK
<1> USE <1>0 DEF At, own, redis
<1>1. CASE \E u \in User : LogIn(c, u)
  BY <1>1 DEF LogIn
<1>2. CASE WriteSocket(c)
  BY <1>2 DEF WriteSocket, NewSocket
<1>3. CASE WriteHash(c)
  BY <1>3 DEF WriteHash, Holder
<1>4. CASE GoOnline(c) \/ WriteData(c)
  BY <1>4 DEF GoOnline, WriteData
<1>5. CASE GoOffline(c)
  BY <1>5 DEF GoOffline, Offline, Leaver, CleansItsOwn, Clearing
<1>6. CASE DeleteSocket(c)
  BY <1>6 DEF DeleteSocket, NoHolder, CleansItsOwn
<1>7. CASE DeleteUser(c)
  BY <1>7 DEF DeleteUser, NoSocket, Leaver, CleansItsOwn, Clearing
<1>8. CASE UNCHANGED redis
  BY <1>8
<1> QED
  BY <1>1, <1>2, <1>3, <1>4, <1>5, <1>6, <1>7, <1>8
  DEF StepOf, Lose, Leave, Keep, LogOut, Disconnect, LoadFails, Reset, Connect, AskData,
      SendMessage, IsOnline, FriendSocket, Send, GetId, GetSession, ReadUser, FindSocket, Close

\* Nobody else's hashes are touched.
LEMMA Apart ==
    ASSUME IInv, NEW c \in Conn, StepOf(c), Sound', NEW d \in Conn \ {c}, Open(d)
    PROVE  /\ socketOf'[user[d]] = socketOf[user[d]]
           /\ (user[d] \in online' <=> user[d] \in online)
           /\ (user[d] \in loaded' <=> user[d] \in loaded)
           /\ fdOf[d] # None => holder'[fdOf[d]] = holder[fdOf[d]]
<1>1. Sound /\ ~twice'
  BY NotesStay DEF IInv, Sound
<1>2. TypeOK /\ Placed(c) /\ Placed(d) /\ CleansItsOwn(c) /\ FdsDistinct
  BY <1>1 DEF IInv
<1>3. UsersDistinct /\ UsersDistinct' /\ Placed(c)'
  BY PlacesKept DEF IInv
<1>4. user[d] \in User /\ user'[d] = user[d] /\ Open(d)'
  BY <1>2, OthersKeep DEF TypeOK, Placed, Open
<1>5. user[d] # user'[c]
  <2>1. CASE Open(c)'
    BY <1>1, <1>3, <1>4, <2>1 DEF UsersDistinct
  <2>2. CASE Open(c) /\ user'[c] = user[c]
    BY <1>1, <1>3, <2>2 DEF UsersDistinct, Sound
  <2>3. Open(c)' \/ (Open(c) /\ user'[c] = user[c])
    <3>1. pc[c] # "closed" /\ (pc[c] = "new" => pc'[c] = "loggedIn")
      BY <1>2 DEF StepOf, Lose, Leave, Keep, LogIn, LogOut, Disconnect, LoadFails, Reset, Connect,
         AskData, WriteSocket, WriteHash, GoOnline, WriteData, SendMessage, IsOnline,
         FriendSocket, Send, GetId, GetSession, ReadUser, GoOffline, FindSocket,
         DeleteSocket, DeleteUser, Close, At, Goto, TypeOK
    <3> QED
      BY <1>2, <3>1, NotesStay DEF Open
  <2> QED
    BY <2>1, <2>2, <2>3
<1>6. fdOf[d] # None => fdOf[d] \in Fd /\ fdOf[d] # fdOf[c]
  BY <1>2 DEF TypeOK, FdsDistinct
<1> QED
  BY <1>2, <1>4, <1>5, <1>6, Footprint

\* The hashes of a connection, and what it cleans up.
LEMMA LinksKept ==
    ASSUME IInv, NEW c \in Conn, StepOf(c), Sound'
    PROVE  (\A d \in Conn : Linked(d) /\ CleansItsOwn(d) /\ Reached(d))'
<1>1. Sound /\ ~twice'
  BY NotesStay DEF IInv, Sound
<1>2. /\ TypeOK /\ FdsDistinct /\ UsersDistinct /\ HoldersHold /\ LoadedAreUsed
      /\ \A d \in Conn : Placed(d) /\ Linked(d) /\ CleansItsOwn(d) /\ Reached(d)
  BY <1>1 DEF IInv
<1>3. ASSUME NEW d \in Conn \ {c} PROVE Linked(d)' /\ CleansItsOwn(d)' /\ Reached(d)'
  <2>1. /\ pc'[d] = pc[d] /\ user'[d] = user[d] /\ fdOf'[d] = fdOf[d] /\ key'[d] = key[d]
        /\ found'[d] = found[d]
        /\ (d \in asked' <=> d \in asked) /\ (d \in served' <=> d \in served)
    BY <1>2, OthersKeep
  <2>2. CleansItsOwn(d)'
    BY <1>2, <2>1 DEF CleansItsOwn, Clearing
  <2>3. CASE Open(d)
    <3>1. /\ socketOf'[user[d]] = socketOf[user[d]]
          /\ (user[d] \in online' <=> user[d] \in online)
          /\ (user[d] \in loaded' <=> user[d] \in loaded)
          /\ fdOf[d] # None => holder'[fdOf[d]] = holder[fdOf[d]]
      BY <2>3, Apart
    <3>2. Wrote(d)' => Wrote(d) /\ fdOf[d] # None
      BY <1>2, <2>1, <3>1 DEF Wrote, Placed, Using, Going
    <3> QED
      BY <1>2, <2>1, <2>2, <3>1, <3>2 DEF Linked, Reached
  <2>4. CASE ~Open(d)
    <3>1. ~Wrote(d)' /\ d \notin served' /\ pc'[d] \notin {"hash", "data"}
      BY <1>2, <2>1, <2>4 DEF Open, Wrote, Placed, Asking, Using, Going
    <3> QED
      BY <2>2, <3>1 DEF Linked, Reached
  <2> QED
    BY <2>3, <2>4
\* Who has been loaded is being cleaned up or has asked.
<1>4. ~lossy /\ user[c] \in loaded /\ Open(c) => Uses(c)
  BY <1>1, <1>2 DEF Clean, Sound, LoadedAreUsed, UsersDistinct, Open, Uses, Asking, Using, Going, Clearing
\* The session found at its socket is its own.
<1>5. pc[c] = "getSession" /\ holder[fdOf[c]] # "nobody" => holder[fdOf[c]] = c
  <2>1. CASE c \in asked
    BY <1>2, <2>1 DEF Linked, Wrote, Going
  <2>2. CASE c \notin asked /\ pc[c] = "getSession"
    <3>1. Clean /\ fdOf[c] \in Fd
      BY <1>1, <1>2, <2>2 DEF Placed, Going, Sound, Clean, TypeOK
    <3> QED
      BY <1>2, <3>1 DEF HoldersHold, FdsDistinct, TypeOK, Fd, None
  <2> QED
    BY <2>1, <2>2
<1>6. /\ pc \in [Conn -> Steps] /\ user \in [Conn -> User \cup {"nobody"}]
      /\ fdOf \in [Conn -> Fd \cup {None}] /\ key \in [Conn -> Conn]
      /\ found \in [Conn -> Fd \cup {None}] /\ leaving \in [Conn -> BOOLEAN]
      /\ socketOf \in [User -> Fd \cup {None}] /\ holder \in [Fd -> Conn \cup {"nobody"}]
  BY <1>2 DEF TypeOK
<1>7. user[c] # "nobody" => user[c] \in User
  BY <1>6
<1>8. fdOf[c] # None => fdOf[c] \in Fd
  BY <1>6
<1>9. Placed(c) /\ Linked(c) /\ CleansItsOwn(c) /\ Reached(c)
  BY <1>2
<1>10. Linked(c)' /\ CleansItsOwn(c)' /\ Reached(c)'
  <2> USE <1>6, <1>7, <1>8, <1>9 DEF At, Goto, own, redis, Placed, Linked, Wrote, CleansItsOwn, Reached,
          Asking, Using, Going, Clearing
  <2>1. CASE \E u \in User : LogIn(c, u)
    BY <2>1 DEF LogIn
  <2>2. CASE Connect(c)
    BY <2>2 DEF Connect
  <2>3. CASE AskData(c)
    BY <2>3 DEF AskData
  <2>4. CASE WriteSocket(c)
    BY <2>4 DEF WriteSocket, NewSocket
  <2>5. CASE WriteHash(c)
    BY <2>5 DEF WriteHash, Holder
  <2>6. CASE LoadFails(c) \/ Reset(c)
    BY <2>6 DEF LoadFails, Reset
  <2>7. CASE GoOnline(c) \/ WriteData(c)
    BY <2>7 DEF GoOnline, WriteData
  <2>8. CASE \E u \in User : SendMessage(c, u)
    BY <2>8 DEF SendMessage
  <2>9. CASE IsOnline(c) \/ FriendSocket(c) \/ Send(c)
    BY <2>9 DEF IsOnline, FriendSocket, Send
  <2>10. CASE LogOut(c)
    <3>1. c \notin asked => user[c] \notin loaded
      BY <1>1, <1>2, <1>4, <2>10, NotesStay DEF LogOut, Sound, Open, Uses
    <3> QED
      BY <2>10, <3>1 DEF LogOut
  <2>11. CASE Disconnect(c)
    BY <2>11 DEF Disconnect
  <2>12. CASE GetId(c)
    BY <2>12 DEF GetId
  <2>13. CASE GetSession(c)
    <3>1. user[c] \in loaded => c \in asked
      BY <1>1, <1>4, <2>13 DEF GetSession, Sound, Open, Uses
    <3> QED
      BY <1>5, <2>13, <3>1 DEF GetSession
  <2>14. CASE ReadUser(c)
    BY <2>14 DEF ReadUser, Return, After, Leaver
  <2>15. CASE GoOffline(c)
    BY <2>15 DEF GoOffline, Offline, Leaver
  <2>16. CASE FindSocket(c)
    BY <2>16 DEF FindSocket, Leaver
  <2>17. CASE DeleteSocket(c)
    BY <2>17 DEF DeleteSocket
  <2>18. CASE DeleteUser(c)
    BY <2>18 DEF DeleteUser, Return, After, Leaver
  <2>19. CASE Close(c)
    BY <2>19 DEF Close
  <2> QED
    BY <2>1, <2>2, <2>3, <2>4, <2>5, <2>6, <2>7, <2>8, <2>9, <2>10, <2>11, <2>12, <2>13, <2>14,
       <2>15, <2>16, <2>17, <2>18, <2>19 DEF StepOf, Lose, Leave, Keep
<1> QED
  BY <1>3, <1>10

\* Without losses: every hash has someone who will delete it.
LEMMA HeldKept ==
    ASSUME IInv, NEW c \in Conn, StepOf(c), Clean'
    PROVE  HoldersHold' /\ LoadedAreUsed' /\ SocketsAreUsed'
<1>1. Clean /\ Sound /\ Sound' /\ ~twice' /\ ~lossy'
  BY NotesStay DEF IInv, Clean, Sound
<1>2. /\ TypeOK /\ FdsDistinct /\ UsersDistinct /\ HoldersHold /\ LoadedAreUsed /\ SocketsAreUsed
      /\ \A d \in Conn : Placed(d) /\ Linked(d) /\ CleansItsOwn(d)
  BY <1>1 DEF IInv
<1>3. /\ pc \in [Conn -> Steps] /\ user \in [Conn -> User \cup {"nobody"}]
      /\ fdOf \in [Conn -> Fd \cup {None}] /\ key \in [Conn -> Conn]
      /\ found \in [Conn -> Fd \cup {None}] /\ leaving \in [Conn -> BOOLEAN]
      /\ socketOf \in [User -> Fd \cup {None}] /\ holder \in [Fd -> Conn \cup {"nobody"}]
      /\ loaded \subseteq User /\ None \notin Fd
  BY <1>2 DEF TypeOK, Fd, None
<1>4. Placed(c) /\ Linked(c) /\ CleansItsOwn(c)
  BY <1>2
<1>5. Leave(c) \/ (\E u \in User : LogIn(c, u)) \/ Keep(c)
  BY <1>1 DEF StepOf
<1>6. user[c] \in loaded /\ Open(c) => Uses(c)
  BY <1>1, <1>2 DEF Clean, LoadedAreUsed, UsersDistinct, Open, Uses, Asking, Using, Going, Clearing
<1>7. pc[c] # "new" => user[c] \in User
  BY <1>3, <1>4 DEF Placed
<1>8. Open(c) /\ socketOf[user[c]] # None =>
        user[c] \in loaded \/ pc[c] \in {"hash", "online", "data"}
  BY <1>1, <1>2, <1>7 DEF Clean, SocketsAreUsed, UsersDistinct, Open
<1>9. \A f \in Fd : holder[f] = c => fdOf[c] = f /\ Holds(c)
  BY <1>1, <1>2, NobodyAssumption DEF HoldersHold
\* What the step does to the connection itself.
<1>10. /\ \A f \in Fd : holder'[f] = c => fdOf'[c] = f /\ Holds(c)'
       /\ user'[c] \in loaded' => Uses(c)'
       /\ (user'[c] \in User /\ socketOf'[user'[c]] # None) =>
            (user'[c] \in loaded' \/ pc'[c] \in {"hash", "online", "data"})
  <2> USE <1>3, <1>4, <1>6, <1>7, <1>8, <1>9 DEF At, Goto, own, redis, Open, Holds, Uses,
          Asking, Using, Going, Clearing
  <2>1. CASE \E u \in User : LogIn(c, u)
    <3>0. PICK u \in User : LogIn(c, u)
      BY <2>1
    <3>1. \A d \in Conn : user[d] = u => pc[d] = "closed"
      BY <1>1, <3>0 DEF LogIn
    <3>2. u \notin loaded
      BY <1>1, <1>2, <3>1 DEF LoadedAreUsed
    <3>3. socketOf[u] = None
      BY <1>1, <1>2, <3>0, <3>1, <3>2 DEF SocketsAreUsed
    <3> QED
      BY <3>0, <3>2, <3>3 DEF LogIn
  <2>2. CASE Connect(c)
    BY <2>2 DEF Connect
  <2>3. CASE AskData(c)
    BY <2>3 DEF AskData
  <2>4. CASE WriteSocket(c)
    BY <2>4 DEF WriteSocket, NewSocket
  <2>5. CASE WriteHash(c)
    BY <2>5 DEF WriteHash, Holder, Placed
  <2>6. CASE GoOnline(c) \/ WriteData(c)
    BY <2>6 DEF GoOnline, WriteData, Placed
  <2>7. CASE \E u \in User : SendMessage(c, u)
    BY <2>7 DEF SendMessage
  <2>8. CASE IsOnline(c) \/ FriendSocket(c) \/ Send(c)
    BY <2>8 DEF IsOnline, FriendSocket, Send
  <2>9. CASE LogOut(c) \/ Disconnect(c)
    BY <2>9 DEF LogOut, Disconnect
  <2>10. CASE GetId(c)
    BY <2>10 DEF GetId
  <2>11. CASE GetSession(c)
    BY <2>11, NobodyAssumption DEF GetSession, Linked, Wrote, Placed
  <2>12. CASE ReadUser(c)
    BY <2>12 DEF ReadUser, Return, After, Leaver, CleansItsOwn
  <2>13. CASE GoOffline(c)
    BY <2>13 DEF GoOffline
  <2>14. CASE FindSocket(c)
    BY <2>14 DEF FindSocket, Leaver, CleansItsOwn, Linked, Wrote, Placed
  <2>15. CASE DeleteSocket(c)
    BY <2>15, NobodyAssumption DEF DeleteSocket, NoHolder, CleansItsOwn, Placed
  <2>16. CASE DeleteUser(c)
    BY <2>16 DEF DeleteUser, NoSocket, Return, After, Leaver, CleansItsOwn
  <2>17. CASE Close(c)
    BY <2>17 DEF Close
  <2> QED
    BY <1>5, <2>1, <2>2, <2>3, <2>4, <2>5, <2>6, <2>7, <2>8, <2>9, <2>10, <2>11, <2>12, <2>13,
       <2>14, <2>15, <2>16, <2>17 DEF Leave, Keep
\* And to the others.
<1>11. ASSUME NEW d \in Conn \ {c}, Open(d)
       PROVE  /\ pc'[d] = pc[d] /\ user'[d] = user[d] /\ fdOf'[d] = fdOf[d]
              /\ (d \in asked' <=> d \in asked)
              /\ (user[d] \in loaded' <=> user[d] \in loaded)
  BY <1>1, <1>2, <1>11, OthersKeep, Apart
<1>12. user[c] # "nobody" => user'[c] = user[c]
  BY <1>2, <1>4, NotesStay DEF Placed
<1>13. /\ \A u \in User : u # user'[c] =>
            socketOf'[u] = socketOf[u] /\ (u \in loaded' <=> u \in loaded)
       /\ \A f \in Fd : f # fdOf[c] => holder'[f] = holder[f]
  BY <1>2, Footprint
<1>14. HoldersHold'
  <2> SUFFICES ASSUME NEW f \in Fd, holder'[f] # "nobody", holder'[f] # c
               PROVE  (fdOf[holder[f]] = f /\ Holds(holder[f]))'
    BY <1>10 DEF HoldersHold, Holds
  <2>1. holder'[f] = holder[f]
    BY <1>3 DEF StepOf, Lose, Leave, Keep, LogIn, LogOut, Disconnect, LoadFails, Reset, Connect,
       AskData, WriteSocket, WriteHash, Holder, GoOnline, WriteData, SendMessage, IsOnline,
       FriendSocket, Send, GetId, GetSession, ReadUser, GoOffline, FindSocket,
       DeleteSocket, NoHolder, DeleteUser, Close, redis
  <2>2. /\ holder[f] \in Conn \ {c} /\ fdOf[holder[f]] = f /\ Holds(holder[f])
        /\ Open(holder[f])
    BY <1>1, <1>2, <1>3, <2>1 DEF HoldersHold, Holds, Open, Using, Going, Clearing
  <2> QED
    BY <1>11, <2>1, <2>2 DEF Holds, Using, Going, Clearing
<1>15. LoadedAreUsed'
  <2> SUFFICES ASSUME NEW u \in User, u \in loaded' PROVE \E d \in Conn : (user[d] = u /\ Uses(d))'
    <3>1. loaded' \subseteq User
      BY <1>2, <1>4, TypesKept DEF TypeOK
    <3> QED
      BY <3>1 DEF LoadedAreUsed
  <2>1. CASE u = user'[c]
    BY <1>10, <2>1
  <2>2. CASE u # user'[c]
    <3>1. PICK d \in Conn : user[d] = u /\ Uses(d)
      BY <1>1, <1>2, <1>13, <2>2 DEF LoadedAreUsed
    <3>2. d # c /\ Open(d)
      BY <1>12, <2>2, <3>1, NobodyAssumption DEF Uses, Open, Asking, Using, Going, Clearing
    <3> QED
      BY <1>11, <3>1, <3>2 DEF Uses, Asking, Using, Going, Clearing
  <2> QED
    BY <2>1, <2>2
<1>16. SocketsAreUsed'
  <2> SUFFICES ASSUME NEW u \in User, socketOf'[u] # None, u \notin loaded'
               PROVE  \E d \in Conn : (user[d] = u /\ pc[d] \in {"hash", "online", "data"})'
    BY DEF SocketsAreUsed
  <2>1. CASE u = user'[c]
    BY <1>10, <2>1
  <2>2. CASE u # user'[c]
    <3>1. PICK d \in Conn : user[d] = u /\ pc[d] \in {"hash", "online", "data"}
      BY <1>1, <1>2, <1>13, <2>2 DEF SocketsAreUsed
    <3>2. d # c /\ Open(d)
      BY <1>12, <2>2, <3>1, NobodyAssumption DEF Open
    <3> QED
      BY <1>11, <3>1, <3>2
  <2> QED
    BY <2>1, <2>2
<1> QED
  BY <1>14, <1>15, <1>16

\* Without losses and early departures: who leaves takes everything along.
LEMMA OrderKept ==
    ASSUME IInv, NEW c \in Conn, StepOf(c), Orderly'
    PROVE  (\A d \in Conn : LoadedFirst(d))' /\ OnlineAreOpen'
<1>1. Orderly /\ Sound /\ Sound' /\ ~twice' /\ ~lossy' /\ ~early' /\ ~twice /\ ~early
  BY NotesStay DEF IInv, Orderly, Clean, Sound
<1>2. /\ TypeOK /\ UsersDistinct /\ OnlineAreOpen
      /\ \A d \in Conn : Placed(d) /\ Linked(d) /\ CleansItsOwn(d) /\ LoadedFirst(d)
  BY <1>1 DEF IInv
<1>3. /\ pc \in [Conn -> Steps] /\ user \in [Conn -> User \cup {"nobody"}]
      /\ fdOf \in [Conn -> Fd \cup {None}] /\ key \in [Conn -> Conn]
      /\ leaving \in [Conn -> BOOLEAN] /\ online \subseteq User
  BY <1>2 DEF TypeOK
<1>4. Placed(c) /\ Linked(c) /\ CleansItsOwn(c) /\ LoadedFirst(c)
  BY <1>2
<1>5. Leave(c) \/ (\E u \in User : LogIn(c, u)) \/ Keep(c)
  BY <1>1 DEF StepOf
<1>6. Open(c) /\ user[c] \in online => pc[c] \notin {"findSocket", "delSocket", "delUser", "close"}
  BY <1>1, <1>2, <1>3 DEF OnlineAreOpen, UsersDistinct, Open
<1>7. ASSUME NEW d \in Conn \ {c}, Open(d)
      PROVE  /\ pc'[d] = pc[d] /\ user'[d] = user[d]
             /\ (d \in asked' <=> d \in asked)
             /\ (user[d] \in loaded' <=> user[d] \in loaded)
  BY <1>1, <1>2, <1>7, OthersKeep, Apart
<1>8. ASSUME NEW d \in Conn \ {c} PROVE LoadedFirst(d)'
  <2>1. CASE Open(d)
    BY <1>2, <1>7, <2>1 DEF LoadedFirst, Using, Going, Clearing
  <2>2. CASE ~Open(d)
    <3>1. pc'[d] = pc[d]
      BY <1>2, OthersKeep
    <3> QED
      BY <2>2, <3>1 DEF Open, LoadedFirst, Using, Going, Clearing
  <2> QED
    BY <2>1, <2>2
\* What the step does to the connection itself.
<1>9. /\ LoadedFirst(c)'
      /\ user'[c] \in online' =>
            pc'[c] \notin {"new", "findSocket", "delSocket", "delUser", "close", "closed"}
  <2> USE <1>1, <1>3, <1>4, <1>6 DEF At, Goto, own, redis, Open, LoadedFirst, Placed,
          Asking, Using, Going, Clearing
  <2>1. CASE \E u \in User : LogIn(c, u)
    BY <2>1 DEF LogIn
  <2>2. CASE Connect(c) \/ AskData(c)
    BY <2>2 DEF Connect, AskData
  <2>3. CASE WriteSocket(c) \/ WriteHash(c)
    BY <2>3 DEF WriteSocket, WriteHash
  <2>4. CASE GoOnline(c) \/ WriteData(c)
    BY <2>4 DEF GoOnline, WriteData
  <2>5. CASE \E u \in User : SendMessage(c, u)
    BY <2>5 DEF SendMessage
  <2>6. CASE IsOnline(c) \/ FriendSocket(c) \/ Send(c)
    BY <2>6 DEF IsOnline, FriendSocket, Send
  <2>7. CASE LogOut(c) \/ Disconnect(c)
    BY <2>7 DEF LogOut, Disconnect
  <2>8. CASE GetId(c)
    BY <2>8 DEF GetId
  <2>9. CASE GetSession(c)
    BY <2>9, NobodyAssumption DEF GetSession, Linked, Wrote
  <2>10. CASE ReadUser(c)
    BY <2>10 DEF ReadUser, Return, After, Leaver, CleansItsOwn
  <2>11. CASE GoOffline(c)
    BY <2>11 DEF GoOffline, Offline, Leaver, CleansItsOwn
  <2>12. CASE FindSocket(c) \/ DeleteSocket(c)
    BY <2>12 DEF FindSocket, DeleteSocket
  <2>13. CASE DeleteUser(c)
    BY <2>13 DEF DeleteUser, Return, After
  <2>14. CASE Close(c)
    BY <2>14 DEF Close
  <2> QED
    BY <1>5, <2>1, <2>2, <2>3, <2>4, <2>5, <2>6, <2>7, <2>8, <2>9, <2>10, <2>11, <2>12,
       <2>13, <2>14 DEF Leave, Keep
<1>10. OnlineAreOpen'
  <2> SUFFICES ASSUME NEW u \in online'
               PROVE  \E d \in Conn : (/\ user[d] = u
                                       /\ pc[d] \notin {"new", "findSocket", "delSocket",
                                                        "delUser", "close", "closed"})'
    BY DEF OnlineAreOpen
  <2>1. CASE u = user'[c]
    BY <1>9, <2>1
  <2>2. CASE u # user'[c]
    <3>1. u \in online
      <4>1. u \in User
        BY <1>2, <1>4, TypesKept DEF TypeOK
      <4> QED
        BY <1>2, <2>2, <4>1, Footprint
    <3>2. PICK d \in Conn : /\ user[d] = u
                            /\ pc[d] \notin {"new", "findSocket", "delSocket", "delUser",
                                             "close", "closed"}
      BY <1>1, <1>2, <3>1 DEF OnlineAreOpen
    <3>3. d # c /\ Open(d)
      BY <1>2, <2>2, <3>2, NotesStay DEF Open
    <3> QED
      BY <1>7, <3>2, <3>3
  <2> QED
    BY <2>1, <2>2
<1> QED
  BY <1>8, <1>9, <1>10

\* atoi has an id to read.
LEMMA LivesOn ==
    ASSUME IInv, NEW c \in Conn, StepOf(c)
    PROVE  NoCrash'
<1> SUFFICES ASSUME ~early', ~twice' PROVE alive'
  BY DEF NoCrash
<1>1. ~early /\ ~twice /\ Sound /\ alive
  BY NotesStay DEF IInv, Sound, NoCrash
<1>2. Placed(c) /\ Linked(c)
  BY <1>1 DEF IInv
<1>3. CASE GetId(c)
  BY <1>1, <1>2, <1>3, NobodyAssumption DEF GetId, At, Placed, Linked, Wrote, Going
<1>4. CASE alive' = alive
  BY <1>1, <1>4
<1> QED
  BY <1>3, <1>4 DEF StepOf, Lose, Leave, Keep, LogIn, LogOut, Disconnect, LoadFails, Reset, Connect,
     AskData, WriteSocket, WriteHash, GoOnline, WriteData, SendMessage, IsOnline,
     FriendSocket, Send, GetSession, ReadUser, GoOffline, FindSocket, DeleteSocket, DeleteUser, Close

-----------------------------------------------------------------------------
(* The invariant and what follows from it.                                 *)

LEMMA Initial ==
    ASSUME Init
    PROVE  IInv
<1> USE DEF Init, Asking, Using, Going, Clearing
<1>1. TypeOK
  BY DEF TypeOK, Steps
<1>2. ASSUME NEW c \in Conn
      PROVE  Placed(c) /\ Linked(c) /\ CleansItsOwn(c) /\ Reached(c) /\ LoadedFirst(c)
  BY <1>2 DEF Placed, Linked, Wrote, CleansItsOwn, Reached, LoadedFirst
<1>3. FdsDistinct /\ UsersDistinct /\ HoldersKnown
  BY DEF FdsDistinct, UsersDistinct, HoldersKnown, Open
<1>4. HoldersHold /\ LoadedAreUsed /\ OnlineAreOpen /\ SocketsAreUsed /\ NoCrash
  BY DEF HoldersHold, LoadedAreUsed, OnlineAreOpen, SocketsAreUsed, NoCrash
<1> QED
  BY <1>1, <1>2, <1>3, <1>4 DEF IInv

LEMMA StepKept ==
    ASSUME IInv, [Next]_vars
    PROVE  IInv'
<1>1. ASSUME NEW c \in Conn, StepOf(c) PROVE IInv'
  <2>1. /\ TypeOK' /\ (\A d \in Conn : Placed(d))'
        /\ FdsDistinct' /\ UsersDistinct' /\ HoldersKnown'
    BY <1>1, TypesKept, PlacesKept DEF IInv
  <2>2. Sound' => (\A d \in Conn : Linked(d) /\ CleansItsOwn(d) /\ Reached(d))'
    BY <1>1, LinksKept
  <2>3. HoldersHold' /\ LoadedAreUsed' /\ SocketsAreUsed'
    <3>1. CASE Clean'
      BY <1>1, <3>1, HeldKept
    <3>2. CASE ~Clean'
      BY <3>2 DEF HoldersHold, LoadedAreUsed, SocketsAreUsed
    <3> QED
      BY <3>1, <3>2
  <2>4. (Orderly' => (\A d \in Conn : LoadedFirst(d))') /\ OnlineAreOpen'
    <3>1. CASE Orderly'
      BY <1>1, <3>1, OrderKept
    <3>2. CASE ~Orderly'
      BY <3>2 DEF OnlineAreOpen
    <3> QED
      BY <3>1, <3>2
  <2>5. NoCrash'
    BY <1>1, LivesOn
  <2> QED
    BY <2>1, <2>2, <2>3, <2>4, <2>5 DEF IInv
<1>2. CASE UNCHANGED vars
  <2> USE <1>2 DEF vars, own, redis, history, IInv
  <2>1. TypeOK' /\ FdsDistinct' /\ UsersDistinct' /\ HoldersKnown' /\ NoCrash'
    BY DEF TypeOK, FdsDistinct, UsersDistinct, HoldersKnown, NoCrash, Open
  <2>2. (\A d \in Conn : Placed(d))'
    BY DEF Placed
  <2>3. Sound' => (\A d \in Conn : Linked(d) /\ CleansItsOwn(d) /\ Reached(d))'
    BY DEF Sound, Linked, Wrote, CleansItsOwn, Reached
  <2>4. Orderly' => (\A d \in Conn : LoadedFirst(d))'
    BY DEF Orderly, Clean, LoadedFirst
  <2>5. HoldersHold' /\ LoadedAreUsed' /\ OnlineAreOpen' /\ SocketsAreUsed'
    BY DEF HoldersHold, LoadedAreUsed, OnlineAreOpen, SocketsAreUsed, Holds, Uses, Orderly, Clean
  <2> QED
    BY <2>1, <2>2, <2>3, <2>4, <2>5
<1> QED
  BY <1>1, <1>2, NextIsStep

\* Where each connection is, which hashes it has written and who will delete
\* them, under what has been lost, in every reachable state.
THEOREM Invariance == Spec => []IInv
<1>1. Init => IInv
  BY Initial
<1>2. IInv /\ [Next]_vars => IInv'
  BY StepKept
<1> QED
  BY <1>1, <1>2, PTL DEF Spec

\* The types of Redis' and the threads' variables.
THEOREM TypeCorrect == Spec => []TypeOK
<1>1. IInv => TypeOK
  BY DEF IInv
<1> QED
  BY <1>1, Invariance, PTL

\* Whoever is served is online, loaded and linked to his socket, however many
\* others come and go, as long as users connect once and connections are not
\* both lost and left early.
THEOREM ServedAreReachable == Spec => []ServedIsReachable
<1>1. ASSUME IInv PROVE ServedIsReachable
  <2> SUFFICES ASSUME Sound, NEW c \in served, pc[c] \in {"idle", "isOnline", "friend", "send"}
               PROVE  /\ user[c] \in online \cap loaded
                      /\ socketOf[user[c]] = fdOf[c]
                      /\ holder[fdOf[c]] = c
    BY DEF ServedIsReachable, Sound
  <2>1. c \in Conn
    BY <1>1 DEF IInv, TypeOK
  <2>2. Placed(c) /\ Linked(c) /\ Reached(c)
    BY <1>1, <2>1 DEF IInv
  <2> QED
    BY <2>2 DEF Placed, Linked, Wrote, Reached, Using
<1> QED
  BY <1>1, Invariance, PTL

\* Orderly departures leave nothing of a user in Redis, in whatever order the
\* steps of their clean-ups mix.
THEOREM NothingIsLeft == Spec => []ClosedLeavesNothing
<1>1. ASSUME IInv PROVE ClosedLeavesNothing
  <2> SUFFICES ASSUME Orderly, NEW u \in User, \A c \in Conn : user[c] = u => pc[c] = "closed"
               PROVE  /\ u \notin online \cup loaded
                      /\ socketOf[u] = None
                      /\ \A f \in Fd : holder[f] # "nobody" => user[holder[f]] # u
    BY DEF ClosedLeavesNothing, Orderly, Clean
  <2> USE <1>1 DEF IInv, Orderly, Asking, Using, Going, Clearing
  <2>1. u \notin online
    BY DEF OnlineAreOpen
  <2>2. u \notin loaded
    BY DEF LoadedAreUsed, Uses
  <2>3. socketOf[u] = None
    BY <2>2 DEF SocketsAreUsed
  <2>4. ASSUME NEW f \in Fd, holder[f] # "nobody" PROVE user[holder[f]] # u
    <3>1. holder[f] \in Conn /\ Holds(holder[f])
      BY <2>4 DEF HoldersHold, TypeOK
    <3> QED
      BY <3>1 DEF Holds
  <2> QED
    BY <2>1, <2>2, <2>3, <2>4
<1> QED
  BY <1>1, Invariance, PTL

\* No departure ends the process, unless a client left without its data or a
\* user had two connections.
THEOREM NobodyCrashesIt == Spec => []NoCrash
<1>1. IInv => NoCrash
  BY DEF IInv
<1> QED
  BY <1>1, Invariance, PTL

-----------------------------------------------------------------------------
(* As long as no two connections have been served at once and none was     *)
(* lost: a user's hash points only at a socket of his own.                 *)

Plain == ~overlap /\ ~lossy

OneServed == \A c, d \in Conn : c = d \/ pc[c] \in Rest \/ pc[d] \in Rest

\* The socket's hash names an open connection of the user at that socket.
Joined(u) ==
    /\ holder[socketOf[u]] # "nobody"
    /\ fdOf[holder[socketOf[u]]] = socketOf[u]
    /\ user[holder[socketOf[u]]] = u

\* A thread is between the writes, or between the deletions, of the two hashes.
Joining(c, u)  == /\ user[c] = u
                  /\ \/ pc[c] = "hash" /\ socketOf[u] = fdOf[c]
                     \/ pc[c] \in {"online", "data"} /\ Joined(u)
Parting(c, u) == pc[c] = "delUser" /\ Leaver(c) = u

SocketsJoined ==
    \A u \in User : socketOf[u] # None =>
        \/ u \in loaded /\ Joined(u)
        \/ \E c \in Conn : Joining(c, u) \/ Parting(c, u)

\* What a thread has found of the user it sends to or cleans up after.
FoundIts(c) ==
    /\ pc[c] = "send" => found[c] = socketOf[to[c]] /\ found[c] # None
    /\ pc[c] = "delSocket" => found[c] = socketOf[Leaver(c)]

\* Who closes a socket has cleaned up after the user whose hash points at it.
LeavesNoLink(c) ==
    /\ pc[c] \in Clearing /\ leaving[c] =>
           \A u \in User : socketOf[u] = fdOf[c] => u = Leaver(c)
    /\ pc[c] = "close" => \A u \in User : socketOf[u] # fdOf[c]

Aimed == Plain =>
    OneServed /\ SocketsJoined /\ \A c \in Conn : FoundIts(c) /\ LeavesNoLink(c)

\* A step that leaves the history plain is of the only connection that is served.
LEMMA PlainStep ==
    ASSUME TypeOK, NEW c \in Conn, StepOf(c), Plain'
    PROVE  /\ Plain /\ OneServed'
           /\ Leave(c) \/ (\E u \in User : LogIn(c, u)) \/ Keep(c)
           /\ \A d \in Conn \ {c} : pc[d] \in Rest /\ pc'[d] = pc[d]
<1>1. /\ ~overlap /\ ~lossy /\ \A d \in Conn \ {c} : pc[d] \in Rest
      /\ Leave(c) \/ (\E u \in User : LogIn(c, u)) \/ Keep(c)
  BY NotesStay DEF StepOf, Noted, Plain
<1>2. \A d \in Conn \ {c} : pc'[d] = pc[d]
  BY OthersKeep
<1> QED
  BY <1>1, <1>2 DEF Plain, OneServed

\* Whoever else is at rest, only this one is between its writes or its deletions.
LEMMA JoinedUnlessServed ==
    ASSUME SocketsJoined, NEW c \in Conn, \A d \in Conn \ {c} : pc[d] \in Rest,
           NEW u \in User, socketOf[u] # None
    PROVE  (u \in loaded /\ Joined(u)) \/ Joining(c, u) \/ Parting(c, u)
<1>1. \A d \in Conn \ {c} : ~Joining(d, u) /\ ~Parting(d, u)
  BY DEF Joining, Parting, Rest
<1> QED
  BY <1>1 DEF SocketsJoined

LEMMA SocketsJoinedKept ==
    ASSUME IInv, Plain, SocketsJoined, NEW c \in Conn, StepOf(c), Plain',
           FoundIts(c), LeavesNoLink(c)
    PROVE  SocketsJoined'
<1>0. /\ pc \in [Conn -> Steps] /\ user \in [Conn -> User \cup {"nobody"}]
      /\ fdOf \in [Conn -> Fd \cup {None}] /\ key \in [Conn -> Conn]
      /\ found \in [Conn -> Fd \cup {None}] /\ leaving \in [Conn -> BOOLEAN]
      /\ socketOf \in [User -> Fd \cup {None}] /\ holder \in [Fd -> Conn \cup {"nobody"}]
  BY DEF IInv, TypeOK
<1>f. None \notin Fd /\ \A v \in User : v # "nobody"
  BY NobodyAssumption DEF Fd, None
<1>1. /\ Leave(c) \/ (\E v \in User : LogIn(c, v)) \/ Keep(c)
      /\ \A d \in Conn \ {c} : pc[d] \in Rest /\ pc'[d] = pc[d]
  BY PlainStep DEF IInv
<1>2. Placed(c) /\ FdsDistinct
  BY DEF IInv
<1> SUFFICES ASSUME NEW u \in User, socketOf'[u] # None
             PROVE  (u \in loaded /\ Joined(u))' \/ Joining(c, u)' \/ Parting(c, u)'
  BY DEF SocketsJoined
<1>3. socketOf[u] # None => (u \in loaded /\ Joined(u)) \/ Joining(c, u) \/ Parting(c, u)
  BY <1>1, JoinedUnlessServed
<1> USE <1>f DEF At, Goto, own, redis
\* Steps of which the hashes know nothing.
<1>4. CASE /\ UNCHANGED <<socketOf, loaded, holder, user, fdOf>>
           /\ pc[c] \notin {"hash", "online", "data", "delUser"}
  BY <1>3, <1>4 DEF Joined, Joining, Parting
<1>5. CASE (\E v \in User : LogIn(c, v)) \/ Connect(c)
  <2>1. /\ fdOf[c] = None /\ pc[c] \in {"new", "loggedIn"} /\ UNCHANGED <<socketOf, loaded, holder>>
        /\ \A d \in Conn \ {c} : fdOf'[d] = fdOf[d] /\ user'[d] = user[d]
    BY <1>0, <1>2, <1>5 DEF LogIn, Connect, Placed
  <2>2. u \in loaded /\ Joined(u) /\ socketOf[u] \in Fd
    BY <1>0, <1>3, <2>1 DEF Joining, Parting
  <2>3. holder[socketOf[u]] \in Conn \ {c}
    BY <1>0, <2>1, <2>2 DEF Joined
  <2> QED
    BY <2>1, <2>2, <2>3 DEF Joined
<1>6. CASE WriteSocket(c)
  <2>1. /\ pc[c] = "socket" /\ pc'[c] = "hash" /\ UNCHANGED <<user, fdOf, loaded, holder>>
        /\ socketOf' = [socketOf EXCEPT ![user[c]] = fdOf[c]]
    BY <1>0, <1>6 DEF WriteSocket, NewSocket
  <2>2. CASE u = user[c]
    BY <1>0, <2>1, <2>2 DEF Joining
  <2>3. CASE u # user[c]
    BY <1>0, <1>3, <2>1, <2>3 DEF Joined, Joining, Parting
  <2> QED
    BY <2>2, <2>3
<1>7. CASE WriteHash(c)
  <2>1. /\ pc[c] = "hash" /\ pc'[c] = "online" /\ UNCHANGED <<user, fdOf, loaded, socketOf>>
        /\ holder' = [holder EXCEPT ![fdOf[c]] = c] /\ socketOf[u] \in Fd
    BY <1>0, <1>7 DEF WriteHash, Holder
  <2>2. CASE socketOf[u] = fdOf[c]
    <3>1. c # "nobody" /\ holder'[socketOf[u]] = c
      BY <1>0, <2>1, <2>2, NobodyAssumption
    <3>2. user[c] = u
      BY <1>0, <1>2, <1>3, <2>1, <2>2 DEF Joined, Joining, Parting, FdsDistinct
    <3>3. Joined(u)'
      BY <2>1, <2>2, <3>1, <3>2 DEF Joined
    <3> QED
      BY <2>1, <3>2, <3>3 DEF Joining
  <2>3. CASE socketOf[u] # fdOf[c]
    <3>1. u \in loaded /\ Joined(u)
      BY <1>3, <2>1, <2>3 DEF Joining, Parting
    <3> QED
      BY <1>0, <2>1, <2>3, <3>1 DEF Joined
  <2> QED
    BY <2>2, <2>3
<1>8. CASE GoOnline(c)
  <2>1. /\ pc[c] = "online" /\ pc'[c] = "data" /\ UNCHANGED <<user, fdOf, loaded, socketOf, holder>>
    BY <1>0, <1>8 DEF GoOnline
  <2> QED
    BY <1>3, <2>1 DEF Joined, Joining, Parting
<1>9. CASE WriteData(c)
  <2>1. /\ pc[c] = "data" /\ loaded' = loaded \cup {user[c]} /\ UNCHANGED <<user, fdOf, socketOf, holder>>
    BY <1>0, <1>9 DEF WriteData
  <2> QED
    BY <1>3, <2>1 DEF Joined, Joining, Parting
<1>10. CASE DeleteSocket(c)
  <2>1. /\ pc[c] = "delSocket" /\ pc'[c] = "delUser" /\ UNCHANGED <<user, fdOf, key, loaded, socketOf>>
        /\ holder' = [holder EXCEPT ![found[c]] = "nobody"] /\ found[c] = socketOf[Leaver(c)]
    BY <1>0, <1>10 DEF DeleteSocket, NoHolder, FoundIts
  <2>2. u \in loaded /\ Joined(u)
    BY <1>3, <2>1 DEF Joining, Parting
  <2>3. CASE u = Leaver(c)
    BY <2>1, <2>3 DEF Parting, Leaver
  <2>4. CASE u # Leaver(c)
    <3>1. Leaver(c) \in User
      BY <1>0, <1>2, <2>1 DEF Leaver, Placed
    <3>2. PICK v \in User : v = Leaver(c)
      BY <3>1
    <3>3. socketOf[v] # None => Joined(v)
      BY <1>1, <2>1, JoinedUnlessServed DEF Joining, Parting
    <3>4. socketOf[u] # found[c]
      BY <2>1, <2>2, <2>4, <3>2, <3>3 DEF Joined
    <3> QED
      BY <1>0, <2>1, <2>2, <3>4 DEF Joined
  <2> QED
    BY <2>3, <2>4
<1>11. CASE DeleteUser(c)
  <2>1. /\ pc[c] = "delUser" /\ UNCHANGED <<user, fdOf, holder>>
        /\ socketOf' = [socketOf EXCEPT ![Leaver(c)] = None] /\ loaded' = loaded \ {Leaver(c)}
    BY <1>0, <1>11 DEF DeleteUser, NoSocket
  <2>2. u # Leaver(c) /\ socketOf'[u] = socketOf[u]
    BY <1>0, <2>1
  <2> QED
    BY <1>3, <2>1, <2>2 DEF Joined, Joining, Parting
<1>12. CASE Close(c)
  <2>1. /\ pc[c] = "close" /\ UNCHANGED <<user, socketOf, loaded, holder>>
        /\ \A d \in Conn \ {c} : fdOf'[d] = fdOf[d]
    BY <1>0, <1>12 DEF Close
  <2>2. u \in loaded /\ Joined(u) /\ socketOf[u] \in Fd /\ socketOf[u] # fdOf[c]
    BY <1>0, <1>3, <2>1 DEF Joining, Parting, LeavesNoLink
  <2>3. holder[socketOf[u]] \in Conn \ {c}
    BY <1>0, <2>2 DEF Joined
  <2> QED
    BY <2>1, <2>2, <2>3 DEF Joined
<1>13. CASE AskData(c) \/ (\E v \in User : SendMessage(c, v)) \/ IsOnline(c) \/ FriendSocket(c) \/ Send(c)
  BY <1>4, <1>13 DEF AskData, SendMessage, IsOnline, FriendSocket, Send
<1>14. CASE LogOut(c) \/ Disconnect(c) \/ GetId(c) \/ GetSession(c)
  BY <1>4, <1>14 DEF LogOut, Disconnect, GetId, GetSession
<1>15. CASE ReadUser(c) \/ GoOffline(c) \/ FindSocket(c)
  BY <1>4, <1>15 DEF ReadUser, GoOffline, FindSocket
<1> QED
  BY <1>1, <1>5, <1>6, <1>7, <1>8, <1>9, <1>10, <1>11, <1>12, <1>13, <1>14, <1>15 DEF Leave, Keep

LEMMA LeavesNoLinkKept ==
    ASSUME IInv, Plain, SocketsJoined, NEW c \in Conn, StepOf(c), Plain',
           FoundIts(c), LeavesNoLink(c)
    PROVE  FoundIts(c)' /\ LeavesNoLink(c)'
<1>0. /\ pc \in [Conn -> Steps] /\ user \in [Conn -> User \cup {"nobody"}]
      /\ fdOf \in [Conn -> Fd \cup {None}] /\ key \in [Conn -> Conn]
      /\ found \in [Conn -> Fd \cup {None}] /\ leaving \in [Conn -> BOOLEAN]
      /\ to \in [Conn -> User \cup {"nobody"}]
      /\ socketOf \in [User -> Fd \cup {None}] /\ holder \in [Fd -> Conn \cup {"nobody"}]
      /\ None \notin Fd
  BY DEF IInv, TypeOK, Fd, None
<1>1. /\ Leave(c) \/ (\E v \in User : LogIn(c, v)) \/ Keep(c)
      /\ \A d \in Conn \ {c} : pc[d] \in Rest
  BY PlainStep DEF IInv
<1>2. Placed(c)
  BY DEF IInv
<1>3. ASSUME NEW u \in User, socketOf[u] = fdOf[c], fdOf[c] # None,
             pc[c] \notin {"hash", "online", "data", "delUser"}
      PROVE  u \in loaded /\ holder[fdOf[c]] # "nobody" /\ u = user[holder[fdOf[c]]]
  <2>1. u \in loaded /\ Joined(u)
    BY <1>1, <1>3, JoinedUnlessServed DEF Joining, Parting
  <2> QED
    BY <1>3, <2>1 DEF Joined
<1> USE DEF At, Goto, own, redis, FoundIts, LeavesNoLink, Clearing
<1>4. CASE (\E v \in User : LogIn(c, v)) \/ Connect(c) \/ AskData(c) \/ WriteSocket(c) \/ WriteHash(c)
  BY <1>0, <1>4 DEF LogIn, Connect, AskData, WriteSocket, WriteHash
<1>5. CASE GoOnline(c) \/ WriteData(c) \/ (\E v \in User : SendMessage(c, v)) \/ IsOnline(c) \/ Send(c)
  BY <1>0, <1>5 DEF GoOnline, WriteData, SendMessage, IsOnline, Send
<1>6. CASE FriendSocket(c)
  BY <1>0, <1>6 DEF FriendSocket
<1>7. CASE LogOut(c) \/ Disconnect(c) \/ GetId(c)
  BY <1>0, <1>7 DEF LogOut, Disconnect, GetId
<1>8. CASE GetSession(c)
  <2>1. /\ pc[c] = "getSession" /\ fdOf[c] # None /\ UNCHANGED <<fdOf, user, socketOf, leaving>>
        /\ \/ holder[fdOf[c]] = "nobody" /\ pc'[c] = "close"
           \/ pc'[c] = "read" /\ key'[c] = holder[fdOf[c]]
    BY <1>0, <1>2, <1>8 DEF GetSession, Placed
  <2>2. \A u \in User : socketOf[u] = fdOf[c] => holder[fdOf[c]] # "nobody" /\ u = user[holder[fdOf[c]]]
    BY <1>3, <2>1
  <2> QED
    BY <2>1, <2>2 DEF Leaver
<1>9. CASE ReadUser(c)
  <2>1. /\ pc[c] = "read" /\ fdOf[c] # None /\ UNCHANGED <<fdOf, user, socketOf>>
        /\ \/ Leaver(c) \in loaded /\ pc'[c] = "srem" /\ UNCHANGED <<key, leaving>>
           \/ Leaver(c) \notin loaded /\ pc'[c] = IF leaving[c] THEN "close" ELSE "idle"
    BY <1>0, <1>2, <1>9 DEF ReadUser, Return, After, Placed
  <2>2. \A u \in User : socketOf[u] = fdOf[c] => u \in loaded
    BY <1>3, <2>1
  <2> QED
    BY <2>1, <2>2 DEF Leaver
<1>10. CASE GoOffline(c) \/ FindSocket(c) \/ DeleteSocket(c)
  BY <1>0, <1>10 DEF GoOffline, FindSocket, DeleteSocket, Leaver
<1>11. CASE DeleteUser(c)
  <2>1. /\ pc[c] = "delUser" /\ fdOf[c] # None /\ UNCHANGED <<fdOf, user>>
        /\ socketOf' = [socketOf EXCEPT ![Leaver(c)] = None]
        /\ pc'[c] = IF leaving[c] THEN "close" ELSE "idle"
    BY <1>0, <1>2, <1>11 DEF DeleteUser, NoSocket, Return, After, Placed
  <2>2. ASSUME NEW u \in User, leaving[c] PROVE socketOf'[u] # fdOf[c]
    <3>1. u # Leaver(c) => socketOf[u] # fdOf[c]
      BY <2>1, <2>2
    <3> QED
      BY <1>0, <2>1, <3>1
  <2> QED
    BY <2>1, <2>2
<1>12. CASE Close(c)
  BY <1>0, <1>12 DEF Close
<1> QED
  BY <1>1, <1>4, <1>5, <1>6, <1>7, <1>8, <1>9, <1>10, <1>11, <1>12 DEF Leave, Keep

LEMMA AimedStep == IInv /\ Aimed /\ [Next]_vars => Aimed'
<1> SUFFICES ASSUME IInv, Aimed, [Next]_vars PROVE Aimed'
  OBVIOUS
<1>1. ASSUME NEW c \in Conn, StepOf(c), Plain' PROVE Aimed'
  <2>1. TypeOK /\ Plain /\ SocketsJoined /\ FoundIts(c) /\ LeavesNoLink(c)
    BY <1>1, PlainStep DEF IInv, Aimed
  <2>2. SocketsJoined' /\ FoundIts(c)' /\ LeavesNoLink(c)'
    BY <1>1, <2>1, SocketsJoinedKept, LeavesNoLinkKept
  <2>3. OneServed' /\ \A d \in Conn \ {c} : pc'[d] \in Rest
    BY <1>1, <2>1, PlainStep
  <2>4. \A d \in Conn \ {c} : FoundIts(d)' /\ LeavesNoLink(d)'
    BY <2>3 DEF FoundIts, LeavesNoLink, Rest, Clearing
  <2> QED
    BY <2>2, <2>3, <2>4 DEF Aimed
<1>2. CASE UNCHANGED vars
  BY <1>2 DEF vars, own, redis, history, Aimed, Plain, OneServed, SocketsJoined, Joined, Joining, Parting,
     FoundIts, LeavesNoLink, Leaver
<1>3. ~Plain' => Aimed'
  BY DEF Aimed
<1> QED
  BY <1>1, <1>2, <1>3, NextIsStep

\* A message is sent to the user it is for (on_message_request, event_handler.c), as
\* long as no two connections were served at once and none was lost, however often
\* users connect, descriptors are used again and clients leave without their data.
THEOREM MessagesReachTheirUser == Spec => []MessagesReachTheirUserAlone
<1>1. Init => Aimed
  BY DEF Init, Aimed, OneServed, Rest, SocketsJoined, FoundIts, LeavesNoLink, Clearing
<1>2. IInv /\ Aimed /\ [Next]_vars => Aimed'
  BY AimedStep
<1>3. IInv /\ Aimed => MessagesReachTheirUserAlone
  <2> SUFFICES ASSUME IInv, Aimed, Plain, NEW c \in Conn, pc[c] = "send",
                      NEW d \in Conn, fdOf[d] = found[c]
               PROVE  user[d] = to[c]
    BY DEF MessagesReachTheirUserAlone, Plain, At, Recipients
  <2>1. found[c] = socketOf[to[c]] /\ to[c] \in User /\ FdsDistinct
    BY DEF Aimed, FoundIts, IInv, TypeOK, Placed
  <2>2. \A e \in Conn \ {c} : pc[e] \in Rest
    BY DEF Aimed, OneServed, Rest
  <2>3. PICK u \in User : u = to[c]
    BY <2>1
  <2>4. socketOf[u] = fdOf[d] /\ socketOf[u] # None
    BY <2>1, <2>3 DEF Aimed, FoundIts
  <2>5. Joined(u)
    BY <2>2, <2>4, JoinedUnlessServed DEF Aimed, Joining, Parting
  <2>6. holder[socketOf[u]] \in Conn
    BY <2>4, <2>5 DEF Joined, IInv, TypeOK
  <2>7. holder[socketOf[u]] = d
    BY <2>1, <2>4, <2>5, <2>6 DEF Joined, FdsDistinct
  <2> QED
    BY <2>3, <2>5, <2>7 DEF Joined
<1> QED
  BY <1>1, <1>2, <1>3, Invariance, PTL DEF Spec
=============================================================================
