---------------------------- MODULE FriendsProofs ----------------------------
(***************************************************************************)
(* Nobody becomes a friend, or a member of a chat, unasked: for any users  *)
(* and bounds, however requests, log-ins and log-outs overlap.  And as     *)
(* long as they do not, a record survives its moves between the two stores *)
(* (Kept), and whoever asked each other are friends on both sides          *)
(* (Agreeing).                                                             *)
(***************************************************************************)
EXTENDS Friends, SequenceTheorems, TLAPS

FriendList == Seq(User \cup {Garbage})
ChatList   == Seq(Nat \cup {Garbage})
Record     == [friends : FriendList, chats : ChatList]
Hash       == [socket : BOOLEAN, data : BOOLEAN, fnum : Nat, cnum : Nat]

Steps == {"off", "idle", "loadSocket", "loadDoc", "loadHash", "loadFriends", "loadChats",
          "saveNums", "saveFriends", "saveChats", "saveDoc", "delHash", "delFriends", "delChats",
          "addSent", "addReceived", "invite", "accept", "pushFriend", "incFriends", "newRoom",
          "pushChat", "incChats", "online", "readDoc", "writeDoc", "pushDoc"}
AddSteps == {"addSent", "addReceived", "invite", "accept", "pushFriend", "incFriends", "newRoom",
             "pushChat", "incChats", "online", "readDoc", "writeDoc", "pushDoc"}

TypeOK ==
    /\ doc \in [User -> Record] /\ copy \in [User -> Record]
    /\ hash \in [User -> Hash]
    /\ friends \in [User -> FriendList] /\ chats \in [User -> ChatList]
    /\ invites \in [User -> SUBSET User]
    /\ rooms \in Seq(SUBSET User)
    /\ pc \in [User -> Steps]
    /\ target \in [User -> User] /\ side \in [User -> {"own", "other"}]
    /\ nums \in [User -> Nat \X Nat]
    /\ chat \in [User -> Nat]
    /\ asked \subseteq User \X User

\* Invitations are asked for, and so is what a thread is about to do.
InvitesAsked == \A u \in User : \A v \in invites[u] : <<v, u>> \in asked

AddsAsked ==
    \A u \in User :
        /\ pc[u] \in AddSteps => <<u, target[u]>> \in asked
        /\ pc[u] \in AddSteps \ {"addSent", "addReceived", "invite"} => <<target[u], u>> \in asked

\* A list of friends of whom each has agreed, given what was asked, or garbage.
AgreedList(A, u, list) ==
    \A v \in Elems(list) : v = Garbage \/ (<<u, v>> \in A /\ <<v, u>> \in A)

\* So are the lists that a thread has in its hands.
ListsAgreed ==
    \A u \in User :
        /\ AgreedList(asked, u, friends[u]) /\ AgreedList(asked, u, doc[u].friends)
        /\ pc[u] \in {"loadHash", "loadFriends", "loadChats"} => AgreedList(asked, u, copy[u].friends)
        /\ pc[u] \in {"saveChats", "saveDoc"} => AgreedList(asked, u, copy[u].friends)
        /\ pc[u] = "writeDoc" => AgreedList(asked, target[u], copy[u].friends)

\* A list of rooms to which the user belongs, or garbage.
Member(R, u, c)     == c \in DOMAIN R /\ u \in R[c]
OwnList(R, u, list) == \A c \in Elems(list) : c = Garbage \/ Member(R, u, c)

\* The thread of an accepted request has made its room.
HasRoom(u) ==
    \/ pc[u] \in {"pushChat", "incChats", "online", "readDoc", "writeDoc", "pushDoc"}
    \/ pc[u] \in {"pushFriend", "incFriends"} /\ side[u] = "other"

RoomsShared ==
    \A u \in User :
        /\ pc[u] \in {"addSent", "addReceived", "accept"} => side[u] = "own"
        /\ HasRoom(u) => Member(rooms, u, chat[u]) /\ Member(rooms, target[u], chat[u])

ListsOwn ==
    \A u \in User :
        /\ OwnList(rooms, u, chats[u]) /\ OwnList(rooms, u, doc[u].chats)
        /\ pc[u] \in {"loadHash", "loadFriends", "loadChats"} => OwnList(rooms, u, copy[u].chats)
        /\ pc[u] = "saveDoc" => OwnList(rooms, u, copy[u].chats)
        /\ pc[u] = "writeDoc" => OwnList(rooms, target[u], copy[u].chats)

IInv == TypeOK /\ InvitesAsked /\ AddsAsked /\ ListsAgreed /\ RoomsShared /\ ListsOwn

\* A chat of a user is a room of which he is a member, in either copy of his
\* record (redis_add_chat_to_user, redis_user.c).
ChatsAreOwn ==
    \A u \in User :
        \A c \in (Elems(chats[u]) \cup Elems(doc[u].chats)) \ {Garbage} : Member(rooms, u, c)

-----------------------------------------------------------------------------
(* The elements of lists.                                                  *)

\* What Append adds.
LEMMA ElemsAppend ==
    ASSUME NEW S, NEW list \in Seq(S), NEW x \in S
    PROVE  Append(list, x) \in Seq(S) /\ Elems(Append(list, x)) = Elems(list) \cup {x}
<1>1. DOMAIN list = 1..Len(list) /\ DOMAIN Append(list, x) = 1..(Len(list) + 1) /\ Len(list) \in Nat
  OBVIOUS
<1>2. /\ \A i \in 1..Len(list) : Append(list, x)[i] = list[i]
      /\ Append(list, x)[Len(list) + 1] = x
  OBVIOUS
<1>3. \A i \in DOMAIN Append(list, x) : i \in DOMAIN list \/ i = Len(list) + 1
  BY <1>1
<1> QED
  BY <1>1, <1>2, <1>3 DEF Elems

\* What a concatenation has.
LEMMA ElemsConcat ==
    ASSUME NEW S, NEW s \in Seq(S), NEW t \in Seq(S)
    PROVE  s \o t \in Seq(S) /\ Elems(s \o t) \subseteq Elems(s) \cup Elems(t)
<1>1. ASSUME NEW i \in DOMAIN (s \o t) PROVE (s \o t)[i] \in Elems(s) \cup Elems(t)
  <2>1. i \in 1..(Len(s) + Len(t)) /\ Len(s) \in Nat /\ Len(t) \in Nat
    BY <1>1
  <2>2. CASE i <= Len(s)
    <3>1. i \in DOMAIN s /\ (s \o t)[i] = s[i]
      BY <2>1, <2>2
    <3> QED
      BY <3>1 DEF Elems
  <2>3. CASE i > Len(s)
    <3>1. (i - Len(s)) \in DOMAIN t /\ (s \o t)[i] = t[i - Len(s)]
      BY <2>1, <2>3
    <3> QED
      BY <3>1 DEF Elems
  <2> QED
    BY <2>1, <2>2, <2>3
<1> QED
  BY <1>1 DEF Elems

\* What the array of a given size has.
LEMMA ElemsFirst ==
    ASSUME NEW S, NEW list \in Seq(S), NEW n \in Nat, Garbage \in S
    PROVE  First(list, n) \in Seq(S) /\ Elems(First(list, n)) \subseteq Elems(list) \cup {Garbage}
<1>1. ASSUME NEW i \in 1..n PROVE First(list, n)[i] \in Elems(list) \cup {Garbage}
  <2>1. i <= Len(list) => i \in DOMAIN list
    OBVIOUS
  <2> QED
    BY <2>1 DEF First, Elems
<1>2. Elems(list) \subseteq S
  BY DEF Elems
<1>3. First(list, n) \in Seq(S)
  <2>1. First(list, n) \in [1..n -> S]
    BY <1>2 DEF First
  <2> QED
    BY <2>1
<1> QED
  BY <1>1, <1>3 DEF Elems, First

LEMMA ElemsEmpty == Elems(<<>>) = {}
BY DEF Elems

\* A record of which one field is set.
LEMMA RecordFields ==
    ASSUME NEW r \in Record
    PROVE  /\ r.friends \in FriendList /\ r.chats \in ChatList
           /\ \A list \in FriendList :
                  /\ [r EXCEPT !.friends = list] \in Record
                  /\ [r EXCEPT !.friends = list].friends = list
                  /\ [r EXCEPT !.friends = list].chats = r.chats
           /\ \A list \in ChatList :
                  /\ [r EXCEPT !.chats = list] \in Record
                  /\ [r EXCEPT !.chats = list].chats = list
                  /\ [r EXCEPT !.chats = list].friends = r.friends
BY DEF Record

LEMMA HashFields ==
    ASSUME NEW h \in Hash
    PROVE  /\ h.fnum + 1 \in Nat /\ h.cnum + 1 \in Nat
           /\ \A n \in Nat : [h EXCEPT !.fnum = n] \in Hash /\ [h EXCEPT !.cnum = n] \in Hash
           /\ \A b \in BOOLEAN : [h EXCEPT !.socket = b] \in Hash
           /\ \A m, n \in Nat : [h EXCEPT !.data = TRUE, !.fnum = m, !.cnum = n] \in Hash
<1>1. h.fnum + 1 \in Nat /\ h.cnum + 1 \in Nat
  BY DEF Hash
<1>2. \A n \in Nat : [h EXCEPT !.fnum = n] \in Hash /\ [h EXCEPT !.cnum = n] \in Hash
  BY DEF Hash
<1>3. \A b \in BOOLEAN : [h EXCEPT !.socket = b] \in Hash
  BY DEF Hash
<1>4. \A m, n \in Nat : [h EXCEPT !.data = TRUE, !.fnum = m, !.cnum = n] \in Hash
  BY DEF Hash
<1> QED
  BY <1>1, <1>2, <1>3, <1>4

-----------------------------------------------------------------------------
(* Every conjunct is kept by a step of a thread.                           *)

LEMMA TypesKept ==
    ASSUME TypeOK, NEW u \in User, Step(u)
    PROVE  TypeOK'
<1> USE DEF redis, locals, bounds, Go, Steps
<1>0. /\ copy[u] \in Record /\ hash[u] \in Hash
      /\ friends[u] \in FriendList /\ chats[u] \in ChatList
      /\ copy[u].friends \in FriendList /\ copy[u].chats \in ChatList
  BY RecordFields DEF TypeOK
<1>1. CASE Connect(u) \/ Disconnect(u)
  <2>1. CASE Connect(u)
    BY <2>1 DEF TypeOK, Connect
  <2>2. CASE Disconnect(u)
    BY <2>2 DEF TypeOK, Disconnect
  <2> QED
    BY <1>1, <2>1, <2>2
<1>2. CASE Load(u)
  <2>1. CASE LoadSocket(u)
    <3>1. hash' = [hash EXCEPT ![u] = [hash[u] EXCEPT !.socket = TRUE]]
      BY <2>1 DEF LoadSocket, TypeOK
    <3>2. hash' \in [User -> Hash]
      BY <1>0, <3>1, HashFields DEF TypeOK
    <3> QED
      BY <2>1, <3>2 DEF TypeOK, LoadSocket
  <2>2. CASE LoadDoc(u)
    BY <2>2 DEF TypeOK, LoadDoc
  <2>3. CASE LoadHash(u)
    <3>1. Len(copy[u].friends) \in Nat /\ Len(copy[u].chats) \in Nat
      BY <1>0 DEF FriendList, ChatList
    <3>2. hash' = [hash EXCEPT ![u] = [hash[u] EXCEPT !.data = TRUE,
                      !.fnum = Len(copy[u].friends), !.cnum = Len(copy[u].chats)]]
      BY <2>3 DEF TypeOK, LoadHash
    <3>3. hash' \in [User -> Hash]
      BY <1>0, <3>1, <3>2, HashFields DEF TypeOK
    <3> QED
      BY <2>3, <3>3 DEF TypeOK, LoadHash
  <2>4. CASE LoadFriends(u)
    <3>1. friends[u] \o copy[u].friends \in FriendList
      BY <1>0, ElemsConcat DEF FriendList
    <3> QED
      BY <2>4, <3>1 DEF TypeOK, LoadFriends
  <2>5. CASE LoadChats(u)
    <3>1. chats[u] \o copy[u].chats \in ChatList
      BY <1>0, ElemsConcat DEF ChatList
    <3> QED
      BY <2>5, <3>1 DEF TypeOK, LoadChats
  <2> QED
    BY <1>2, <2>1, <2>2, <2>3, <2>4, <2>5 DEF Load
<1>3. CASE Save(u)
  <2>1. CASE SaveNums(u)
    <3>1. <<hash[u].fnum, hash[u].cnum>> \in Nat \X Nat
      BY <1>0 DEF Hash
    <3> QED
      BY <2>1, <3>1 DEF TypeOK, SaveNums
  <2>2. CASE SaveFriends(u)
    <3>1. First(friends[u], nums[u][1]) \in FriendList
      BY ElemsFirst DEF TypeOK, FriendList
    <3>2. copy' = [copy EXCEPT ![u] = [copy[u] EXCEPT !.friends = First(friends[u], nums[u][1])]]
      BY <2>2 DEF TypeOK, SaveFriends
    <3>3. copy' \in [User -> Record]
      BY <1>0, <3>1, <3>2, RecordFields DEF TypeOK
    <3> QED
      BY <2>2, <3>3 DEF TypeOK, SaveFriends
  <2>3. CASE SaveChats(u)
    <3>1. First(chats[u], nums[u][2]) \in ChatList
      BY ElemsFirst DEF TypeOK, ChatList
    <3>2. copy' = [copy EXCEPT ![u] = [copy[u] EXCEPT !.chats = First(chats[u], nums[u][2])]]
      BY <2>3 DEF TypeOK, SaveChats
    <3>3. copy' \in [User -> Record]
      BY <1>0, <3>1, <3>2, RecordFields DEF TypeOK
    <3> QED
      BY <2>3, <3>3 DEF TypeOK, SaveChats
  <2>4. CASE SaveDoc(u)
    BY <2>4 DEF TypeOK, SaveDoc
  <2>5. CASE DelHash(u)
    <3>1. NoHash \in Hash
      BY DEF NoHash, Hash
    <3> QED
      BY <2>5, <3>1 DEF TypeOK, DelHash
  <2>6. CASE DelFriends(u)
    BY <2>6 DEF TypeOK, DelFriends, FriendList
  <2>7. CASE DelChats(u)
    BY <2>7 DEF TypeOK, DelChats, ChatList
  <2> QED
    BY <1>3, <2>1, <2>2, <2>3, <2>4, <2>5, <2>6, <2>7 DEF Save
<1>4. CASE Add(u)
  <2>0. /\ Owner(u) \in User /\ Other(u) \in User /\ target[u] \in User
        /\ hash[Owner(u)] \in Hash /\ doc[target[u]] \in Record
        /\ friends[Owner(u)] \in FriendList /\ chats[Owner(u)] \in ChatList
        /\ chat[u] \in Nat
    BY DEF TypeOK, Owner, Other
  <2>1. CASE CheckSent(u) \/ CheckReceived(u)
    <3>1. pc' \in [User -> Steps]
      BY <2>1 DEF TypeOK, CheckSent, CheckReceived
    <3> QED
      BY <2>1, <3>1 DEF TypeOK, CheckSent, CheckReceived
  <2>2. CASE Invite(u)
    BY <2>0, <2>2 DEF TypeOK, Invite
  <2>3. CASE Accept(u)
    BY <2>0, <2>3 DEF TypeOK, Accept
  <2>4. CASE PushFriend(u)
    <3>1. Append(friends[Owner(u)], Other(u)) \in FriendList
      BY <2>0, ElemsAppend DEF FriendList
    <3> QED
      BY <2>0, <2>4, <3>1 DEF TypeOK, PushFriend
  <2>5. CASE IncFriends(u)
    <3>1. hash' = [hash EXCEPT ![Owner(u)] = [hash[Owner(u)] EXCEPT !.fnum = hash[Owner(u)].fnum + 1]]
      BY <2>0, <2>5 DEF TypeOK, IncFriends
    <3>2. hash' \in [User -> Hash]
      BY <2>0, <3>1, HashFields DEF TypeOK
    <3> QED
      BY <2>5, <3>2 DEF TypeOK, IncFriends
  <2>6. CASE NewRoom(u)
    <3>1. rooms' \in Seq(SUBSET User) /\ RoomId \in Nat
      BY <2>0, <2>6, ElemsAppend DEF TypeOK, NewRoom, RoomId
    <3> QED
      BY <2>6, <3>1 DEF TypeOK, NewRoom
  <2>7. CASE PushChat(u)
    <3>1. Append(chats[Owner(u)], chat[u]) \in ChatList
      BY <2>0, ElemsAppend DEF ChatList
    <3> QED
      BY <2>0, <2>7, <3>1 DEF TypeOK, PushChat
  <2>8. CASE IncChats(u)
    <3>1. hash' = [hash EXCEPT ![Owner(u)] = [hash[Owner(u)] EXCEPT !.cnum = hash[Owner(u)].cnum + 1]]
      BY <2>0, <2>8 DEF TypeOK, IncChats
    <3>2. hash' \in [User -> Hash]
      BY <2>0, <3>1, HashFields DEF TypeOK
    <3> QED
      BY <2>8, <3>2 DEF TypeOK, IncChats
  <2>9. CASE CheckOnline(u)
    BY <2>9 DEF TypeOK, CheckOnline
  <2>10. CASE ReadDoc(u)
    <3>1. Append(doc[target[u]].friends, u) \in FriendList
      BY <2>0, RecordFields, ElemsAppend DEF FriendList
    <3>2. [doc[target[u]] EXCEPT !.friends = Append(@, u)] \in Record
      BY <2>0, <3>1, RecordFields
    <3> QED
      BY <2>10, <3>2 DEF TypeOK, ReadDoc
  <2>11. CASE WriteDoc(u)
    BY <2>0, <2>11 DEF TypeOK, WriteDoc
  <2>12. CASE PushDoc(u)
    <3>1. Append(doc[target[u]].chats, chat[u]) \in ChatList
      BY <2>0, RecordFields, ElemsAppend DEF ChatList
    <3>2. [doc[target[u]] EXCEPT !.chats = Append(@, chat[u])] \in Record
      BY <2>0, <3>1, RecordFields
    <3>3. doc' = [doc EXCEPT ![target[u]] = [doc[target[u]] EXCEPT !.chats = Append(@, chat[u])]]
      BY <2>0, <2>12 DEF TypeOK, PushDoc
    <3>4. doc' \in [User -> Record]
      BY <2>0, <3>2, <3>3 DEF TypeOK
    <3> QED
      BY <2>12, <3>4 DEF TypeOK, PushDoc
  <2> QED
    BY <1>4, <2>1, <2>2, <2>3, <2>4, <2>5, <2>6, <2>7, <2>8, <2>9, <2>10, <2>11, <2>12 DEF Add
<1>5. ASSUME NEW v \in User, RequestFriend(u, v) PROVE TypeOK'
  <2>1. asked' \subseteq User \X User
    BY <1>5 DEF TypeOK, RequestFriend
  <2>2. /\ target' \in [User -> User] /\ side' \in [User -> {"own", "other"}]
        /\ pc' \in [User -> Steps]
    BY <1>5 DEF TypeOK, RequestFriend
  <2> QED
    BY <1>5, <2>1, <2>2 DEF TypeOK, RequestFriend
<1> QED
  BY <1>1, <1>2, <1>3, <1>4, <1>5 DEF Step

\* Nothing that was asked is forgotten, and nothing is invited that was not.
LEMMA AskedKept ==
    ASSUME TypeOK, InvitesAsked, AddsAsked, NEW u \in User, Step(u)
    PROVE  asked \subseteq asked' /\ InvitesAsked' /\ AddsAsked'
<1> USE DEF redis, locals, bounds, Go, InvitesAsked, AddsAsked, AddSteps
<1>0. /\ invites \in [User -> SUBSET User] /\ target \in [User -> User]
      /\ pc \in [User -> Steps] /\ target[u] \in User
  BY DEF TypeOK
<1>1. CASE /\ pc'[u] \in AddSteps => pc[u] \in AddSteps \ {"addSent", "addReceived", "invite"}
           /\ \A v \in User \ {u} : pc'[v] = pc[v]
           /\ invites' = invites /\ UNCHANGED <<asked, target>>
  BY <1>0, <1>1
<1>2. CASE Connect(u) \/ Disconnect(u)
  BY <1>0, <1>1, <1>2 DEF Connect, Disconnect
<1>3. CASE Load(u)
  <2>1. CASE LoadSocket(u)
    BY <1>0, <1>1, <2>1 DEF LoadSocket
  <2>2. CASE LoadDoc(u)
    BY <1>0, <1>1, <2>2 DEF LoadDoc
  <2>3. CASE LoadHash(u)
    BY <1>0, <1>1, <2>3 DEF LoadHash
  <2>4. CASE LoadFriends(u)
    BY <1>0, <1>1, <2>4 DEF LoadFriends
  <2>5. CASE LoadChats(u)
    BY <1>0, <1>1, <2>5 DEF LoadChats
  <2> QED
    BY <1>3, <2>1, <2>2, <2>3, <2>4, <2>5 DEF Load
<1>4. CASE Save(u)
  <2>1. CASE SaveNums(u)
    BY <1>0, <1>1, <2>1 DEF SaveNums
  <2>2. CASE SaveFriends(u)
    BY <1>0, <1>1, <2>2 DEF SaveFriends
  <2>3. CASE SaveChats(u)
    BY <1>0, <1>1, <2>3 DEF SaveChats
  <2>4. CASE SaveDoc(u)
    BY <1>0, <1>1, <2>4 DEF SaveDoc
  <2>5. CASE DelHash(u)
    BY <1>0, <1>1, <2>5 DEF DelHash
  <2>6. CASE DelFriends(u)
    BY <1>0, <1>1, <2>6 DEF DelFriends
  <2>7. CASE DelChats(u)
    BY <1>0, <1>1, <2>7 DEF DelChats
  <2> QED
    BY <1>4, <2>1, <2>2, <2>3, <2>4, <2>5, <2>6, <2>7 DEF Save
<1>5. CASE Add(u)
  <2>1. CASE CheckSent(u)
    BY <1>0, <2>1 DEF CheckSent
  <2>2. CASE CheckReceived(u)
    BY <1>0, <2>2 DEF CheckReceived
  <2>3. CASE Invite(u)
    BY <1>0, <2>3 DEF Invite
  <2>4. CASE Accept(u)
    BY <1>0, <2>4 DEF Accept
  <2>5. CASE PushFriend(u) \/ IncFriends(u) \/ NewRoom(u) \/ PushChat(u) \/ IncChats(u)
    BY <1>0, <1>1, <2>5 DEF PushFriend, IncFriends, NewRoom, PushChat, IncChats
  <2>6. CASE CheckOnline(u) \/ ReadDoc(u) \/ WriteDoc(u) \/ PushDoc(u)
    BY <1>0, <1>1, <2>6 DEF CheckOnline, ReadDoc, WriteDoc, PushDoc
  <2> QED
    BY <1>5, <2>1, <2>2, <2>3, <2>4, <2>5, <2>6 DEF Add
<1>6. ASSUME NEW v \in User, RequestFriend(u, v)
      PROVE  asked \subseteq asked' /\ InvitesAsked' /\ AddsAsked'
  BY <1>0, <1>6 DEF RequestFriend
<1> QED
  BY <1>2, <1>3, <1>4, <1>5, <1>6 DEF Step

\* The array that is made of an agreed list.
LEMMA AgreedArray ==
    ASSUME NEW A, NEW u \in User, NEW list \in FriendList, NEW n \in Nat, AgreedList(A, u, list)
    PROVE  AgreedList(A, u, First(list, n))
<1>1. Elems(First(list, n)) \subseteq Elems(list) \cup {Garbage}
  BY ElemsFirst DEF FriendList
<1> QED
  BY <1>1 DEF AgreedList

\* An agreed list stays so when requests are added, and when it grows by friends
\* who have agreed.
LEMMA AgreedLists ==
    ASSUME NEW A, NEW B, A \subseteq B, NEW u \in User, NEW list \in FriendList,
           AgreedList(A, u, list)
    PROVE  /\ AgreedList(B, u, list)
           /\ \A more \in FriendList : AgreedList(A, u, more) => AgreedList(B, u, list \o more)
           /\ \A v \in User : <<u, v>> \in B /\ <<v, u>> \in B => AgreedList(B, u, Append(list, v))
<1>1. AgreedList(B, u, list)
  BY DEF AgreedList
<1>2. ASSUME NEW more \in FriendList, AgreedList(A, u, more) PROVE AgreedList(B, u, list \o more)
  <2>1. Elems(list \o more) \subseteq Elems(list) \cup Elems(more)
    BY ElemsConcat DEF FriendList
  <2> QED
    BY <1>2, <2>1 DEF AgreedList
<1>3. ASSUME NEW v \in User, <<u, v>> \in B /\ <<v, u>> \in B PROVE AgreedList(B, u, Append(list, v))
  <2>1. Elems(Append(list, v)) = Elems(list) \cup {v}
    BY ElemsAppend DEF FriendList
  <2> QED
    BY <1>3, <2>1 DEF AgreedList
<1> QED
  BY <1>1, <1>2, <1>3

\* A thread's variables are its own.
LEMMA OthersKept ==
    ASSUME TypeOK, NEW u \in User, Step(u)
    PROVE  \A v \in User \ {u} :
              /\ pc'[v] = pc[v] /\ copy'[v] = copy[v] /\ target'[v] = target[v]
              /\ side'[v] = side[v] /\ chat'[v] = chat[v]
<1> USE DEF redis, locals, bounds, Go
<1>0. /\ copy \in [User -> Record] /\ pc \in [User -> Steps] /\ target \in [User -> User]
      /\ side \in [User -> {"own", "other"}] /\ chat \in [User -> Nat]
  BY DEF TypeOK
<1>1. CASE Connect(u) \/ Disconnect(u) \/ \E v \in User : RequestFriend(u, v)
  BY <1>0, <1>1 DEF Connect, Disconnect, RequestFriend
<1>2. CASE Load(u)
  BY <1>0, <1>2 DEF Load, LoadSocket, LoadDoc, LoadHash, LoadFriends, LoadChats
<1>3. CASE Save(u)
  BY <1>0, <1>3 DEF Save, SaveNums, SaveFriends, SaveChats, SaveDoc, DelHash, DelFriends, DelChats
<1>4. CASE CheckSent(u) \/ CheckReceived(u) \/ Invite(u) \/ Accept(u)
  BY <1>0, <1>4 DEF CheckSent, CheckReceived, Invite, Accept
<1>5. CASE PushFriend(u) \/ IncFriends(u) \/ NewRoom(u) \/ PushChat(u) \/ IncChats(u)
  BY <1>0, <1>5 DEF PushFriend, IncFriends, NewRoom, PushChat, IncChats
<1>6. CASE CheckOnline(u) \/ ReadDoc(u) \/ WriteDoc(u) \/ PushDoc(u)
  BY <1>0, <1>6 DEF CheckOnline, ReadDoc, WriteDoc, PushDoc
<1> QED
  BY <1>1, <1>2, <1>3, <1>4, <1>5, <1>6 DEF Step, Add

LEMMA FriendsKept ==
    ASSUME TypeOK, TypeOK', AddsAsked, ListsAgreed, NEW u \in User, Step(u), asked \subseteq asked'
    PROVE  ListsAgreed'
<1> USE DEF redis, locals, bounds, Go
<1>0. /\ friends \in [User -> FriendList] /\ doc \in [User -> Record]
      /\ copy \in [User -> Record]
      /\ pc \in [User -> Steps] /\ target \in [User -> User] /\ target[u] \in User
      /\ \A v \in User : /\ friends[v] \in FriendList /\ doc[v].friends \in FriendList
                         /\ copy[v].friends \in FriendList /\ target[v] \in User
      /\ \A v \in User : /\ friends'[v] \in FriendList /\ doc'[v].friends \in FriendList
                         /\ copy'[v].friends \in FriendList
  BY DEF TypeOK, Record
<1>a. \A v \in User : /\ AgreedList(asked', v, friends[v]) /\ AgreedList(asked', v, doc[v].friends)
  BY <1>0, AgreedLists DEF ListsAgreed
<1>b. \A v \in User :
         /\ pc[v] \in {"loadHash", "loadFriends", "loadChats", "saveChats", "saveDoc"}
                => AgreedList(asked', v, copy[v].friends)
         /\ pc[v] = "writeDoc" => AgreedList(asked', target[v], copy[v].friends)
  BY <1>0, AgreedLists DEF ListsAgreed
\* Lists are extended only with what is agreed.
<1>1. \A v \in User : AgreedList(asked', v, friends'[v])
  <2>1. CASE LoadFriends(u)
    <3>1. AgreedList(asked', u, friends[u] \o copy[u].friends)
      BY <1>0, <1>a, <1>b, <2>1, AgreedLists DEF LoadFriends
    <3> QED
      BY <1>0, <1>a, <2>1, <3>1 DEF LoadFriends
  <2>2. CASE DelFriends(u)
    <3>1. AgreedList(asked', u, <<>>)
      BY ElemsEmpty DEF AgreedList
    <3> QED
      BY <1>0, <1>a, <2>2, <3>1 DEF DelFriends
  <2>3. CASE PushFriend(u)
    <3>1. Owner(u) \in User /\ Other(u) \in User
      BY <1>0 DEF Owner, Other
    <3>2. <<Owner(u), Other(u)>> \in asked' /\ <<Other(u), Owner(u)>> \in asked'
      BY <1>0, <2>3 DEF PushFriend, Owner, Other, AddsAsked, AddSteps
    <3>3. AgreedList(asked', Owner(u), Append(friends[Owner(u)], Other(u)))
      BY <1>0, <1>a, <3>1, <3>2, AgreedLists
    <3> QED
      BY <1>0, <1>a, <2>3, <3>1, <3>3 DEF PushFriend
  <2>4. CASE friends' = friends
    BY <1>a, <2>4
  <2> QED
    BY <2>1, <2>2, <2>3, <2>4 DEF Step, Connect, Disconnect, RequestFriend, Load, LoadSocket, LoadDoc,
       LoadHash, LoadChats, Save, SaveNums, SaveFriends, SaveChats, SaveDoc, DelHash, DelChats,
       Add, CheckSent, CheckReceived, Invite, Accept, IncFriends, NewRoom, PushChat, IncChats,
       CheckOnline, ReadDoc, WriteDoc, PushDoc
<1>2. \A v \in User : AgreedList(asked', v, doc'[v].friends)
  <2>1. CASE SaveDoc(u)
    BY <1>0, <1>a, <1>b, <2>1 DEF SaveDoc
  <2>2. CASE WriteDoc(u)
    BY <1>0, <1>a, <1>b, <2>2 DEF WriteDoc
  <2>3. CASE PushDoc(u)
    <3>1. \A v \in User : doc'[v].friends = doc[v].friends
      BY <1>0, <2>3 DEF PushDoc, Record
    <3> QED
      BY <1>a, <3>1
  <2>4. CASE doc' = doc
    BY <1>a, <2>4
  <2> QED
    BY <2>1, <2>2, <2>3, <2>4 DEF Step, Connect, Disconnect, RequestFriend, Load, LoadSocket, LoadDoc,
       LoadHash, LoadFriends, LoadChats, Save, SaveNums, SaveFriends, SaveChats, DelHash,
       DelFriends, DelChats, Add, CheckSent, CheckReceived, Invite, Accept, PushFriend,
       IncFriends, NewRoom, PushChat, IncChats, CheckOnline, ReadDoc
\* What the thread has in its hands.
<1>3. /\ pc'[u] \in {"loadHash", "loadFriends", "loadChats", "saveChats", "saveDoc"}
            => AgreedList(asked', u, copy'[u].friends)
      /\ pc'[u] = "writeDoc" => AgreedList(asked', target'[u], copy'[u].friends)
  <2>1. CASE LoadDoc(u)
    BY <1>0, <1>a, <2>1 DEF LoadDoc
  <2>2. CASE SaveFriends(u)
    <3>0. nums[u][1] \in Nat
      BY DEF TypeOK
    <3>1. copy'[u].friends = First(friends[u], nums[u][1])
      <4> DEFINE array == First(friends[u], nums[u][1])
      <4>1. array \in FriendList
        BY <1>0, <3>0, ElemsFirst DEF FriendList
      <4>2. copy' = [copy EXCEPT ![u] = [copy[u] EXCEPT !.friends = array]]
        BY <2>2 DEF TypeOK, SaveFriends
      <4> HIDE DEF array
      <4>3. copy[u] \in Record /\ copy'[u] = [copy[u] EXCEPT !.friends = array]
        BY <1>0, <4>2
      <4>4. copy'[u].friends = array
        BY <4>1, <4>3, RecordFields
      <4> QED
        BY <4>4 DEF array
    <3>2. AgreedList(asked', u, First(friends[u], nums[u][1]))
      BY <1>0, <1>a, <3>0, AgreedArray
    <3> QED
      BY <1>0, <2>2, <3>1, <3>2 DEF SaveFriends
  <2>3. CASE SaveChats(u)
    <3>1. copy'[u].friends = copy[u].friends
      BY <1>0, <2>3 DEF SaveChats, Record
    <3> QED
      BY <1>0, <1>b, <2>3, <3>1 DEF SaveChats
  <2>4. CASE ReadDoc(u)
    <3>1. <<target[u], u>> \in asked' /\ <<u, target[u]>> \in asked'
      BY <1>0, <2>4 DEF ReadDoc, AddsAsked, AddSteps
    <3>2. copy'[u].friends = Append(doc[target[u]].friends, u)
      BY <1>0, <2>4 DEF ReadDoc, Record
    <3>3. AgreedList(asked', target[u], Append(doc[target[u]].friends, u))
      BY <1>0, <1>a, <3>1, AgreedLists
    <3> QED
      BY <1>0, <2>4, <3>2, <3>3 DEF ReadDoc
  <2>5. CASE /\ copy' = copy
             /\ \/ /\ pc[u] \in {"loadHash", "loadFriends"}
                   /\ pc'[u] \in {"loadFriends", "loadChats"}
                \/ pc'[u] \notin {"loadHash", "loadFriends", "loadChats", "saveChats", "saveDoc",
                                   "writeDoc"}
    BY <1>b, <2>5
  <2>6. CASE Connect(u) \/ Disconnect(u) \/ \E v \in User : RequestFriend(u, v)
    BY <1>0, <2>5, <2>6 DEF Connect, Disconnect, RequestFriend
  <2>7. CASE Load(u)
    BY <1>0, <2>1, <2>5, <2>7 DEF Load, LoadSocket, LoadHash, LoadFriends, LoadChats
  <2>8. CASE Save(u)
    BY <1>0, <2>2, <2>3, <2>5, <2>8 DEF Save, SaveNums, SaveDoc, DelHash, DelFriends, DelChats
  <2>9. CASE CheckSent(u) \/ CheckReceived(u) \/ Invite(u) \/ Accept(u)
    BY <1>0, <2>5, <2>9 DEF CheckSent, CheckReceived, Invite, Accept
  <2>10. CASE PushFriend(u) \/ IncFriends(u) \/ NewRoom(u) \/ PushChat(u) \/ IncChats(u)
    BY <1>0, <2>5, <2>10 DEF PushFriend, IncFriends, NewRoom, PushChat, IncChats
  <2>11. CASE CheckOnline(u) \/ WriteDoc(u) \/ PushDoc(u)
    BY <1>0, <2>5, <2>11 DEF CheckOnline, WriteDoc, PushDoc
  <2> QED
    BY <2>4, <2>6, <2>7, <2>8, <2>9, <2>10, <2>11 DEF Step, Add
<1>4. \A v \in User \ {u} : pc'[v] = pc[v] /\ copy'[v] = copy[v] /\ target'[v] = target[v]
  BY OthersKept DEF TypeOK
<1> QED
  BY <1>1, <1>2, <1>3, <1>4, <1>b DEF ListsAgreed

\* Rooms are only added.
LEMMA MembersStay ==
    ASSUME TypeOK, NEW u \in User, Step(u)
    PROVE  \A v \in User, c \in Nat : Member(rooms, v, c) => Member(rooms', v, c)
<1> USE DEF redis, locals, bounds
<1>1. CASE NewRoom(u)
  <2>1. rooms \in Seq(SUBSET User) /\ {u, target[u]} \in SUBSET User
    BY DEF TypeOK
  <2>2. rooms' = Append(rooms, {u, target[u]})
    BY <1>1 DEF NewRoom
  <2>3. \A c \in DOMAIN rooms : c \in DOMAIN rooms' /\ rooms'[c] = rooms[c]
    BY <2>1, <2>2
  <2> QED
    BY <2>3 DEF Member
<1>2. CASE rooms' = rooms
  BY <1>2
<1> QED
  BY <1>1, <1>2 DEF Step, Connect, Disconnect, RequestFriend, Load, LoadSocket, LoadDoc, LoadHash,
     LoadFriends, LoadChats, Save, SaveNums, SaveFriends, SaveChats, SaveDoc, DelHash, DelFriends,
     DelChats, Add, CheckSent, CheckReceived, Invite, Accept, PushFriend, IncFriends, PushChat,
     IncChats, CheckOnline, ReadDoc, WriteDoc, PushDoc

\* A user's own list stays so when rooms are added, and when it grows by his rooms
\* or garbage.
LEMMA OwnLists ==
    ASSUME NEW Q, NEW R, NEW u \in User, NEW list \in ChatList, OwnList(Q, u, list),
           \A c \in Nat : Member(Q, u, c) => Member(R, u, c)
    PROVE  /\ OwnList(R, u, list)
           /\ \A more \in ChatList : OwnList(Q, u, more) => OwnList(R, u, list \o more)
           /\ \A n \in Nat : OwnList(R, u, First(list, n))
           /\ \A c \in Nat : Member(R, u, c) => OwnList(R, u, Append(list, c))
<1>0. ASSUME NEW more \in ChatList, OwnList(Q, u, more) PROVE OwnList(R, u, more)
  <2>1. Elems(more) \subseteq Nat \cup {Garbage}
    BY DEF ChatList, Elems
  <2> QED
    BY <1>0, <2>1 DEF OwnList
<1>1. OwnList(R, u, list)
  BY <1>0
<1>2. ASSUME NEW more \in ChatList, OwnList(Q, u, more) PROVE OwnList(R, u, list \o more)
  <2>1. Elems(list \o more) \subseteq Elems(list) \cup Elems(more)
    BY ElemsConcat DEF ChatList
  <2> QED
    BY <1>0, <1>1, <1>2, <2>1 DEF OwnList
<1>3. ASSUME NEW n \in Nat PROVE OwnList(R, u, First(list, n))
  <2>1. Elems(First(list, n)) \subseteq Elems(list) \cup {Garbage}
    BY ElemsFirst DEF ChatList
  <2> QED
    BY <1>1, <2>1 DEF OwnList
<1>4. ASSUME NEW c \in Nat, Member(R, u, c) PROVE OwnList(R, u, Append(list, c))
  <2>1. Elems(Append(list, c)) = Elems(list) \cup {c}
    BY ElemsAppend DEF ChatList
  <2> QED
    BY <1>1, <1>4, <2>1 DEF OwnList
<1> QED
  BY <1>1, <1>2, <1>3, <1>4

\* The room of an accepted request has both users.
LEMMA SharedKept ==
    ASSUME TypeOK, RoomsShared, NEW u \in User, Step(u)
    PROVE  RoomsShared'
<1> USE DEF redis, locals, bounds, Go, HasRoom
<1>0. /\ pc \in [User -> Steps] /\ target \in [User -> User] /\ chat \in [User -> Nat]
      /\ side \in [User -> {"own", "other"}] /\ target[u] \in User
  BY DEF TypeOK
<1>1. \A v \in User : HasRoom(v) =>
          Member(rooms', v, chat[v]) /\ Member(rooms', target[v], chat[v])
  BY <1>0, MembersStay DEF RoomsShared
<1>2. HasRoom(u)' => Member(rooms', u, chat'[u]) /\ Member(rooms', target'[u], chat'[u])
  <2>1. CASE NewRoom(u)
    <3>1. rooms \in Seq(SUBSET User) /\ {u, target[u]} \in SUBSET User
      BY DEF TypeOK
    <3>2. rooms' = Append(rooms, {u, target[u]}) /\ chat'[u] = Len(rooms) + 1 /\ target' = target
      BY <1>0, <2>1 DEF NewRoom, RoomId
    <3>3. chat'[u] \in DOMAIN rooms' /\ rooms'[chat'[u]] = {u, target[u]}
      BY <3>1, <3>2
    <3> QED
      BY <3>2, <3>3 DEF Member
  <2>2. CASE chat' = chat /\ target' = target /\ (HasRoom(u)' => HasRoom(u))
    BY <1>1, <2>2
  <2>3. CASE Connect(u) \/ Disconnect(u) \/ \E v \in User : RequestFriend(u, v)
    BY <1>0, <2>3 DEF Connect, Disconnect, RequestFriend
  <2>4. CASE Load(u)
    BY <1>0, <2>4 DEF Load, LoadSocket, LoadDoc, LoadHash, LoadFriends, LoadChats
  <2>5. CASE Save(u)
    BY <1>0, <2>5 DEF Save, SaveNums, SaveFriends, SaveChats, SaveDoc, DelHash, DelFriends, DelChats
  <2>6. CASE CheckSent(u) \/ CheckReceived(u) \/ Invite(u)
    BY <1>0, <2>6 DEF CheckSent, CheckReceived, Invite
  <2>7. CASE Accept(u)
    BY <1>0, <2>7 DEF Accept, RoomsShared
  <2>8. CASE PushFriend(u) \/ IncFriends(u) \/ PushChat(u) \/ IncChats(u)
    BY <1>0, <2>2, <2>8 DEF PushFriend, IncFriends, PushChat, IncChats
  <2>9. CASE CheckOnline(u) \/ ReadDoc(u) \/ WriteDoc(u) \/ PushDoc(u)
    BY <1>0, <2>2, <2>9 DEF CheckOnline, ReadDoc, WriteDoc, PushDoc
  <2> QED
    BY <2>1, <2>3, <2>4, <2>5, <2>6, <2>7, <2>8, <2>9 DEF Step, Add
<1>3. \A v \in User \ {u} : (HasRoom(v)' <=> HasRoom(v)) /\ chat'[v] = chat[v] /\ target'[v] = target[v]
  BY OthersKept
<1>4. pc'[u] \in {"addSent", "addReceived", "accept"} => side'[u] = "own"
  <2>1. CASE Connect(u) \/ Disconnect(u) \/ \E v \in User : RequestFriend(u, v)
    BY <1>0, <2>1 DEF Connect, Disconnect, RequestFriend
  <2>2. CASE Load(u)
    BY <1>0, <2>2 DEF Load, LoadSocket, LoadDoc, LoadHash, LoadFriends, LoadChats
  <2>3. CASE Save(u)
    BY <1>0, <2>3 DEF Save, SaveNums, SaveFriends, SaveChats, SaveDoc, DelHash, DelFriends, DelChats
  <2>4. CASE CheckSent(u) \/ CheckReceived(u)
    BY <1>0, <2>4 DEF CheckSent, CheckReceived, RoomsShared
  <2>5. CASE pc'[u] \notin {"addSent", "addReceived", "accept"}
    BY <2>5
  <2> QED
    BY <1>0, <2>1, <2>2, <2>3, <2>4, <2>5 DEF Step, Add, Invite, Accept, PushFriend, IncFriends,
       NewRoom, PushChat, IncChats, CheckOnline, ReadDoc, WriteDoc, PushDoc
<1>5. \A v \in User \ {u} : pc'[v] = pc[v] /\ side'[v] = side[v]
  BY OthersKept
<1> QED
  BY <1>1, <1>2, <1>3, <1>4, <1>5 DEF RoomsShared

LEMMA ChatsKept ==
    ASSUME TypeOK, TypeOK', RoomsShared, ListsOwn, NEW u \in User, Step(u)
    PROVE  ListsOwn'
<1> USE DEF redis, locals, bounds, Go
<1>0. /\ chats \in [User -> ChatList] /\ doc \in [User -> Record]
      /\ copy \in [User -> Record]
      /\ pc \in [User -> Steps] /\ target \in [User -> User] /\ target[u] \in User
      /\ chat[u] \in Nat
      /\ \A v \in User : /\ chats[v] \in ChatList /\ doc[v] \in Record /\ doc[v].chats \in ChatList
                         /\ copy[v] \in Record /\ copy[v].chats \in ChatList /\ target[v] \in User
  BY DEF TypeOK, Record
<1>1. \A v \in User, c \in Nat : Member(rooms, v, c) => Member(rooms', v, c)
  BY MembersStay
<1>a. \A v \in User : OwnList(rooms', v, chats[v]) /\ OwnList(rooms', v, doc[v].chats)
  BY <1>0, <1>1, OwnLists DEF ListsOwn
<1>b. \A v \in User :
         /\ pc[v] \in {"loadHash", "loadFriends", "loadChats", "saveDoc"} => OwnList(rooms', v, copy[v].chats)
         /\ pc[v] = "writeDoc" => OwnList(rooms', target[v], copy[v].chats)
  BY <1>0, <1>1, OwnLists DEF ListsOwn
\* Lists are extended only with a room that was made for both.
<1>2. \A v \in User : OwnList(rooms', v, chats'[v])
  <2>1. CASE LoadChats(u)
    <3>1. pc[u] = "loadChats" /\ OwnList(rooms, u, chats[u]) /\ OwnList(rooms, u, copy[u].chats)
      BY <1>0, <2>1 DEF LoadChats, ListsOwn
    <3>2. OwnList(rooms', u, chats[u] \o copy[u].chats)
      BY <1>0, <1>1, <3>1, OwnLists
    <3> QED
      BY <1>0, <1>a, <2>1, <3>2 DEF LoadChats
  <2>2. CASE DelChats(u)
    <3>1. OwnList(rooms', u, <<>>)
      BY ElemsEmpty DEF OwnList
    <3> QED
      BY <1>0, <1>a, <2>2, <3>1 DEF DelChats
  <2>3. CASE PushChat(u)
    <3>1. Owner(u) \in User
      BY <1>0 DEF Owner
    <3>2. OwnList(rooms, Owner(u), chats[Owner(u)]) /\ Member(rooms', Owner(u), chat[u])
      BY <1>0, <1>1, <2>3, <3>1 DEF PushChat, Owner, RoomsShared, HasRoom, ListsOwn
    <3>3. OwnList(rooms', Owner(u), Append(chats[Owner(u)], chat[u]))
      BY <1>0, <1>1, <3>1, <3>2, OwnLists
    <3> QED
      BY <1>0, <1>a, <2>3, <3>1, <3>3 DEF PushChat
  <2>4. CASE chats' = chats
    BY <1>a, <2>4
  <2> QED
    BY <2>1, <2>2, <2>3, <2>4 DEF Step, Connect, Disconnect, RequestFriend, Load, LoadSocket, LoadDoc,
       LoadHash, LoadFriends, Save, SaveNums, SaveFriends, SaveChats, SaveDoc, DelHash, DelFriends,
       Add, CheckSent, CheckReceived, Invite, Accept, PushFriend, IncFriends, NewRoom, IncChats,
       CheckOnline, ReadDoc, WriteDoc, PushDoc
<1>3. \A v \in User : OwnList(rooms', v, doc'[v].chats)
  <2>1. CASE SaveDoc(u)
    BY <1>0, <1>a, <1>b, <2>1 DEF SaveDoc
  <2>2. CASE WriteDoc(u)
    BY <1>0, <1>a, <1>b, <2>2 DEF WriteDoc
  <2>3. CASE PushDoc(u)
    <3>1. OwnList(rooms, target[u], doc[target[u]].chats) /\ Member(rooms', target[u], chat[u])
      BY <1>0, <1>1, <2>3 DEF PushDoc, RoomsShared, HasRoom, ListsOwn
    <3>2. OwnList(rooms', target[u], Append(doc[target[u]].chats, chat[u]))
      BY <1>0, <1>1, <3>1, OwnLists
    <3>3. Append(doc[target[u]].chats, chat[u]) \in ChatList
      BY <1>0, ElemsAppend DEF ChatList
    <3>4. doc' = [doc EXCEPT ![target[u]] = [doc[target[u]] EXCEPT !.chats = Append(@, chat[u])]]
      BY <1>0, <2>3 DEF PushDoc
    <3>5. doc'[target[u]].chats = Append(doc[target[u]].chats, chat[u])
      BY <1>0, <3>3, <3>4, RecordFields
    <3> QED
      BY <1>0, <1>a, <3>2, <3>4, <3>5
  <2>4. CASE doc' = doc
    BY <1>a, <2>4
  <2> QED
    BY <2>1, <2>2, <2>3, <2>4 DEF Step, Connect, Disconnect, RequestFriend, Load, LoadSocket, LoadDoc,
       LoadHash, LoadFriends, LoadChats, Save, SaveNums, SaveFriends, SaveChats, DelHash,
       DelFriends, DelChats, Add, CheckSent, CheckReceived, Invite, Accept, PushFriend,
       IncFriends, NewRoom, PushChat, IncChats, CheckOnline, ReadDoc
\* What the thread has in its hands.
<1>4. /\ pc'[u] \in {"loadHash", "loadFriends", "loadChats", "saveDoc"}
            => OwnList(rooms', u, copy'[u].chats)
      /\ pc'[u] = "writeDoc" => OwnList(rooms', target'[u], copy'[u].chats)
  <2>1. CASE LoadDoc(u)
    BY <1>0, <1>a, <2>1 DEF LoadDoc
  <2>2. CASE SaveFriends(u)
    BY <1>0, <2>2 DEF SaveFriends
  <2>3. CASE SaveChats(u)
    <3>0. nums[u][2] \in Nat
      BY DEF TypeOK
    <3>1. copy' = [copy EXCEPT ![u] = [copy[u] EXCEPT !.chats = First(chats[u], nums[u][2])]]
      BY <2>3 DEF TypeOK, SaveChats
    <3>2. First(chats[u], nums[u][2]) \in ChatList
      BY <1>0, <3>0, ElemsFirst DEF ChatList
    <3>3. copy'[u].chats = First(chats[u], nums[u][2])
      BY <1>0, <3>1, <3>2, RecordFields
    <3>4. OwnList(rooms, u, chats[u])
      BY DEF ListsOwn
    <3>5. OwnList(rooms', u, First(chats[u], nums[u][2]))
      BY <1>0, <1>1, <3>0, <3>4, OwnLists
    <3> QED
      BY <1>0, <2>3, <3>3, <3>5 DEF SaveChats
  <2>4. CASE ReadDoc(u)
    <3>1. Append(doc[target[u]].friends, u) \in FriendList
      BY <1>0, RecordFields, ElemsAppend DEF FriendList
    <3>2. copy'[u].chats = doc[target[u]].chats
      BY <1>0, <2>4, <3>1, RecordFields DEF ReadDoc
    <3> QED
      BY <1>0, <1>a, <2>4, <3>2 DEF ReadDoc
  <2>5. CASE /\ copy' = copy
             /\ \/ /\ pc[u] \in {"loadHash", "loadFriends"}
                   /\ pc'[u] \in {"loadFriends", "loadChats"}
                \/ pc'[u] \notin {"loadHash", "loadFriends", "loadChats", "saveDoc", "writeDoc"}
    BY <1>b, <2>5
  <2>6. CASE Connect(u) \/ Disconnect(u) \/ \E v \in User : RequestFriend(u, v)
    BY <1>0, <2>5, <2>6 DEF Connect, Disconnect, RequestFriend
  <2>7. CASE Load(u)
    BY <1>0, <2>1, <2>5, <2>7 DEF Load, LoadSocket, LoadHash, LoadFriends, LoadChats
  <2>8. CASE Save(u)
    BY <1>0, <2>2, <2>3, <2>5, <2>8 DEF Save, SaveNums, SaveDoc, DelHash, DelFriends, DelChats
  <2>9. CASE CheckSent(u) \/ CheckReceived(u) \/ Invite(u) \/ Accept(u)
    BY <1>0, <2>5, <2>9 DEF CheckSent, CheckReceived, Invite, Accept
  <2>10. CASE PushFriend(u) \/ IncFriends(u) \/ NewRoom(u) \/ PushChat(u) \/ IncChats(u)
    BY <1>0, <2>5, <2>10 DEF PushFriend, IncFriends, NewRoom, PushChat, IncChats
  <2>11. CASE CheckOnline(u) \/ WriteDoc(u) \/ PushDoc(u)
    BY <1>0, <2>5, <2>11 DEF CheckOnline, WriteDoc, PushDoc
  <2> QED
    BY <2>4, <2>6, <2>7, <2>8, <2>9, <2>10, <2>11 DEF Step, Add
<1>5. \A v \in User \ {u} : pc'[v] = pc[v] /\ copy'[v] = copy[v] /\ target'[v] = target[v]
  BY OthersKept
<1> QED
  BY <1>2, <1>3, <1>4, <1>5, <1>b DEF ListsOwn

-----------------------------------------------------------------------------
(* The theorems.                                                           *)

LEMMA Initial == Init => IInv
<1> SUFFICES ASSUME Init PROVE IInv
  OBVIOUS
<1>1. NoRecord \in Record /\ NoHash \in Hash /\ <<>> \in FriendList /\ <<>> \in ChatList
      /\ NoRecord.friends = <<>> /\ NoRecord.chats = <<>>
  BY DEF NoRecord, NoHash, Record, Hash, FriendList, ChatList
<1>2. TypeOK
  <2>1. /\ doc \in [User -> Record] /\ copy \in [User -> Record] /\ hash \in [User -> Hash]
        /\ friends \in [User -> FriendList] /\ chats \in [User -> ChatList]
    BY <1>1 DEF Init
  <2>2. /\ invites \in [User -> SUBSET User] /\ target \in [User -> User]
        /\ rooms \in Seq(SUBSET User) /\ asked \subseteq User \X User
    BY DEF Init
  <2>3. pc \in [User -> Steps] /\ side \in [User -> {"own", "other"}]
    BY DEF Init, Steps
  <2>4. nums \in [User -> Nat \X Nat] /\ chat \in [User -> Nat]
    BY DEF Init
  <2> QED
    BY <2>1, <2>2, <2>3, <2>4 DEF TypeOK
<1>3. InvitesAsked /\ AddsAsked /\ RoomsShared
  BY DEF Init, InvitesAsked, AddsAsked, AddSteps, RoomsShared, HasRoom
<1>4. ListsAgreed /\ ListsOwn
  BY <1>1, ElemsEmpty DEF Init, ListsAgreed, AgreedList, ListsOwn, OwnList
<1> QED
  BY <1>2, <1>3, <1>4 DEF IInv

LEMMA StepKept == IInv /\ [Next]_vars => IInv'
<1> SUFFICES ASSUME IInv, [Next]_vars PROVE IInv'
  OBVIOUS
<1>1. ASSUME NEW u \in User, Step(u) PROVE IInv'
  <2>1. TypeOK'
    BY <1>1, TypesKept DEF IInv
  <2>2. asked \subseteq asked' /\ InvitesAsked' /\ AddsAsked'
    BY <1>1, AskedKept DEF IInv
  <2>3. ListsAgreed'
    BY <1>1, <2>1, <2>2, FriendsKept DEF IInv
  <2>4. RoomsShared' /\ ListsOwn'
    BY <1>1, <2>1, SharedKept, ChatsKept DEF IInv
  <2> QED
    BY <2>1, <2>2, <2>3, <2>4 DEF IInv
<1>2. CASE UNCHANGED vars
  BY <1>2 DEF vars, redis, locals, bounds, IInv, TypeOK, InvitesAsked, AddsAsked, ListsAgreed,
      RoomsShared, HasRoom, ListsOwn
<1> QED
  BY <1>1, <1>2 DEF Next

\* The inductive invariant of the threads that invite, accept, load and save.
THEOREM Invariance == Spec => []IInv
<1>1. Init => IInv
  BY Initial
<1>2. IInv /\ [Next]_vars => IInv'
  BY StepKept
<1> QED
  BY <1>1, <1>2, PTL DEF Spec

\* The variables keep their types.
THEOREM TypeCorrect == Spec => []TypeOK
<1>1. IInv => TypeOK
  BY DEF IInv
<1> QED
  BY <1>1, Invariance, PTL

\* Nobody becomes a friend without having asked and having been asked
\* (on_friend_add_request, event_handler.c).
THEOREM NobodyIsAFriendUnasked == Spec => []FriendsAgreed
<1>1. IInv => FriendsAgreed
  BY DEF IInv, ListsAgreed, AgreedList, FriendsAgreed, Agreed
<1> QED
  BY <1>1, Invariance, PTL

\* Nobody has a chat of which he is no member, in either copy of his record
\* (on_friend_add_request, event_handler.c).
THEOREM ChatsAreOwnRooms == Spec => []ChatsAreOwn
<1>1. IInv => ChatsAreOwn
  BY DEF IInv, ListsOwn, OwnList, ChatsAreOwn
<1> QED
  BY <1>1, Invariance, PTL

-----------------------------------------------------------------------------
(* As long as no two operations have overlapped: where a user's record is, *)
(* and what a request adds to it.                                          *)

\* The record is in Redis, with what its owner and a friend have pushed to it.
SaveSteps == {"saveNums", "saveFriends", "saveChats", "saveDoc"}
InRedis(v) == pc[v] \in {"idle"} \cup AddSteps \cup SaveSteps

OneWorks == \A u, v \in User : u = v \/ Resting(u) \/ Resting(v)

\* A request is to another user, and extends the copy of his record that is in use.
PushSteps == {"pushFriend", "incFriends", "pushChat", "incChats"}
TargetsPlaced ==
    \A u \in User :
        /\ pc[u] \in AddSteps => target[u] # u
        /\ pc[u] \in PushSteps => InRedis(Owner(u))
        /\ pc[u] \in {"newRoom", "online"} => side[u] = "own"
        /\ pc[u] \in {"readDoc", "writeDoc", "pushDoc"} => pc[target[u]] = "off"

\* An entry that is pushed is not counted yet.
Uncounted(v, step) == \E u \in User : pc[u] = step /\ Owner(u) = v
CountsAgree ==
    \A v \in User : InRedis(v) =>
        /\ hash[v].socket
        /\ Len(friends[v]) = hash[v].fnum + (IF Uncounted(v, "incFriends") THEN 1 ELSE 0)
        /\ Len(chats[v])   = hash[v].cnum + (IF Uncounted(v, "incChats") THEN 1 ELSE 0)

Sound(list)   == Garbage \notin Elems(list)
RecordsSound ==
    \A v \in User : /\ Sound(friends[v]) /\ Sound(chats[v])
                    /\ Sound(doc[v].friends) /\ Sound(doc[v].chats)

\* What the data request has copied from the document so far.
Loading ==
    \A v \in User :
        /\ pc[v] \in {"off", "loadSocket"} => hash[v] = NoHash
        /\ pc[v] \in {"off", "loadSocket", "loadDoc", "loadHash", "loadFriends"} =>
               friends[v] = <<>> /\ chats[v] = <<>>
        /\ pc[v] = "loadChats" => friends[v] = doc[v].friends /\ chats[v] = <<>>
        /\ pc[v] \in {"loadDoc", "loadHash", "loadFriends", "loadChats"} => hash[v].socket
        /\ pc[v] \in {"loadHash", "loadFriends", "loadChats"} => copy[v] = doc[v]
        /\ pc[v] \in {"loadFriends", "loadChats"} =>
               hash[v].fnum = Len(doc[v].friends) /\ hash[v].cnum = Len(doc[v].chats)

\* What the end of the connection has copied, and deleted, so far; and what a
\* request has read of the record of a friend who is off line.
Saving ==
    \A v \in User :
        /\ pc[v] \in {"saveFriends", "saveChats", "saveDoc"} =>
               nums[v] = <<Len(friends[v]), Len(chats[v])>>
        /\ pc[v] \in {"saveChats", "saveDoc"} => copy[v].friends = friends[v]
        /\ pc[v] = "saveDoc" => copy[v].chats = chats[v]
        /\ pc[v] \in {"delFriends", "delChats"} => hash[v] = NoHash
        /\ pc[v] = "delChats" => friends[v] = <<>>
        /\ pc[v] = "writeDoc" =>
               /\ copy[v].friends = Append(doc[target[v]].friends, v)
               /\ copy[v].chats = doc[target[v]].chats

Kept == ~overlap =>
    OneWorks /\ TargetsPlaced /\ CountsAgree /\ RecordsSound /\ Loading /\ Saving

\* The record of a user, wherever it is.
FriendsNow(v) == IF InRedis(v) THEN Elems(friends[v]) ELSE Elems(doc[v].friends)
ChatsNow(v)   == IF InRedis(v) THEN Elems(chats[v])   ELSE Elems(doc[v].chats)
Friendly(u, v) ==
    v \in FriendsNow(u) /\ u \in FriendsNow(v) /\ ChatsNow(u) \cap ChatsNow(v) # {}

Adding(u, v) == pc[u] \in AddSteps /\ target[u] = v

\* Where no request is being served, whoever has asked is a friend or has invited.
PairsSettled ==
    \A u, v \in User : u # v /\ ~Adding(u, v) /\ ~Adding(v, u) /\ <<u, v>> \in asked =>
        IF <<v, u>> \in asked THEN Friendly(u, v) ELSE u \in invites[v]

\* Where one is, it finds the invitation that it is the answer to.
AnswersFound ==
    \A u \in User : pc[u] \in AddSteps /\ <<target[u], u>> \in asked =>
        /\ pc[u] = "addSent" =>
               \/ Friendly(u, target[u])
               \/ target[u] \in invites[u] /\ u \notin invites[target[u]]
        /\ pc[u] = "addReceived" => Friendly(u, target[u]) \/ target[u] \in invites[u]
        /\ pc[u] = "invite" => Friendly(u, target[u])

\* What an accepted request has added so far.
FriendGiven(u) == \/ side[u] = "other"
                  \/ pc[u] \in {"incFriends", "newRoom", "pushChat", "incChats", "online"}
Halves ==
    \A u \in User : pc[u] \in AddSteps \ {"addSent", "addReceived", "invite", "accept"} =>
        /\ FriendGiven(u) => target[u] \in FriendsNow(u)
        /\ side[u] = "other" \/ pc[u] \in {"incChats", "online"} => chat[u] \in ChatsNow(u)
        /\ side[u] = "other" /\ pc[u] \in {"incFriends", "pushChat", "incChats", "pushDoc"} =>
               u \in FriendsNow(target[u])
        /\ side[u] = "other" /\ pc[u] = "incChats" => chat[u] \in ChatsNow(target[u])
        /\ pc[u] \in {"readDoc", "writeDoc", "pushDoc"} => side[u] = "other"

Agreeing == ~overlap => PairsSettled /\ AnswersFound /\ Halves

-----------------------------------------------------------------------------
(* Kept is inductive.                                                      *)

\* What is copied whole, and what is appended.
LEMMA WholeLists ==
    ASSUME NEW S, NEW list \in Seq(S)
    PROVE  /\ Len(list) \in Nat
           /\ <<>> \o list = list
           /\ First(list, Len(list)) = list
           /\ \A x \in S : Len(Append(list, x)) = Len(list) + 1
<1>1. First(list, Len(list)) = list
  <2>1. \A i \in 1..Len(list) : First(list, Len(list))[i] = list[i]
    BY DEF First
  <2>2. DOMAIN list = 1..Len(list) /\ DOMAIN First(list, Len(list)) = 1..Len(list)
    BY DEF First
  <2>3. list = [i \in DOMAIN list |-> list[i]]
    BY ElementOfSeq
  <2> QED
    BY <2>1, <2>2, <2>3 DEF First
<1>2. <<>> \o list = list
  BY ConcatEmptySeq
<1> QED
  BY <1>1, <1>2

\* A hash of which some fields are set.
LEMMA HashSet ==
    ASSUME NEW h \in Hash
    PROVE  /\ h.fnum \in Nat /\ h.cnum \in Nat
           /\ [h EXCEPT !.socket = TRUE].socket
           /\ \A n \in Nat : /\ [h EXCEPT !.fnum = n].fnum = n
                             /\ [h EXCEPT !.fnum = n].cnum = h.cnum
                             /\ [h EXCEPT !.fnum = n].socket = h.socket
                             /\ [h EXCEPT !.cnum = n].cnum = n
                             /\ [h EXCEPT !.cnum = n].fnum = h.fnum
                             /\ [h EXCEPT !.cnum = n].socket = h.socket
           /\ \A m, n \in Nat :
                  /\ [h EXCEPT !.data = TRUE, !.fnum = m, !.cnum = n].fnum = m
                  /\ [h EXCEPT !.data = TRUE, !.fnum = m, !.cnum = n].cnum = n
                  /\ [h EXCEPT !.data = TRUE, !.fnum = m, !.cnum = n].socket = h.socket
<1>1. h.fnum \in Nat /\ h.cnum \in Nat /\ [h EXCEPT !.socket = TRUE].socket
  BY DEF Hash
<1>2. \A n \in Nat : /\ [h EXCEPT !.fnum = n].fnum = n
                     /\ [h EXCEPT !.fnum = n].cnum = h.cnum
                     /\ [h EXCEPT !.fnum = n].socket = h.socket
  BY DEF Hash
<1>3. \A n \in Nat : /\ [h EXCEPT !.cnum = n].cnum = n
                     /\ [h EXCEPT !.cnum = n].fnum = h.fnum
                     /\ [h EXCEPT !.cnum = n].socket = h.socket
  BY DEF Hash
<1>4. \A m, n \in Nat :
          /\ [h EXCEPT !.data = TRUE, !.fnum = m, !.cnum = n].fnum = m
          /\ [h EXCEPT !.data = TRUE, !.fnum = m, !.cnum = n].cnum = n
          /\ [h EXCEPT !.data = TRUE, !.fnum = m, !.cnum = n].socket = h.socket
  BY DEF Hash
<1> QED
  BY <1>1, <1>2, <1>3, <1>4

\* A step that leaves two operations un-overlapped is of the only one there is.
LEMMA AloneStep ==
    ASSUME TypeOK, NEW u \in User, Step(u), Noted(u), ~overlap'
    PROVE  /\ ~overlap /\ OneWorks'
           /\ \A v \in User \ {u} : Resting(v) /\ Resting(v)' /\ pc'[v] = pc[v]
<1>1. ~overlap /\ \A v \in User \ {u} : Resting(v)
  BY DEF Noted
<1>2. \A v \in User \ {u} : Resting(v)'
  BY <1>1, OthersKept DEF Resting
<1>3. OneWorks'
  BY <1>2 DEF OneWorks
<1> QED
  BY <1>1, <1>2, <1>3, OthersKept

\* The list that a request extends is that of the user himself or of a friend at rest.
LEMMA Owners ==
    ASSUME TypeOK, NEW u \in User, pc[u] \in AddSteps, TargetsPlaced
    PROVE  /\ target[u] \in User \ {u} /\ Owner(u) \in User /\ Other(u) \in User
           /\ Owner(u) # Other(u) /\ Owner(u) \in {u, target[u]}
BY DEF TypeOK, TargetsPlaced, Owner, Other

LEMMA TargetsPlacedKept ==
    ASSUME TypeOK, TypeOK', TargetsPlaced, CountsAgree, Loading, RoomsShared,
           NEW u \in User, Step(u), Noted(u), ~overlap'
    PROVE  TargetsPlaced'
<1> USE DEF redis, locals, bounds, Go
<1>0. /\ pc \in [User -> Steps] /\ target \in [User -> User] /\ target[u] \in User
      /\ side \in [User -> {"own", "other"}]
  BY DEF TypeOK
<1>1. \A v \in User \ {u} : Resting(v) /\ Resting(v)' /\ pc'[v] = pc[v]
  BY AloneStep
<1>2. ASSUME NEW v \in User \ {u}
      PROVE  pc'[v] \notin AddSteps \cup PushSteps \cup {"newRoom", "online", "readDoc", "writeDoc", "pushDoc"}
  BY <1>1 DEF Resting, AddSteps, PushSteps
<1>3. pc'[u] \in AddSteps => target'[u] # u
  <2>1. CASE \E v \in User : RequestFriend(u, v)
    BY <1>0, <2>1 DEF RequestFriend
  <2>2. CASE Add(u)
    <3>1. target' = target /\ pc[u] \in AddSteps
      BY <2>2 DEF Add, CheckSent, CheckReceived, Invite, Accept, PushFriend, IncFriends, NewRoom,
         PushChat, IncChats, CheckOnline, ReadDoc, WriteDoc, PushDoc, AddSteps
    <3> QED
      BY <3>1 DEF TargetsPlaced
  <2>3. CASE Connect(u) \/ Disconnect(u) \/ Load(u) \/ Save(u)
    BY <1>0, <2>3 DEF AddSteps, Connect, Disconnect, Load, LoadSocket, LoadDoc, LoadHash, LoadFriends,
       LoadChats, Save, SaveNums, SaveFriends, SaveChats, SaveDoc, DelHash, DelFriends, DelChats
  <2> QED
    BY <2>1, <2>2, <2>3 DEF Step
<1>4. /\ pc'[u] \in PushSteps => InRedis(Owner(u))'
      /\ pc'[u] \in {"newRoom", "online"} => side'[u] = "own"
      /\ pc'[u] \in {"readDoc", "writeDoc", "pushDoc"} => pc'[target'[u]] = "off"
  <2>1. CASE pc'[u] \notin PushSteps \cup {"newRoom", "online", "readDoc", "writeDoc", "pushDoc"}
    BY <2>1
  <2>2. CASE Connect(u) \/ Disconnect(u) \/ \E v \in User : RequestFriend(u, v)
    BY <1>0, <2>1, <2>2 DEF Connect, Disconnect, RequestFriend, PushSteps
  <2>3. CASE Load(u)
    BY <1>0, <2>1, <2>3 DEF Load, LoadSocket, LoadDoc, LoadHash, LoadFriends, LoadChats, PushSteps
  <2>4. CASE Save(u)
    BY <1>0, <2>1, <2>4 DEF Save, SaveNums, SaveFriends, SaveChats, SaveDoc, DelHash, DelFriends,
       DelChats, PushSteps
  <2>5. CASE CheckSent(u) \/ CheckReceived(u) \/ Invite(u)
    BY <1>0, <2>1, <2>5 DEF CheckSent, CheckReceived, Invite, PushSteps
  <2>6. CASE Accept(u)
    <3>1. pc'[u] = "pushFriend" /\ side'[u] = "own"
      BY <1>0, <2>6 DEF Accept, RoomsShared
    <3> QED
      BY <3>1 DEF InRedis, Owner, AddSteps
  <2>7. CASE PushFriend(u) \/ IncFriends(u) \/ PushChat(u) \/ IncChats(u)
    <3>1. /\ pc[u] \in PushSteps /\ pc[u] \in AddSteps /\ side' = side /\ target' = target
          /\ pc'[u] \in {"incFriends", "newRoom", "pushChat", "incChats", "online", "idle"}
          /\ pc'[u] \in {"newRoom", "online"} => side[u] = "own"
      BY <1>0, <2>7 DEF PushFriend, IncFriends, PushChat, IncChats, PushSteps, AddSteps
    <3>2. InRedis(Owner(u)) /\ Owner(u)' = Owner(u) /\ Owner(u) \in {u, target[u]}
      BY <3>1 DEF TargetsPlaced, Owner
    <3>3. pc'[u] \in PushSteps => InRedis(Owner(u))'
      BY <1>1, <1>0, <3>1, <3>2 DEF InRedis, PushSteps, AddSteps
    <3> QED
      BY <3>1, <3>3
  <2>8. CASE NewRoom(u)
    <3>1. pc'[u] = "pushChat" /\ side'[u] = "own"
      BY <1>0, <2>8 DEF NewRoom, TargetsPlaced
    <3> QED
      BY <3>1 DEF InRedis, Owner, AddSteps
  <2>9. CASE CheckOnline(u)
    <3>1. target[u] \in User \ {u} /\ target'[u] = target[u] /\ side'[u] = "other"
      BY <1>0, <2>9 DEF CheckOnline, TargetsPlaced, AddSteps
    <3>2. pc'[target[u]] = pc[target[u]] /\ Resting(target[u])
      BY <1>1, <3>1
    <3>3. CASE Exists(target[u])
      <4>1. pc[target[u]] # "off"
        BY <1>0, <3>3 DEF Exists, Loading, NoHash
      <4>2. pc'[target[u]] = "idle" /\ pc'[u] = "pushFriend"
        BY <1>0, <2>9, <3>2, <3>3, <4>1 DEF Resting, CheckOnline
      <4> QED
        BY <3>1, <4>2 DEF InRedis, Owner
    <3>4. CASE ~Exists(target[u])
      <4>1. pc[target[u]] # "idle"
        BY <1>0, <3>4 DEF Exists, CountsAgree, InRedis
      <4>2. pc'[target[u]] = "off" /\ pc'[u] = "readDoc"
        BY <1>0, <2>9, <3>2, <3>4, <4>1 DEF Resting, CheckOnline
      <4> QED
        BY <3>1, <4>2 DEF PushSteps
    <3> QED
      BY <3>3, <3>4
  <2>10. CASE ReadDoc(u) \/ WriteDoc(u) \/ PushDoc(u)
    <3>1. /\ target' = target /\ pc[target[u]] = "off"
          /\ pc[u] \in AddSteps /\ pc'[u] \in {"writeDoc", "pushDoc", "idle"}
      BY <1>0, <2>10 DEF ReadDoc, WriteDoc, PushDoc, TargetsPlaced, AddSteps
    <3>2. target[u] \in User \ {u}
      BY <1>0, <3>1 DEF TargetsPlaced
    <3> QED
      BY <1>1, <3>1, <3>2 DEF PushSteps
  <2> QED
    BY <2>2, <2>3, <2>4, <2>5, <2>6, <2>7, <2>8, <2>9, <2>10 DEF Step, Add
<1> QED
  BY <1>2, <1>3, <1>4 DEF TargetsPlaced

\* An entry is uncounted only between a push and the count of the same thread.
LEMMA OwnUncounted ==
    ASSUME TypeOK, NEW u \in User, Step(u), Noted(u), ~overlap',
           NEW s \in {"incFriends", "incChats"}, NEW w \in User
    PROVE  /\ Uncounted(w, s)  <=> pc[u] = s /\ Owner(u) = w
           /\ Uncounted(w, s)' <=> pc'[u] = s /\ Owner(u)' = w
<1>1. \A v \in User \ {u} : pc[v] # s /\ pc'[v] # s
  BY AloneStep DEF Resting
<1> QED
  BY <1>1 DEF Uncounted

LEMMA CountsAgreeKept ==
    ASSUME TypeOK, TypeOK', TargetsPlaced, CountsAgree, Loading,
           NEW u \in User, Step(u), Noted(u), ~overlap'
    PROVE  CountsAgree'
<1> USE DEF redis, locals, bounds, Go
<1>0. /\ pc \in [User -> Steps] /\ hash \in [User -> Hash]
      /\ friends \in [User -> FriendList] /\ chats \in [User -> ChatList]
      /\ target \in [User -> User] /\ side \in [User -> {"own", "other"}] /\ chat[u] \in Nat
      /\ \A v \in User : /\ hash[v] \in Hash /\ friends[v] \in Seq(User \cup {Garbage})
                         /\ chats[v] \in Seq(Nat \cup {Garbage})
                         /\ doc[v].chats \in Seq(Nat \cup {Garbage})
  BY DEF TypeOK, Record, FriendList, ChatList
<1>1. \A v \in User \ {u} : Resting(v) /\ Resting(v)' /\ pc'[v] = pc[v]
  BY AloneStep
<1> SUFFICES ASSUME NEW w \in User, InRedis(w)'
             PROVE  /\ hash'[w].socket
                    /\ Len(friends'[w]) = hash'[w].fnum + (IF Uncounted(w, "incFriends")' THEN 1 ELSE 0)
                    /\ Len(chats'[w]) = hash'[w].cnum + (IF Uncounted(w, "incChats")' THEN 1 ELSE 0)
  BY DEF CountsAgree
<1>2. /\ Uncounted(w, "incFriends") <=> pc[u] = "incFriends" /\ Owner(u) = w
      /\ Uncounted(w, "incChats") <=> pc[u] = "incChats" /\ Owner(u) = w
      /\ Uncounted(w, "incFriends")' <=> pc'[u] = "incFriends" /\ Owner(u)' = w
      /\ Uncounted(w, "incChats")' <=> pc'[u] = "incChats" /\ Owner(u)' = w
  BY OwnUncounted
<1>3. InRedis(w) => /\ hash[w].socket
                    /\ Len(friends[w]) = hash[w].fnum + (IF Uncounted(w, "incFriends") THEN 1 ELSE 0)
                    /\ Len(chats[w]) = hash[w].cnum + (IF Uncounted(w, "incChats") THEN 1 ELSE 0)
  BY DEF CountsAgree
\* Steps of which the lists and the counts know nothing.
<1>4. CASE /\ InRedis(w) /\ hash'[w] = hash[w] /\ friends'[w] = friends[w] /\ chats'[w] = chats[w]
           /\ pc[u] \notin {"incFriends", "incChats"} /\ pc'[u] \notin {"incFriends", "incChats"}
  BY <1>2, <1>3, <1>4
<1>5. CASE Connect(u) \/ Disconnect(u) \/ \E v \in User : RequestFriend(u, v)
  BY <1>0, <1>1, <1>4, <1>5 DEF Connect, Disconnect, RequestFriend, InRedis, AddSteps, SaveSteps
<1>6. CASE LoadSocket(u) \/ LoadDoc(u) \/ LoadHash(u) \/ LoadFriends(u)
  BY <1>0, <1>1, <1>4, <1>6 DEF LoadSocket, LoadDoc, LoadHash, LoadFriends, InRedis, AddSteps, SaveSteps
<1>7. CASE LoadChats(u)
  <2>1. CASE w = u
    <3>1. /\ hash[u].socket /\ friends[u] = doc[u].friends /\ chats[u] = <<>> /\ copy[u] = doc[u]
          /\ hash[u].fnum = Len(doc[u].friends) /\ hash[u].cnum = Len(doc[u].chats)
      BY <1>0, <1>7 DEF LoadChats, Loading
    <3>2. chats'[u] = doc[u].chats
      BY <1>0, <1>7, <3>1, WholeLists DEF LoadChats
    <3>3. hash' = hash /\ friends' = friends /\ pc'[u] = "idle"
      BY <1>0, <1>7 DEF LoadChats
    <3>4. hash[u].fnum + 0 = hash[u].fnum /\ hash[u].cnum + 0 = hash[u].cnum
      BY <1>0, HashSet
    <3> QED
      BY <1>2, <2>1, <3>1, <3>2, <3>3, <3>4
  <2>2. CASE w # u
    BY <1>0, <1>1, <1>4, <1>7, <2>2 DEF LoadChats, InRedis, AddSteps, SaveSteps
  <2> QED
    BY <2>1, <2>2
<1>8. CASE SaveNums(u) \/ SaveFriends(u) \/ SaveChats(u) \/ SaveDoc(u)
  BY <1>0, <1>1, <1>4, <1>8 DEF SaveNums, SaveFriends, SaveChats, SaveDoc, InRedis, AddSteps, SaveSteps
<1>9. CASE DelHash(u) \/ DelFriends(u) \/ DelChats(u)
  BY <1>0, <1>1, <1>4, <1>9 DEF DelHash, DelFriends, DelChats, InRedis, AddSteps, SaveSteps
<1>10. CASE CheckSent(u) \/ CheckReceived(u) \/ Invite(u) \/ Accept(u) \/ NewRoom(u) \/ CheckOnline(u)
  BY <1>0, <1>1, <1>4, <1>10 DEF CheckSent, CheckReceived, Invite, Accept, NewRoom, CheckOnline, InRedis,
     AddSteps, SaveSteps
<1>11. CASE ReadDoc(u) \/ WriteDoc(u) \/ PushDoc(u)
  BY <1>0, <1>1, <1>4, <1>11 DEF ReadDoc, WriteDoc, PushDoc, InRedis, AddSteps, SaveSteps
\* A push, and the count of what was pushed.
<1>12. ASSUME PushFriend(u) \/ IncFriends(u) \/ PushChat(u) \/ IncChats(u)
       PROVE  /\ InRedis(w) /\ Owner(u) \in User /\ Owner(u)' = Owner(u) /\ Other(u) \in User
              /\ pc[u] \in PushSteps
  BY <1>0, <1>1, <1>12 DEF PushFriend, IncFriends, PushChat, IncChats, InRedis, Owner, Other, AddSteps, PushSteps
<1>13. CASE PushFriend(u)
  <2>1. friends' = [friends EXCEPT ![Owner(u)] = Append(@, Other(u))] /\ hash' = hash /\ chats' = chats
        /\ pc[u] = "pushFriend" /\ pc'[u] = "incFriends"
    BY <1>0, <1>13 DEF PushFriend
  <2>2. CASE w = Owner(u)
    <3>1. Len(friends'[w]) = Len(friends[w]) + 1
      BY <1>0, <1>12, <1>13, <2>1, <2>2, WholeLists
    <3> QED
      BY <1>0, <1>2, <1>3, <1>12, <1>13, <2>1, <2>2, <3>1, HashSet
  <2>3. CASE w # Owner(u)
    BY <1>0, <1>2, <1>3, <1>12, <1>13, <2>1, <2>3
  <2> QED
    BY <2>2, <2>3
<1>14. CASE PushChat(u)
  <2>1. chats' = [chats EXCEPT ![Owner(u)] = Append(@, chat[u])] /\ hash' = hash /\ friends' = friends
        /\ pc[u] = "pushChat" /\ pc'[u] = "incChats"
    BY <1>0, <1>14 DEF PushChat
  <2>2. CASE w = Owner(u)
    <3>1. Len(chats'[w]) = Len(chats[w]) + 1
      BY <1>0, <1>12, <1>14, <2>1, <2>2, WholeLists
    <3> QED
      BY <1>0, <1>2, <1>3, <1>12, <1>14, <2>1, <2>2, <3>1, HashSet
  <2>3. CASE w # Owner(u)
    BY <1>0, <1>2, <1>3, <1>12, <1>14, <2>1, <2>3
  <2> QED
    BY <2>2, <2>3
<1>15. CASE IncFriends(u)
  <2>1. hash' = [hash EXCEPT ![Owner(u)] = [hash[Owner(u)] EXCEPT !.fnum = hash[Owner(u)].fnum + 1]]
        /\ friends' = friends /\ chats' = chats
        /\ pc[u] = "incFriends" /\ pc'[u] \notin {"incFriends", "incChats"}
    BY <1>0, <1>12, <1>15 DEF IncFriends
  <2>2. CASE w = Owner(u)
    <3>1. hash[w].fnum + 1 \in Nat /\ hash[w].cnum \in Nat
      BY <1>0, HashFields, HashSet
    <3>2. /\ hash'[w].fnum = hash[w].fnum + 1 /\ hash'[w].cnum = hash[w].cnum
          /\ hash'[w].socket = hash[w].socket
      BY <1>0, <2>1, <2>2, <3>1, HashSet
    <3> QED
      BY <1>2, <1>3, <1>12, <1>15, <2>1, <2>2, <3>1, <3>2
  <2>3. CASE w # Owner(u)
    BY <1>0, <1>2, <1>3, <1>12, <1>15, <2>1, <2>3
  <2> QED
    BY <2>2, <2>3
<1>16. CASE IncChats(u)
  <2>1. hash' = [hash EXCEPT ![Owner(u)] = [hash[Owner(u)] EXCEPT !.cnum = hash[Owner(u)].cnum + 1]]
        /\ friends' = friends /\ chats' = chats
        /\ pc[u] = "incChats" /\ pc'[u] \notin {"incFriends", "incChats"}
    BY <1>0, <1>12, <1>16 DEF IncChats
  <2>2. CASE w = Owner(u)
    <3>1. hash[w].cnum + 1 \in Nat /\ hash[w].fnum \in Nat
      BY <1>0, HashFields, HashSet
    <3>2. /\ hash'[w].cnum = hash[w].cnum + 1 /\ hash'[w].fnum = hash[w].fnum
          /\ hash'[w].socket = hash[w].socket
      BY <1>0, <2>1, <2>2, <3>1, HashSet
    <3> QED
      BY <1>2, <1>3, <1>12, <1>16, <2>1, <2>2, <3>1, <3>2
  <2>3. CASE w # Owner(u)
    BY <1>0, <1>2, <1>3, <1>12, <1>16, <2>1, <2>3
  <2> QED
    BY <2>2, <2>3
<1> QED
  BY <1>5, <1>6, <1>7, <1>8, <1>9, <1>10, <1>11, <1>13, <1>14, <1>15, <1>16 DEF Step, Load, Save, Add

LEMMA SoundAppend ==
    ASSUME NEW S, NEW list \in Seq(S \cup {Garbage}), Sound(list), NEW x \in S, Garbage \notin S
    PROVE  Sound(Append(list, x))
<1>1. Elems(Append(list, x)) = Elems(list) \cup {x}
  BY ElemsAppend
<1> QED
  BY <1>1 DEF Sound

LEMMA RecordsSoundKept ==
    ASSUME TypeOK, TypeOK', TargetsPlaced, RecordsSound, Loading, Saving,
           NEW u \in User, Step(u)
    PROVE  RecordsSound'
<1> USE DEF redis, locals, bounds, Go
<1>0. /\ pc \in [User -> Steps] /\ doc \in [User -> Record]
      /\ friends \in [User -> FriendList] /\ chats \in [User -> ChatList]
      /\ target \in [User -> User] /\ target[u] \in User /\ chat[u] \in Nat
      /\ Garbage \notin User /\ Garbage \notin Nat
      /\ \A v \in User : /\ friends[v] \in Seq(User \cup {Garbage})
                         /\ chats[v] \in Seq(Nat \cup {Garbage})
                         /\ doc[v] \in Record /\ copy[v] \in Record
                         /\ doc[v].chats \in Seq(Nat \cup {Garbage})
                         /\ doc[v].friends \in Seq(User \cup {Garbage})
  BY GarbageAssumption DEF TypeOK, Record, FriendList, ChatList
<1>1. \A v \in User : /\ Sound(friends[v]) /\ Sound(chats[v])
                      /\ Sound(doc[v].friends) /\ Sound(doc[v].chats)
  BY DEF RecordsSound
<1>2. Sound(<<>>)
  BY ElemsEmpty DEF Sound
<1>3. \A v, x \in User : Sound(Append(friends[v], x)) /\ Sound(Append(doc[v].friends, x))
  BY <1>0, <1>1, SoundAppend
<1>4. \A v \in User : Sound(Append(chats[v], chat[u])) /\ Sound(Append(doc[v].chats, chat[u]))
  BY <1>0, <1>1, SoundAppend
<1>5. \A v \in User : Sound(friends'[v])
  <2>1. CASE LoadFriends(u)
    <3>1. friends[u] = <<>> /\ copy[u] = doc[u]
      BY <2>1 DEF LoadFriends, Loading
    <3>2. friends' = [friends EXCEPT ![u] = doc[u].friends]
      BY <1>0, <2>1, <3>1, WholeLists DEF LoadFriends
    <3> QED
      BY <1>0, <1>1, <3>2
  <2>2. CASE DelFriends(u)
    BY <1>0, <1>1, <1>2, <2>2 DEF DelFriends
  <2>3. CASE PushFriend(u)
    <3>1. Owner(u) \in User /\ Other(u) \in User
      BY <1>0 DEF Owner, Other
    <3> QED
      BY <1>0, <1>1, <1>3, <2>3, <3>1 DEF PushFriend
  <2>4. CASE friends' = friends
    BY <1>1, <2>4
  <2> QED
    BY <2>1, <2>2, <2>3, <2>4 DEF Step, Connect, Disconnect, RequestFriend, Load, LoadSocket, LoadDoc,
       LoadHash, LoadChats, Save, SaveNums, SaveFriends, SaveChats, SaveDoc, DelHash, DelChats,
       Add, CheckSent, CheckReceived, Invite, Accept, IncFriends, NewRoom, PushChat, IncChats,
       CheckOnline, ReadDoc, WriteDoc, PushDoc
<1>6. \A v \in User : Sound(chats'[v])
  <2>1. CASE LoadChats(u)
    <3>1. chats[u] = <<>> /\ copy[u] = doc[u]
      BY <2>1 DEF LoadChats, Loading
    <3>2. chats' = [chats EXCEPT ![u] = doc[u].chats]
      BY <1>0, <2>1, <3>1, WholeLists DEF LoadChats
    <3> QED
      BY <1>0, <1>1, <3>2
  <2>2. CASE DelChats(u)
    BY <1>0, <1>1, <1>2, <2>2 DEF DelChats
  <2>3. CASE PushChat(u)
    <3>1. Owner(u) \in User
      BY <1>0 DEF Owner
    <3> QED
      BY <1>0, <1>1, <1>4, <2>3, <3>1 DEF PushChat
  <2>4. CASE chats' = chats
    BY <1>1, <2>4
  <2> QED
    BY <2>1, <2>2, <2>3, <2>4 DEF Step, Connect, Disconnect, RequestFriend, Load, LoadSocket, LoadDoc,
       LoadHash, LoadFriends, Save, SaveNums, SaveFriends, SaveChats, SaveDoc, DelHash, DelFriends,
       Add, CheckSent, CheckReceived, Invite, Accept, PushFriend, IncFriends, NewRoom, IncChats,
       CheckOnline, ReadDoc, WriteDoc, PushDoc
<1>7. \A v \in User : Sound(doc'[v].friends) /\ Sound(doc'[v].chats)
  <2>1. CASE SaveDoc(u)
    <3>1. copy[u].friends = friends[u] /\ copy[u].chats = chats[u]
      BY <2>1 DEF SaveDoc, Saving
    <3> QED
      BY <1>0, <1>1, <2>1, <3>1 DEF SaveDoc
  <2>2. CASE WriteDoc(u)
    <3>1. /\ copy[u].friends = Append(doc[target[u]].friends, u)
          /\ copy[u].chats = doc[target[u]].chats
      BY <2>2 DEF WriteDoc, Saving
    <3> QED
      BY <1>0, <1>1, <1>3, <2>2, <3>1 DEF WriteDoc
  <2>3. CASE PushDoc(u)
    <3>1. Append(doc[target[u]].chats, chat[u]) \in ChatList
      BY <1>0, ElemsAppend DEF ChatList
    <3>2. doc' = [doc EXCEPT ![target[u]] = [doc[target[u]] EXCEPT !.chats = Append(@, chat[u])]]
      BY <1>0, <2>3 DEF PushDoc
    <3>3. /\ doc'[target[u]].chats = Append(doc[target[u]].chats, chat[u])
          /\ doc'[target[u]].friends = doc[target[u]].friends
      BY <1>0, <3>1, <3>2, RecordFields
    <3> QED
      BY <1>0, <1>1, <1>4, <3>2, <3>3
  <2>4. CASE doc' = doc
    BY <1>1, <2>4
  <2> QED
    BY <2>1, <2>2, <2>3, <2>4 DEF Step, Connect, Disconnect, RequestFriend, Load, LoadSocket, LoadDoc,
       LoadHash, LoadFriends, LoadChats, Save, SaveNums, SaveFriends, SaveChats, DelHash,
       DelFriends, DelChats, Add, CheckSent, CheckReceived, Invite, Accept, PushFriend,
       IncFriends, NewRoom, PushChat, IncChats, CheckOnline, ReadDoc
<1> QED
  BY <1>5, <1>6, <1>7 DEF RecordsSound

\* What a step leaves alone of the record of a user who is off line.
LEMMA OffLineUntouched ==
    ASSUME TypeOK, TargetsPlaced, NEW u \in User, Step(u), NEW w \in User \ {u}, pc[w] = "off"
    PROVE  hash'[w] = hash[w] /\ friends'[w] = friends[w] /\ chats'[w] = chats[w]
<1> USE DEF redis, locals, bounds, Go
<1>0. /\ hash \in [User -> Hash] /\ friends \in [User -> FriendList] /\ chats \in [User -> ChatList]
      /\ pc \in [User -> Steps]
  BY DEF TypeOK
<1>1. CASE Connect(u) \/ Disconnect(u) \/ \E v \in User : RequestFriend(u, v)
  BY <1>0, <1>1 DEF Connect, Disconnect, RequestFriend
<1>2. CASE Load(u)
  BY <1>0, <1>2 DEF Load, LoadSocket, LoadDoc, LoadHash, LoadFriends, LoadChats
<1>3. CASE Save(u)
  BY <1>0, <1>3 DEF Save, SaveNums, SaveFriends, SaveChats, SaveDoc, DelHash, DelFriends, DelChats
<1>4. CASE PushFriend(u) \/ IncFriends(u) \/ PushChat(u) \/ IncChats(u)
  <2>1. pc[u] \in PushSteps
    BY <1>4 DEF PushSteps, PushFriend, IncFriends, PushChat, IncChats
  <2>2. Owner(u) # w
    BY <2>1 DEF TargetsPlaced, InRedis, AddSteps, SaveSteps
  <2> QED
    BY <1>0, <1>4, <2>2 DEF PushFriend, IncFriends, PushChat, IncChats
<1>5. CASE CheckSent(u) \/ CheckReceived(u) \/ Invite(u) \/ Accept(u) \/ NewRoom(u)
  BY <1>0, <1>5 DEF CheckSent, CheckReceived, Invite, Accept, NewRoom
<1>6. CASE CheckOnline(u) \/ ReadDoc(u) \/ WriteDoc(u) \/ PushDoc(u)
  BY <1>0, <1>6 DEF CheckOnline, ReadDoc, WriteDoc, PushDoc
<1> QED
  BY <1>1, <1>2, <1>3, <1>4, <1>5, <1>6 DEF Step, Add

LoadSteps == {"loadSocket", "loadDoc", "loadHash", "loadFriends", "loadChats"}

LEMMA LoadingKept ==
    ASSUME TypeOK, TypeOK', TargetsPlaced, Loading, Saving,
           NEW u \in User, Step(u), Noted(u), ~overlap'
    PROVE  Loading'
<1> USE DEF redis, locals, bounds, Go
<1>0. /\ pc \in [User -> Steps] /\ hash \in [User -> Hash] /\ doc \in [User -> Record]
      /\ friends \in [User -> FriendList] /\ chats \in [User -> ChatList] /\ copy \in [User -> Record]
      /\ friends[u] \in Seq(User \cup {Garbage}) /\ chats[u] \in Seq(Nat \cup {Garbage})
      /\ doc[u].chats \in Seq(Nat \cup {Garbage}) /\ doc[u].friends \in Seq(User \cup {Garbage})
      /\ hash[u] \in Hash
  BY DEF TypeOK, Record, FriendList, ChatList
<1>1. \A v \in User \ {u} : Resting(v) /\ Resting(v)' /\ pc'[v] = pc[v]
  BY AloneStep
<1>2. ASSUME NEW v \in User \ {u}
      PROVE  /\ pc'[v] = "off" => hash'[v] = NoHash /\ friends'[v] = <<>> /\ chats'[v] = <<>>
             /\ pc'[v] \notin LoadSteps
  BY <1>0, <1>1, OffLineUntouched DEF Resting, Loading, LoadSteps
<1>3. CASE pc'[u] \notin LoadSteps \cup {"off"}
  BY <1>2, <1>3 DEF Loading, LoadSteps
<1>4. CASE Connect(u)
  BY <1>0, <1>2, <1>4 DEF Connect, Loading, LoadSteps
<1>5. CASE LoadSocket(u)
  <2>1. hash' = [hash EXCEPT ![u] = [hash[u] EXCEPT !.socket = TRUE]]
    BY <1>0, <1>5 DEF LoadSocket
  <2>2. hash'[u].socket
    BY <1>0, <2>1, HashSet
  <2> QED
    BY <1>0, <1>2, <1>5, <2>2 DEF LoadSocket, Loading, LoadSteps
<1>6. CASE LoadDoc(u)
  BY <1>0, <1>2, <1>6 DEF LoadDoc, Loading, LoadSteps
<1>7. CASE LoadHash(u)
  <2>1. copy[u] = doc[u] /\ hash[u].socket /\ friends[u] = <<>> /\ chats[u] = <<>>
    BY <1>7 DEF LoadHash, Loading
  <2>2. Len(doc[u].friends) \in Nat /\ Len(doc[u].chats) \in Nat
    BY <1>0, WholeLists
  <2>3. hash' = [hash EXCEPT ![u] = [hash[u] EXCEPT !.data = TRUE, !.fnum = Len(doc[u].friends),
                                         !.cnum = Len(doc[u].chats)]]
    BY <1>0, <1>7, <2>1 DEF LoadHash
  <2>4. /\ hash'[u].socket /\ hash'[u].fnum = Len(doc[u].friends) /\ hash'[u].cnum = Len(doc[u].chats)
    BY <1>0, <2>1, <2>2, <2>3, HashSet
  <2> QED
    BY <1>0, <1>2, <1>7, <2>1, <2>4 DEF LoadHash, Loading, LoadSteps
<1>8. CASE LoadFriends(u)
  <2>1. /\ copy[u] = doc[u] /\ hash[u].socket /\ friends[u] = <<>> /\ chats[u] = <<>>
        /\ hash[u].fnum = Len(doc[u].friends) /\ hash[u].cnum = Len(doc[u].chats)
    BY <1>8 DEF LoadFriends, Loading
  <2>2. friends'[u] = doc[u].friends
    BY <1>0, <1>8, <2>1, WholeLists DEF LoadFriends
  <2> QED
    BY <1>0, <1>2, <1>8, <2>1, <2>2 DEF LoadFriends, Loading, LoadSteps
<1>9. CASE DelChats(u)
  <2>1. hash[u] = NoHash /\ friends[u] = <<>>
    BY <1>9 DEF DelChats, Saving
  <2> QED
    BY <1>0, <1>2, <1>9, <2>1 DEF DelChats, Loading, LoadSteps
<1>10. CASE Disconnect(u) \/ LoadChats(u) \/ \E v \in User : RequestFriend(u, v)
  BY <1>0, <1>3, <1>10 DEF Disconnect, LoadChats, RequestFriend, LoadSteps
<1>11. CASE SaveNums(u) \/ SaveFriends(u) \/ SaveChats(u) \/ SaveDoc(u) \/ DelHash(u) \/ DelFriends(u)
  BY <1>0, <1>3, <1>11 DEF SaveNums, SaveFriends, SaveChats, SaveDoc, DelHash, DelFriends, LoadSteps
<1>12. CASE CheckSent(u) \/ CheckReceived(u) \/ Invite(u) \/ Accept(u) \/ PushFriend(u) \/ IncFriends(u)
  BY <1>0, <1>3, <1>12 DEF CheckSent, CheckReceived, Invite, Accept, PushFriend, IncFriends, LoadSteps
<1>13. CASE NewRoom(u) \/ PushChat(u) \/ IncChats(u) \/ CheckOnline(u)
  BY <1>0, <1>3, <1>13 DEF NewRoom, PushChat, IncChats, CheckOnline, LoadSteps
<1>14. CASE ReadDoc(u) \/ WriteDoc(u) \/ PushDoc(u)
  BY <1>0, <1>3, <1>14 DEF ReadDoc, WriteDoc, PushDoc, LoadSteps
<1> QED
  BY <1>4, <1>5, <1>6, <1>7, <1>8, <1>9, <1>10, <1>11, <1>12, <1>13, <1>14 DEF Step, Load, Save, Add

LEMMA SavingKept ==
    ASSUME TypeOK, TypeOK', CountsAgree, Saving,
           NEW u \in User, Step(u), Noted(u), ~overlap'
    PROVE  Saving'
<1> USE DEF redis, locals, bounds, Go
<1>0. /\ pc \in [User -> Steps] /\ hash \in [User -> Hash] /\ doc \in [User -> Record]
      /\ friends \in [User -> FriendList] /\ chats \in [User -> ChatList] /\ copy \in [User -> Record]
      /\ nums \in [User -> Nat \X Nat] /\ target \in [User -> User]
      /\ friends[u] \in Seq(User \cup {Garbage}) /\ chats[u] \in Seq(Nat \cup {Garbage})
      /\ friends[u] \in FriendList /\ chats[u] \in ChatList
      /\ hash[u] \in Hash /\ copy[u] \in Record
  BY DEF TypeOK, FriendList, ChatList
<1>1. ASSUME NEW v \in User \ {u}
      PROVE  pc'[v] \notin {"saveFriends", "saveChats", "saveDoc", "delFriends", "delChats", "writeDoc"}
  BY AloneStep DEF Resting
<1>2. CASE pc'[u] \notin {"saveFriends", "saveChats", "saveDoc", "delFriends", "delChats", "writeDoc"}
  BY <1>1, <1>2 DEF Saving
<1>3. CASE SaveNums(u)
  <2>1. ~Uncounted(u, "incFriends") /\ ~Uncounted(u, "incChats")
    BY <1>3, OwnUncounted DEF SaveNums
  <2>2. Len(friends[u]) = hash[u].fnum + 0 /\ Len(chats[u]) = hash[u].cnum + 0
    BY <1>3, <2>1 DEF SaveNums, CountsAgree, InRedis, SaveSteps
  <2>3. Len(friends[u]) = hash[u].fnum /\ Len(chats[u]) = hash[u].cnum
    BY <1>0, <2>2, HashSet
  <2> QED
    BY <1>0, <1>1, <1>3, <2>3 DEF SaveNums, Saving
<1>4. CASE SaveFriends(u)
  <2>1. nums[u][1] = Len(friends[u]) /\ nums[u] = <<Len(friends[u]), Len(chats[u])>>
    BY <1>4 DEF SaveFriends, Saving
  <2>2. copy' = [copy EXCEPT ![u] = [copy[u] EXCEPT !.friends = friends[u]]]
    BY <1>0, <1>4, <2>1, WholeLists DEF SaveFriends
  <2>3. copy'[u].friends = friends[u]
    BY <1>0, <2>2, RecordFields
  <2> QED
    BY <1>0, <1>1, <1>4, <2>1, <2>3 DEF SaveFriends, Saving
<1>5. CASE SaveChats(u)
  <2>1. /\ nums[u][2] = Len(chats[u]) /\ nums[u] = <<Len(friends[u]), Len(chats[u])>>
        /\ copy[u].friends = friends[u]
    BY <1>5 DEF SaveChats, Saving
  <2>2. copy' = [copy EXCEPT ![u] = [copy[u] EXCEPT !.chats = chats[u]]]
    BY <1>0, <1>5, <2>1, WholeLists DEF SaveChats
  <2>3. copy'[u].chats = chats[u] /\ copy'[u].friends = friends[u]
    BY <1>0, <2>1, <2>2, RecordFields
  <2> QED
    BY <1>0, <1>1, <1>5, <2>1, <2>3 DEF SaveChats, Saving
<1>6. CASE DelHash(u) \/ DelFriends(u)
  BY <1>0, <1>1, <1>6 DEF DelHash, DelFriends, Saving
<1>7. CASE ReadDoc(u)
  <2>1. doc[target[u]] \in Record /\ target[u] \in User
    BY <1>0
  <2>2. Append(doc[target[u]].friends, u) \in FriendList
    BY <1>0, <2>1, RecordFields, ElemsAppend DEF FriendList
  <2>3. /\ copy'[u].friends = Append(doc[target[u]].friends, u)
        /\ copy'[u].chats = doc[target[u]].chats
    BY <1>0, <1>7, <2>1, <2>2, RecordFields DEF ReadDoc
  <2> QED
    BY <1>0, <1>1, <1>7, <2>3 DEF ReadDoc, Saving
<1>8. CASE Connect(u) \/ Disconnect(u) \/ Load(u) \/ \E v \in User : RequestFriend(u, v)
  BY <1>0, <1>2, <1>8 DEF Connect, Disconnect, RequestFriend, Load, LoadSocket, LoadDoc, LoadHash,
     LoadFriends, LoadChats
<1>9. CASE SaveDoc(u) \/ DelChats(u) \/ CheckSent(u) \/ CheckReceived(u) \/ Invite(u) \/ Accept(u)
  BY <1>0, <1>2, <1>9 DEF SaveDoc, DelChats, CheckSent, CheckReceived, Invite, Accept
<1>10. CASE PushFriend(u) \/ IncFriends(u) \/ NewRoom(u) \/ PushChat(u) \/ IncChats(u)
  BY <1>0, <1>2, <1>10 DEF PushFriend, IncFriends, NewRoom, PushChat, IncChats
<1>11. CASE CheckOnline(u) \/ WriteDoc(u) \/ PushDoc(u)
  BY <1>0, <1>2, <1>11 DEF CheckOnline, WriteDoc, PushDoc
<1> QED
  BY <1>3, <1>4, <1>5, <1>6, <1>7, <1>8, <1>9, <1>10, <1>11 DEF Step, Save, Add

LEMMA KeptFirst == Init => Kept
<1> SUFFICES ASSUME Init PROVE Kept
  OBVIOUS
<1>1. NoRecord.friends = <<>> /\ NoRecord.chats = <<>>
  BY DEF NoRecord
<1>2. OneWorks /\ TargetsPlaced /\ CountsAgree /\ Saving
  BY DEF Init, OneWorks, Resting, TargetsPlaced, AddSteps, PushSteps, CountsAgree, InRedis, SaveSteps, Saving
<1>3. RecordsSound /\ Loading
  BY <1>1, ElemsEmpty DEF Init, RecordsSound, Sound, Loading
<1> QED
  BY <1>2, <1>3 DEF Kept

LEMMA KeptStep == IInv /\ Kept /\ [Next]_vars => Kept'
<1> SUFFICES ASSUME IInv, Kept, [Next]_vars PROVE Kept'
  OBVIOUS
<1>1. TypeOK /\ TypeOK' /\ RoomsShared
  BY StepKept DEF IInv
<1>2. ASSUME NEW u \in User, Step(u), Noted(u), ~overlap' PROVE Kept'
  <2>1. OneWorks /\ TargetsPlaced /\ CountsAgree /\ RecordsSound /\ Loading /\ Saving
    BY <1>1, <1>2, AloneStep DEF Kept
  <2> QED
    BY <1>1, <1>2, <2>1, AloneStep, TargetsPlacedKept, CountsAgreeKept, RecordsSoundKept, LoadingKept,
       SavingKept DEF Kept
<1>3. CASE UNCHANGED vars
  BY <1>3 DEF vars, redis, locals, bounds, Kept, OneWorks, Resting, TargetsPlaced, InRedis, Owner, CountsAgree,
     Uncounted, RecordsSound, Loading, Saving
<1>4. overlap' => Kept'
  BY DEF Kept
<1> QED
  BY <1>2, <1>3, <1>4 DEF Next

\* What is left of two requests, and of a record that is loaded or saved, is whole
\* as long as no two users' packets were ever handled at the same time.
THEOREM KeptInvariance == Spec => [](IInv /\ Kept)
<1>1. Init => IInv /\ Kept
  BY Initial, KeptFirst
<1>2. IInv /\ Kept /\ [Next]_vars => (IInv /\ Kept)'
  BY StepKept, KeptStep
<1> QED
  BY <1>1, <1>2, PTL DEF Spec

\* The counts by which redis_user_read sizes its arrays are the lengths of the
\* lists that it reads into them (redis_user.c), and no document holds what was
\* never written, as long as no two operations have overlapped.
THEOREM CountsMatchLists == Spec => []CountsMatchListsAlone
<1>1. ASSUME IInv, Kept, Alone, NEW u \in User
      PROVE  /\ pc[u] = "idle" => /\ hash[u].fnum = Len(friends[u])
                                  /\ hash[u].cnum = Len(chats[u])
             /\ Garbage \notin Elems(doc[u].friends) \cup Elems(doc[u].chats)
  <2>1. CountsAgree /\ RecordsSound /\ hash[u] \in Hash
    BY <1>1 DEF Alone, Kept, IInv, TypeOK
  <2>2. ~Uncounted(u, "incFriends") /\ ~Uncounted(u, "incChats")
    BY <1>1 DEF Alone, AtRest, Resting, Uncounted
  <2>3. pc[u] = "idle" => /\ Len(friends[u]) = hash[u].fnum + 0
                          /\ Len(chats[u]) = hash[u].cnum + 0
    BY <2>1, <2>2 DEF CountsAgree, InRedis
  <2>4. hash[u].fnum + 0 = hash[u].fnum /\ hash[u].cnum + 0 = hash[u].cnum
    BY <2>1, HashSet
  <2> QED
    BY <2>1, <2>3, <2>4 DEF RecordsSound, Sound
<1>2. IInv /\ Kept => CountsMatchListsAlone
  BY <1>1 DEF CountsMatchListsAlone
<1> QED
  BY <1>2, KeptInvariance, PTL

\* A user who is off line has nothing left in Redis (redis_user_cleanup,
\* redis_user.c), as long as no two operations have overlapped.
THEOREM OfflineLeavesNothing == Spec => []OfflineLeavesNothingAlone
<1>1. IInv /\ Kept => OfflineLeavesNothingAlone
  BY DEF Kept, Loading, OfflineLeavesNothingAlone, Alone
<1> QED
  BY <1>1, KeptInvariance, PTL

-----------------------------------------------------------------------------
(* Agreeing is inductive, given Kept.                                      *)

LEMMA ElemsExtended ==
    /\ \A list \in FriendList, x \in User : Elems(Append(list, x)) = Elems(list) \cup {x}
    /\ \A list \in ChatList, c \in Nat : Elems(Append(list, c)) = Elems(list) \cup {c}
<1>1. ASSUME NEW list \in FriendList, NEW x \in User
      PROVE  Elems(Append(list, x)) = Elems(list) \cup {x}
  BY ElemsAppend DEF FriendList
<1>2. ASSUME NEW list \in ChatList, NEW c \in Nat
      PROVE  Elems(Append(list, c)) = Elems(list) \cup {c}
  BY ElemsAppend DEF ChatList
<1> QED
  BY <1>1, <1>2

\* A record loses nothing when it moves between the stores, or is extended.
LEMMA NowGrows ==
    ASSUME TypeOK, TargetsPlaced, Loading, Saving,
           NEW u \in User, Step(u), Noted(u), ~overlap', NEW w \in User
    PROVE  FriendsNow(w) \subseteq FriendsNow(w)' /\ ChatsNow(w) \subseteq ChatsNow(w)'
<1> USE DEF redis, locals, bounds, Go
<1>0. /\ pc \in [User -> Steps] /\ doc \in [User -> Record]
      /\ friends \in [User -> FriendList] /\ chats \in [User -> ChatList]
      /\ target \in [User -> User] /\ target[u] \in User /\ chat[u] \in Nat
      /\ \A v \in User : /\ friends[v] \in FriendList /\ chats[v] \in ChatList
                         /\ doc[v] \in Record /\ copy[v] \in Record
                         /\ doc[v].chats \in ChatList /\ doc[v].friends \in FriendList
  BY DEF TypeOK, Record
<1>1. \A v \in User \ {u} : Resting(v) /\ Resting(v)' /\ pc'[v] = pc[v]
  BY AloneStep
<1> USE DEF FriendsNow, ChatsNow
<1>2. CASE /\ InRedis(w)' <=> InRedis(w)
           /\ InRedis(w) => friends'[w] = friends[w] /\ chats'[w] = chats[w]
           /\ ~InRedis(w) => doc'[w] = doc[w]
  BY <1>2
<1>3. w # u => (InRedis(w)' <=> InRedis(w))
  BY <1>1 DEF InRedis
<1>a. /\ \A v \in User : Elems(friends[v]) \subseteq Elems(friends'[v])
      /\ \A v \in User : Elems(chats[v]) \subseteq Elems(chats'[v])
      /\ \A v \in User : /\ Elems(doc[v].friends) \subseteq Elems(doc'[v].friends)
                         /\ Elems(doc[v].chats) \subseteq Elems(doc'[v].chats)
      /\ InRedis(w)' <=> InRedis(w)
      => FriendsNow(w) \subseteq FriendsNow(w)' /\ ChatsNow(w) \subseteq ChatsNow(w)'
  OBVIOUS
<1>b. pc[u] \in AddSteps /\ pc'[u] \in AddSteps \cup {"idle"} => (InRedis(w)' <=> InRedis(w))
  BY <1>3 DEF InRedis
<1> USE DEF AddSteps
<1>4. CASE Connect(u) \/ Disconnect(u) \/ \E v \in User : RequestFriend(u, v)
  BY <1>0, <1>2, <1>3, <1>4 DEF InRedis, SaveSteps, Connect, Disconnect, RequestFriend
<1>5. CASE LoadSocket(u) \/ LoadDoc(u) \/ LoadHash(u) \/ LoadFriends(u)
  BY <1>0, <1>2, <1>3, <1>5 DEF InRedis, SaveSteps, LoadSocket, LoadDoc, LoadHash, LoadFriends
<1>6. CASE LoadChats(u)
  <2>1. friends[u] = doc[u].friends /\ chats[u] = <<>> /\ copy[u] = doc[u]
    BY <1>6 DEF LoadChats, Loading
  <2>2. chats' = [chats EXCEPT ![u] = doc[u].chats]
    BY <1>0, <1>6, <2>1, WholeLists DEF LoadChats, ChatList
  <2>3. CASE w = u
    BY <1>0, <1>6, <2>1, <2>2, <2>3 DEF LoadChats, InRedis, SaveSteps
  <2>4. CASE w # u
    BY <1>0, <1>2, <1>3, <1>6, <2>4 DEF InRedis, SaveSteps, LoadChats
  <2> QED
    BY <2>3, <2>4
<1>7. CASE SaveNums(u) \/ SaveFriends(u) \/ SaveChats(u)
  BY <1>0, <1>2, <1>3, <1>7 DEF InRedis, SaveSteps, SaveNums, SaveFriends, SaveChats
<1>8. CASE SaveDoc(u)
  <2>1. copy[u].friends = friends[u] /\ copy[u].chats = chats[u]
    BY <1>8 DEF SaveDoc, Saving
  <2>2. CASE w = u
    BY <1>0, <1>8, <2>1, <2>2 DEF SaveDoc, InRedis, SaveSteps
  <2>3. CASE w # u
    BY <1>0, <1>2, <1>3, <1>8, <2>3 DEF InRedis, SaveSteps, SaveDoc
  <2> QED
    BY <2>2, <2>3
<1>9. CASE DelHash(u) \/ DelFriends(u) \/ DelChats(u)
  BY <1>0, <1>2, <1>3, <1>9 DEF InRedis, SaveSteps, DelHash, DelFriends, DelChats
<1>10. CASE CheckSent(u) \/ CheckReceived(u) \/ Invite(u) \/ Accept(u) \/ NewRoom(u) \/ CheckOnline(u)
  BY <1>0, <1>2, <1>3, <1>10 DEF InRedis, SaveSteps, CheckSent, CheckReceived, Invite, Accept, NewRoom, CheckOnline
<1>11. CASE IncFriends(u) \/ IncChats(u) \/ ReadDoc(u)
  BY <1>0, <1>2, <1>3, <1>11 DEF InRedis, SaveSteps, IncFriends, IncChats, ReadDoc
<1>12. CASE PushFriend(u)
  <2>1. Owner(u) \in User /\ Other(u) \in User
    BY <1>0 DEF Owner, Other
  <2>2. Elems(friends[Owner(u)]) \subseteq Elems(Append(friends[Owner(u)], Other(u)))
    BY <1>0, <2>1, ElemsExtended
  <2>3. \A v \in User : Elems(friends[v]) \subseteq Elems(friends'[v])
    BY <1>0, <1>12, <2>1, <2>2 DEF PushFriend
  <2> QED
    BY <1>0, <1>a, <1>b, <1>12, <2>3 DEF PushFriend
<1>13. CASE PushChat(u)
  <2>1. Owner(u) \in User
    BY <1>0 DEF Owner
  <2>2. Elems(chats[Owner(u)]) \subseteq Elems(Append(chats[Owner(u)], chat[u]))
    BY <1>0, <2>1, ElemsExtended
  <2>3. \A v \in User : Elems(chats[v]) \subseteq Elems(chats'[v])
    BY <1>0, <1>13, <2>1, <2>2 DEF PushChat
  <2> QED
    BY <1>0, <1>a, <1>b, <1>13, <2>3 DEF PushChat
<1>14. CASE WriteDoc(u)
  <2>1. copy[u].friends = Append(doc[target[u]].friends, u) /\ copy[u].chats = doc[target[u]].chats
    BY <1>14 DEF WriteDoc, Saving
  <2>2. Elems(doc[target[u]].friends) \subseteq Elems(copy[u].friends)
    BY <1>0, <2>1, ElemsExtended
  <2>3. \A v \in User : /\ Elems(doc[v].friends) \subseteq Elems(doc'[v].friends)
                       /\ Elems(doc[v].chats) \subseteq Elems(doc'[v].chats)
    BY <1>0, <1>14, <2>1, <2>2 DEF WriteDoc
  <2> QED
    BY <1>0, <1>a, <1>b, <1>14, <2>3 DEF WriteDoc
<1>15. CASE PushDoc(u)
  <2>1. Append(doc[target[u]].chats, chat[u]) \in ChatList
    BY <1>0, ElemsAppend DEF ChatList
  <2>2. doc' = [doc EXCEPT ![target[u]] = [doc[target[u]] EXCEPT !.chats = Append(@, chat[u])]]
    BY <1>0, <1>15 DEF PushDoc
  <2>3. /\ doc'[target[u]].chats = Append(doc[target[u]].chats, chat[u])
        /\ doc'[target[u]].friends = doc[target[u]].friends
    BY <1>0, <2>1, <2>2, RecordFields
  <2>4. Elems(doc[target[u]].chats) \subseteq Elems(doc'[target[u]].chats)
    BY <1>0, <2>3, ElemsExtended
  <2>5. \A v \in User \ {target[u]} : doc'[v] = doc[v]
    BY <1>0, <2>2
  <2>6. \A v \in User : /\ Elems(doc[v].friends) \subseteq Elems(doc'[v].friends)
                       /\ Elems(doc[v].chats) \subseteq Elems(doc'[v].chats)
    BY <2>3, <2>4, <2>5
  <2> QED
    BY <1>0, <1>a, <1>b, <1>15, <2>6 DEF PushDoc
<1> QED
  BY <1>4, <1>5, <1>6, <1>7, <1>8, <1>9, <1>10, <1>11, <1>12, <1>13, <1>14, <1>15 DEF Step, Load, Save, Add

\* Friends stay friends, on both sides.
LEMMA FriendlyStays ==
    ASSUME TypeOK, TargetsPlaced, Loading, Saving,
           NEW u \in User, Step(u), Noted(u), ~overlap',
           NEW v \in User, NEW w \in User, Friendly(v, w)
    PROVE  Friendly(v, w)'
<1>1. /\ FriendsNow(v) \subseteq FriendsNow(v)' /\ ChatsNow(v) \subseteq ChatsNow(v)'
      /\ FriendsNow(w) \subseteq FriendsNow(w)' /\ ChatsNow(w) \subseteq ChatsNow(w)'
  BY NowGrows
<1> QED
  BY <1>1 DEF Friendly

\* What a push, or a write to the document, adds to the record in use.
LEMMA NowGains ==
    ASSUME TypeOK, TargetsPlaced, Loading, Saving, NEW u \in User, Step(u), Noted(u), ~overlap'
    PROVE  /\ PushFriend(u) => Other(u) \in FriendsNow(Owner(u))'
           /\ PushChat(u)   => chat[u] \in ChatsNow(Owner(u))'
           /\ WriteDoc(u)   => u \in FriendsNow(target[u])'
           /\ PushDoc(u)    => chat[u] \in ChatsNow(target[u])'
<1> USE DEF redis, locals, bounds, Go
<1>0. /\ pc \in [User -> Steps] /\ doc \in [User -> Record]
      /\ friends \in [User -> FriendList] /\ chats \in [User -> ChatList]
      /\ target \in [User -> User] /\ target[u] \in User /\ chat[u] \in Nat
      /\ side \in [User -> {"own", "other"}]
      /\ Owner(u) \in User /\ Other(u) \in User
      /\ \A v \in User : /\ friends[v] \in FriendList /\ chats[v] \in ChatList
                         /\ doc[v] \in Record /\ copy[v] \in Record
                         /\ doc[v].chats \in ChatList /\ doc[v].friends \in FriendList
  BY DEF TypeOK, Record, Owner, Other
<1>1. \A v \in User \ {u} : Resting(v) /\ Resting(v)' /\ pc'[v] = pc[v]
  BY AloneStep
\* Owner(u)' = Owner(u), and the store in use is the same after the step.
<1>2. ASSUME PushFriend(u) \/ PushChat(u)
      PROVE  Owner(u)' = Owner(u) /\ InRedis(Owner(u))'
  <2>1. pc[u] \in PushSteps /\ pc'[u] \in AddSteps /\ target' = target /\ side' = side
    BY <1>0, <1>2 DEF PushFriend, PushChat, PushSteps, AddSteps
  <2>2. InRedis(Owner(u)) /\ Owner(u)' = Owner(u) /\ pc'[Owner(u)] = IF Owner(u) = u THEN pc'[u] ELSE pc[Owner(u)]
    BY <1>0, <1>1, <2>1 DEF TargetsPlaced, Owner
  <2>3. InRedis(Owner(u))' <=> pc'[Owner(u)] \in {"idle"} \cup AddSteps \cup SaveSteps
    BY <2>2 DEF InRedis
  <2> QED
    BY <2>1, <2>2, <2>3 DEF InRedis
<1>3. ASSUME WriteDoc(u) \/ PushDoc(u)
      PROVE  target' = target /\ ~InRedis(target[u])'
  <2>1. pc[target[u]] = "off" /\ target' = target /\ target[u] # u
    BY <1>0, <1>3 DEF WriteDoc, PushDoc, TargetsPlaced, AddSteps
  <2> QED
    BY <1>0, <1>1, <2>1 DEF InRedis, AddSteps, SaveSteps
<1>4. ASSUME PushFriend(u) PROVE Other(u) \in FriendsNow(Owner(u))'
  <2>1. Other(u) \in Elems(friends'[Owner(u)])
    BY <1>0, <1>4, ElemsExtended DEF PushFriend
  <2> QED
    BY <1>0, <1>2, <1>4, <2>1 DEF FriendsNow
<1>5. ASSUME PushChat(u) PROVE chat[u] \in ChatsNow(Owner(u))'
  <2>1. chat[u] \in Elems(chats'[Owner(u)])
    BY <1>0, <1>5, ElemsExtended DEF PushChat
  <2> QED
    BY <1>0, <1>2, <1>5, <2>1 DEF ChatsNow
<1>6. ASSUME WriteDoc(u) PROVE u \in FriendsNow(target[u])'
  <2>1. copy[u].friends = Append(doc[target[u]].friends, u)
    BY <1>6 DEF WriteDoc, Saving
  <2>2. doc'[target[u]] = copy[u]
    BY <1>0, <1>6 DEF WriteDoc
  <2>3. u \in Elems(copy[u].friends)
    BY <1>0, <2>1, ElemsExtended
  <2> QED
    BY <1>0, <1>3, <1>6, <2>2, <2>3 DEF FriendsNow
<1>7. ASSUME PushDoc(u) PROVE chat[u] \in ChatsNow(target[u])'
  <2>1. Append(doc[target[u]].chats, chat[u]) \in ChatList
    BY <1>0, ElemsAppend DEF ChatList
  <2>2. doc' = [doc EXCEPT ![target[u]] = [doc[target[u]] EXCEPT !.chats = Append(@, chat[u])]]
    BY <1>0, <1>7 DEF PushDoc
  <2>3. doc'[target[u]].chats = Append(doc[target[u]].chats, chat[u])
    BY <1>0, <2>1, <2>2, RecordFields
  <2>4. chat[u] \in Elems(doc'[target[u]].chats)
    BY <1>0, <2>3, ElemsExtended
  <2> QED
    BY <1>0, <1>3, <1>7, <2>4 DEF ChatsNow
<1> QED
  BY <1>4, <1>5, <1>6, <1>7

\* Where an operation on the friends of two users ends.
LEMMA RequestEnds ==
    ASSUME TypeOK, AddsAsked, TargetsPlaced, Loading, Saving, AnswersFound, Halves,
           NEW u \in User, Step(u), Noted(u), ~overlap',
           pc[u] \in AddSteps, pc'[u] \notin AddSteps
    PROVE  IF <<target[u], u>> \in asked THEN Friendly(u, target[u])' ELSE u \in invites'[target[u]]
<1> USE DEF redis, locals, bounds, Go
<1>0. /\ pc \in [User -> Steps] /\ target \in [User -> User] /\ target[u] \in User
      /\ side \in [User -> {"own", "other"}] /\ invites \in [User -> SUBSET User]
      /\ target[u] # u
  BY DEF TypeOK, TargetsPlaced
<1>a. Connect(u) \/ Disconnect(u) \/ Load(u) \/ Save(u) \/ (\E v \in User : RequestFriend(u, v)) => FALSE
  <2>1. ~Connect(u) /\ ~Disconnect(u) /\ \A v \in User : ~RequestFriend(u, v)
    BY DEF Connect, Disconnect, RequestFriend, AddSteps
  <2>2. ~Load(u)
    BY DEF Load, LoadSocket, LoadDoc, LoadHash, LoadFriends, LoadChats, AddSteps
  <2>3. ~Save(u)
    BY DEF Save, SaveNums, SaveFriends, SaveChats, SaveDoc, DelHash, DelFriends, DelChats, AddSteps
  <2> QED
    BY <2>1, <2>2, <2>3
<1>b. Add(u) /\ target' = target
  BY <1>a DEF Step, Add, CheckSent, CheckReceived, Invite, Accept, PushFriend, IncFriends, NewRoom,
     PushChat, IncChats, CheckOnline, ReadDoc, WriteDoc, PushDoc
<1>c. PICK f \in User : f = target[u]
  BY <1>0
<1>1. Friendly(u, f) => Friendly(u, f)'
  BY FriendlyStays
<1>2. /\ FriendsNow(u) \subseteq FriendsNow(u)' /\ ChatsNow(u) \subseteq ChatsNow(u)'
      /\ FriendsNow(f) \subseteq FriendsNow(f)' /\ ChatsNow(f) \subseteq ChatsNow(f)'
  BY NowGrows
<1>3. PushDoc(u) => chat[u] \in ChatsNow(f)'
  BY <1>b, <1>c, NowGains
<1> SUFFICES IF <<f, u>> \in asked THEN Friendly(u, f)' ELSE u \in invites'[f]
  BY <1>b, <1>c
<1>4. CASE CheckSent(u)
  <2>1. pc[u] = "addSent" /\ u \in invites[f] /\ invites' = invites
    BY <1>0, <1>c, <1>4 DEF CheckSent, AddSteps
  <2>2. <<f, u>> \in asked => Friendly(u, f)
    BY <1>c, <2>1 DEF AnswersFound, AddSteps
  <2> QED
    BY <1>1, <2>1, <2>2
<1>5. CASE Invite(u)
  <2>1. pc[u] = "invite" /\ u \in invites'[f]
    BY <1>0, <1>c, <1>5 DEF Invite
  <2>2. <<f, u>> \in asked => Friendly(u, f)
    BY <1>c, <2>1 DEF AnswersFound, AddSteps
  <2> QED
    BY <1>1, <2>1, <2>2
<1>6. CASE IncChats(u)
  <2>1. pc[u] = "incChats" /\ side[u] = "other"
    BY <1>0, <1>6 DEF IncChats, AddSteps
  <2>2. /\ f \in FriendsNow(u) /\ u \in FriendsNow(f)
        /\ chat[u] \in ChatsNow(u) /\ chat[u] \in ChatsNow(f)
    BY <1>0, <1>c, <2>1 DEF Halves, FriendGiven, AddSteps
  <2>3. Friendly(u, f)
    BY <2>2 DEF Friendly
  <2>4. <<f, u>> \in asked
    BY <1>c, <2>1 DEF AddsAsked, AddSteps
  <2> QED
    BY <1>1, <2>3, <2>4
<1>7. CASE PushDoc(u)
  <2>1. pc[u] = "pushDoc"
    BY <1>7 DEF PushDoc
  <2>2. side[u] = "other"
    BY <2>1 DEF Halves, AddSteps
  <2>3. f \in FriendsNow(u) /\ u \in FriendsNow(f) /\ chat[u] \in ChatsNow(u)
    BY <1>c, <2>1, <2>2 DEF Halves, FriendGiven, AddSteps
  <2>4. <<f, u>> \in asked
    BY <1>c, <2>1 DEF AddsAsked, AddSteps
  <2>5. Friendly(u, f)'
    BY <1>2, <1>3, <1>7, <2>3 DEF Friendly
  <2> QED
    BY <2>4, <2>5
<1>8. CASE CheckReceived(u) \/ Accept(u) \/ PushFriend(u) \/ IncFriends(u)
  BY <1>0, <1>8 DEF CheckReceived, Accept, PushFriend, IncFriends, AddSteps
<1>9. CASE NewRoom(u) \/ PushChat(u) \/ CheckOnline(u) \/ ReadDoc(u) \/ WriteDoc(u)
  BY <1>0, <1>9 DEF NewRoom, PushChat, CheckOnline, ReadDoc, WriteDoc, AddSteps
<1> QED
  BY <1>b, <1>4, <1>5, <1>6, <1>7, <1>8, <1>9 DEF Add

\* What the steps do that are not the first of a request: nobody asks, whom a
\* request is for does not change, and an invitation goes only when it is accepted.
LEMMA AddingKept ==
    ASSUME TypeOK, NEW u \in User, Step(u), \A v \in User : ~RequestFriend(u, v)
    PROVE  /\ asked' = asked /\ target' = target
           /\ pc'[u] \in AddSteps => pc[u] \in AddSteps
           /\ \A v \in User : \A w \in invites[v] :
                  w \in invites'[v] \/ (v = u /\ w = target[u] /\ pc[u] = "accept")
<1> USE DEF redis, locals, bounds, Go
<1>0. /\ pc \in [User -> Steps] /\ target \in [User -> User] /\ target[u] \in User
      /\ invites \in [User -> SUBSET User]
  BY DEF TypeOK
<1>1. asked' = asked /\ target' = target
  BY DEF Step, Connect, Disconnect, Load, LoadSocket, LoadDoc, LoadHash, LoadFriends, LoadChats, Save,
     SaveNums, SaveFriends, SaveChats, SaveDoc, DelHash, DelFriends, DelChats, Add, CheckSent,
     CheckReceived, Invite, Accept, PushFriend, IncFriends, NewRoom, PushChat, IncChats, CheckOnline,
     ReadDoc, WriteDoc, PushDoc
<1>2. pc'[u] \in AddSteps => pc[u] \in AddSteps
  <2>1. CASE Add(u)
    BY <2>1 DEF Add, CheckSent, CheckReceived, Invite, Accept, PushFriend, IncFriends, NewRoom,
       PushChat, IncChats, CheckOnline, ReadDoc, WriteDoc, PushDoc, AddSteps
  <2>2. CASE Connect(u) \/ Disconnect(u) \/ Load(u)
    BY <1>0, <2>2 DEF Connect, Disconnect, Load, LoadSocket, LoadDoc, LoadHash, LoadFriends, LoadChats,
       AddSteps
  <2>3. CASE Save(u)
    BY <1>0, <2>3 DEF Save, SaveNums, SaveFriends, SaveChats, SaveDoc, DelHash, DelFriends, DelChats, AddSteps
  <2> QED
    BY <2>1, <2>2, <2>3 DEF Step
<1>3. CASE invites' = invites
  BY <1>1, <1>2, <1>3
<1>4. CASE Invite(u)
  BY <1>0, <1>1, <1>2, <1>4 DEF Invite
<1>5. CASE Accept(u)
  <2>1. pc[u] = "accept" /\ invites' = [invites EXCEPT ![u] = @ \ {target[u]}]
    BY <1>5 DEF Accept
  <2>2. ASSUME NEW v \in User, NEW w \in invites[v]
        PROVE  w \in invites'[v] \/ (v = u /\ w = target[u] /\ pc[u] = "accept")
    BY <1>0, <2>1
  <2> QED
    BY <1>1, <1>2, <2>2
<1>6. invites' = invites \/ Invite(u) \/ Accept(u)
  BY DEF Step, Connect, Disconnect, Load, LoadSocket, LoadDoc, LoadHash, LoadFriends, LoadChats,
     Save, SaveNums, SaveFriends, SaveChats, SaveDoc, DelHash, DelFriends, DelChats, Add, CheckSent,
     CheckReceived, PushFriend, IncFriends, NewRoom, PushChat, IncChats, CheckOnline, ReadDoc,
     WriteDoc, PushDoc
<1> QED
  BY <1>3, <1>4, <1>5, <1>6

LEMMA PairsSettledKept ==
    ASSUME TypeOK, TypeOK', AddsAsked, TargetsPlaced, Loading, Saving,
           PairsSettled, AnswersFound, Halves,
           NEW u \in User, Step(u), Noted(u), ~overlap'
    PROVE  PairsSettled'
<1> SUFFICES ASSUME NEW x \in User, NEW y \in User, x # y, ~Adding(x, y)', ~Adding(y, x)',
                    <<x, y>> \in asked'
             PROVE  IF <<y, x>> \in asked' THEN Friendly(x, y)' ELSE x \in invites'[y]
  BY DEF PairsSettled
<1>0. /\ pc \in [User -> Steps] /\ target \in [User -> User] /\ target[u] \in User
  BY DEF TypeOK
<1>1. \A v \in User \ {u} : pc[v] \notin AddSteps /\ pc'[v] \notin AddSteps
  BY AloneStep DEF Resting, AddSteps
<1>2. Friendly(x, y) => Friendly(x, y)'
  BY FriendlyStays
<1>3. CASE \E v \in User : RequestFriend(u, v)
  <2>1. PICK v \in User : RequestFriend(u, v)
    BY <1>3
  <2>2. /\ pc[u] = "idle" /\ pc'[u] = "addSent" /\ asked' = asked \cup {<<u, v>>} /\ invites' = invites
        /\ target'[u] = v
    BY <1>0, <2>1 DEF RequestFriend, Go, redis
  <2>3. ~Adding(x, y) /\ ~Adding(y, x)
    BY <1>1, <2>2 DEF Adding, AddSteps
  <2>4. Adding(u, v)'
    BY <2>2 DEF Adding, AddSteps
  <2>5. <<x, y>> # <<u, v>> /\ <<y, x>> # <<u, v>>
    BY <2>4
  <2>6. <<x, y>> \in asked /\ (<<y, x>> \in asked' <=> <<y, x>> \in asked)
    BY <2>2, <2>5
  <2>7. IF <<y, x>> \in asked THEN Friendly(x, y) ELSE x \in invites[y]
    BY <2>3, <2>6 DEF PairsSettled
  <2> QED
    BY <1>2, <2>2, <2>6, <2>7
<1>4. CASE \A v \in User : ~RequestFriend(u, v)
  <2>1. /\ asked' = asked /\ target' = target
        /\ pc'[u] \in AddSteps => pc[u] \in AddSteps
        /\ \A v \in User : \A w \in invites[v] :
               w \in invites'[v] \/ (v = u /\ w = target[u] /\ pc[u] = "accept")
    BY <1>4, AddingKept
  <2>2. CASE ~Adding(x, y) /\ ~Adding(y, x)
    <3>1. IF <<y, x>> \in asked THEN Friendly(x, y) ELSE x \in invites[y]
      BY <2>1, <2>2 DEF PairsSettled
    <3>2. ~(y = u /\ x = target[u] /\ pc[u] = "accept")
      BY <2>2 DEF Adding, AddSteps
    <3>3. x \in invites[y] => x \in invites'[y]
      BY <2>1, <3>2
    <3>4. <<y, x>> \in asked' <=> <<y, x>> \in asked
      BY <2>1
    <3> QED
      BY <1>2, <3>1, <3>3, <3>4
  <2>3. CASE Adding(x, y) \/ Adding(y, x)
    <3>1. /\ pc[u] \in AddSteps /\ {x, y} = {u, target[u]}
          /\ (x = u /\ y = target[u]) \/ (y = u /\ x = target[u])
      BY <1>1, <2>3 DEF Adding
    <3>2. pc'[u] \notin AddSteps
      BY <2>1, <3>1 DEF Adding
    <3>3. IF <<target[u], u>> \in asked THEN Friendly(u, target[u])' ELSE u \in invites'[target[u]]
      BY <3>1, <3>2, RequestEnds
    <3>4. <<u, target[u]>> \in asked
      BY <3>1 DEF AddsAsked
    <3>5. Friendly(u, target[u])' <=> Friendly(target[u], u)'
      BY <2>1 DEF Friendly
    <3> QED
      BY <2>1, <3>1, <3>3, <3>4, <3>5
  <2> QED
    BY <2>2, <2>3
<1> QED
  BY <1>3, <1>4

LEMMA AnswersFoundKept ==
    ASSUME TypeOK, TypeOK', InvitesAsked, AddsAsked, TargetsPlaced, Loading, Saving,
           PairsSettled, AnswersFound,
           NEW u \in User, Step(u), Noted(u), ~overlap'
    PROVE  AnswersFound'
<1> USE DEF redis, locals, bounds, Go
<1>0. /\ pc \in [User -> Steps] /\ target \in [User -> User] /\ target[u] \in User
      /\ invites \in [User -> SUBSET User] /\ target'[u] \in User
  BY DEF TypeOK
<1>1. \A v \in User \ {u} : pc[v] \notin AddSteps /\ pc'[v] \notin AddSteps
  BY AloneStep DEF Resting, AddSteps
<1> SUFFICES ASSUME pc'[u] \in AddSteps, <<target'[u], u>> \in asked'
             PROVE  /\ pc'[u] = "addSent" =>
                           \/ Friendly(u, target[u])'
                           \/ target'[u] \in invites'[u] /\ u \notin invites'[target'[u]]
                    /\ pc'[u] = "addReceived" => Friendly(u, target[u])' \/ target'[u] \in invites'[u]
                    /\ pc'[u] = "invite" => Friendly(u, target[u])'
  BY <1>1 DEF AnswersFound
<1>2. ASSUME NEW v \in User, target'[u] = v, Friendly(u, v) PROVE Friendly(u, target[u])'
  <2>1. Friendly(u, v)'
    BY <1>2, FriendlyStays
  <2> QED
    BY <1>2, <2>1 DEF Friendly
<1>3. CASE \E v \in User : RequestFriend(u, v)
  <2>1. PICK v \in User : RequestFriend(u, v)
    BY <1>3
  <2>2. /\ pc[u] = "idle" /\ pc'[u] = "addSent" /\ asked' = asked \cup {<<u, v>>} /\ invites' = invites
        /\ target'[u] = v /\ u # v
    BY <1>0, <2>1 DEF RequestFriend
  <2>3. ~Adding(u, v) /\ ~Adding(v, u) /\ <<v, u>> \in asked
    BY <1>1, <2>2 DEF Adding, AddSteps
  <2>4. CASE <<u, v>> \in asked
    <3>1. Friendly(u, v)
      BY <2>2, <2>3, <2>4 DEF PairsSettled
    <3> QED
      BY <1>2, <2>2, <3>1
  <2>5. CASE <<u, v>> \notin asked
    <3>1. v \in invites[u] /\ u \notin invites[v]
      BY <2>2, <2>3, <2>5 DEF PairsSettled, InvitesAsked
    <3> QED
      BY <2>2, <3>1
  <2> QED
    BY <2>4, <2>5
<1>4. CASE CheckSent(u)
  <2>1. /\ pc[u] = "addSent" /\ pc'[u] = "addReceived" /\ UNCHANGED <<asked, target, invites>>
    BY <1>0, <1>4 DEF CheckSent, AddSteps
  <2>2. Friendly(u, target[u]) \/ target[u] \in invites[u]
    BY <2>1 DEF AnswersFound, AddSteps
  <2> QED
    BY <1>0, <1>2, <2>1, <2>2
<1>5. CASE CheckReceived(u)
  <2>1. /\ pc[u] = "addReceived" /\ pc'[u] \in {"accept", "invite"} /\ UNCHANGED <<asked, target>>
        /\ pc'[u] = "invite" => target[u] \notin invites[u]
    BY <1>0, <1>5 DEF CheckReceived
  <2>2. Friendly(u, target[u]) \/ target[u] \in invites[u]
    BY <2>1 DEF AnswersFound, AddSteps
  <2> QED
    BY <1>0, <1>2, <2>1, <2>2
<1>6. CASE pc'[u] \notin {"addSent", "addReceived", "invite"}
  BY <1>6
<1>7. CASE Connect(u) \/ Disconnect(u) \/ Load(u)
  BY <1>0, <1>6, <1>7 DEF Connect, Disconnect, Load, LoadSocket, LoadDoc, LoadHash, LoadFriends, LoadChats
<1>8. CASE Save(u)
  BY <1>0, <1>6, <1>8 DEF Save, SaveNums, SaveFriends, SaveChats, SaveDoc, DelHash, DelFriends, DelChats
<1>9. CASE Invite(u) \/ Accept(u) \/ PushFriend(u) \/ IncFriends(u) \/ NewRoom(u) \/ PushChat(u)
  BY <1>0, <1>6, <1>9 DEF Invite, Accept, PushFriend, IncFriends, NewRoom, PushChat
<1>10. CASE IncChats(u) \/ CheckOnline(u) \/ ReadDoc(u) \/ WriteDoc(u) \/ PushDoc(u)
  BY <1>0, <1>6, <1>10 DEF IncChats, CheckOnline, ReadDoc, WriteDoc, PushDoc
<1> QED
  BY <1>3, <1>4, <1>5, <1>7, <1>8, <1>9, <1>10 DEF Step, Add

LEMMA HalvesKept ==
    ASSUME TypeOK, TypeOK', RoomsShared, TargetsPlaced, Loading, Saving, Halves,
           NEW u \in User, Step(u), Noted(u), ~overlap'
    PROVE  Halves'
<1> USE DEF redis, locals, bounds, Go
<1>0. /\ pc \in [User -> Steps] /\ target \in [User -> User] /\ target[u] \in User
      /\ side \in [User -> {"own", "other"}]
  BY DEF TypeOK
<1>1. \A v \in User \ {u} : pc'[v] \notin AddSteps
  BY AloneStep DEF Resting, AddSteps
<1> DEFINE Accepted == AddSteps \ {"addSent", "addReceived", "invite", "accept"}
<1>2. CASE pc'[u] \notin Accepted
  BY <1>1, <1>2 DEF Halves
<1>3. CASE Connect(u) \/ Disconnect(u) \/ Load(u) \/ \E v \in User : RequestFriend(u, v)
  BY <1>0, <1>2, <1>3 DEF Connect, Disconnect, RequestFriend, Load, LoadSocket, LoadDoc, LoadHash,
     LoadFriends, LoadChats, AddSteps
<1>4. CASE Save(u)
  BY <1>0, <1>2, <1>4 DEF Save, SaveNums, SaveFriends, SaveChats, SaveDoc, DelHash, DelFriends,
     DelChats, AddSteps
<1>5. CASE CheckSent(u) \/ CheckReceived(u) \/ Invite(u) \/ PushDoc(u)
  BY <1>0, <1>2, <1>5 DEF CheckSent, CheckReceived, Invite, PushDoc, AddSteps
\* The steps of an accepted request.
<1>6. PICK f \in User : f = target[u]
  BY <1>0
<1>7. /\ f \in FriendsNow(u) => f \in FriendsNow(u)'
      /\ u \in FriendsNow(f) => u \in FriendsNow(f)'
      /\ chat[u] \in ChatsNow(u) => chat[u] \in ChatsNow(u)'
      /\ chat[u] \in ChatsNow(f) => chat[u] \in ChatsNow(f)'
  BY NowGrows
<1>8. ASSUME target'[u] = f, pc'[u] \in Accepted,
             FriendGiven(u)' => f \in FriendsNow(u)',
             side'[u] = "other" \/ pc'[u] \in {"incChats", "online"} => chat'[u] \in ChatsNow(u)',
             side'[u] = "other" /\ pc'[u] \in {"incFriends", "pushChat", "incChats", "pushDoc"}
                 => u \in FriendsNow(f)',
             side'[u] = "other" /\ pc'[u] = "incChats" => chat'[u] \in ChatsNow(f)',
             pc'[u] \in {"readDoc", "writeDoc", "pushDoc"} => side'[u] = "other"
      PROVE  Halves'
  BY <1>1, <1>8 DEF Halves, FriendsNow, ChatsNow, InRedis
<1>9. pc[u] \in Accepted =>
          /\ FriendGiven(u) => f \in FriendsNow(u)
          /\ side[u] = "other" \/ pc[u] \in {"incChats", "online"} => chat[u] \in ChatsNow(u)
          /\ side[u] = "other" /\ pc[u] \in {"incFriends", "pushChat", "incChats", "pushDoc"}
                 => u \in FriendsNow(f)
          /\ side[u] = "other" /\ pc[u] = "incChats" => chat[u] \in ChatsNow(f)
          /\ pc[u] \in {"readDoc", "writeDoc", "pushDoc"} => side[u] = "other"
  BY <1>6 DEF Halves
<1>10. CASE Accept(u)
  <2>1. pc'[u] = "pushFriend" /\ side'[u] = "own" /\ target'[u] = f
    BY <1>0, <1>6, <1>10 DEF Accept, RoomsShared
  <2> QED
    BY <1>8, <2>1 DEF AddSteps, FriendGiven
<1>11. CASE PushFriend(u)
  <2>1. pc[u] = "pushFriend" /\ pc'[u] = "incFriends" /\ target'[u] = f /\ UNCHANGED <<side, chat>>
    BY <1>0, <1>6, <1>11 DEF PushFriend
  <2>2. Other(u) \in FriendsNow(Owner(u))' /\ target' = target
    BY <1>11, NowGains DEF PushFriend
  <2>3. CASE side[u] = "own"
    <3>1. f \in FriendsNow(u)'
      BY <1>6, <2>1, <2>2, <2>3 DEF Owner, Other
    <3> QED
      BY <1>8, <2>1, <2>3, <3>1 DEF AddSteps
  <2>4. CASE side[u] = "other"
    <3>1. u \in FriendsNow(f)'
      BY <1>6, <2>1, <2>2, <2>4 DEF Owner, Other
    <3>2. f \in FriendsNow(u)' /\ chat'[u] \in ChatsNow(u)'
      BY <1>7, <1>9, <2>1, <2>4 DEF AddSteps, FriendGiven
    <3> QED
      BY <1>8, <2>1, <3>1, <3>2 DEF AddSteps
  <2> QED
    BY <1>0, <2>3, <2>4
<1>12. CASE IncFriends(u) \/ ReadDoc(u)
  <2>1. /\ pc[u] \in Accepted /\ pc'[u] \in Accepted
        /\ \/ pc[u] = "incFriends" /\ pc'[u] \in {"newRoom", "pushChat"}
           \/ pc[u] = "readDoc" /\ pc'[u] = "writeDoc"
        /\ pc'[u] = "pushChat" => side[u] # "own"
        /\ target'[u] = f /\ UNCHANGED <<side, chat>>
    BY <1>0, <1>6, <1>12 DEF IncFriends, ReadDoc, AddSteps
  <2> QED
    BY <1>7, <1>8, <1>9, <2>1 DEF FriendGiven
<1>13. CASE NewRoom(u)
  <2>1. pc[u] = "newRoom" /\ pc'[u] = "pushChat" /\ target'[u] = f /\ side' = side /\ side[u] = "own"
    BY <1>0, <1>6, <1>13 DEF NewRoom, TargetsPlaced
  <2>2. f \in FriendsNow(u)'
    BY <1>7, <1>9, <2>1 DEF AddSteps, FriendGiven
  <2> QED
    BY <1>8, <2>1, <2>2 DEF AddSteps
<1>14. CASE PushChat(u)
  <2>1. pc[u] = "pushChat" /\ pc'[u] = "incChats" /\ target'[u] = f /\ UNCHANGED <<side, chat>>
    BY <1>0, <1>6, <1>14 DEF PushChat
  <2>2. chat[u] \in ChatsNow(Owner(u))' /\ target' = target
    BY <1>14, NowGains DEF PushChat
  <2>3. f \in FriendsNow(u)' /\ (side[u] = "other" => u \in FriendsNow(f)' /\ chat[u] \in ChatsNow(u)')
    BY <1>7, <1>9, <2>1 DEF AddSteps, FriendGiven
  <2>4. CASE side[u] = "own"
    <3>1. chat[u] \in ChatsNow(u)'
      BY <2>1, <2>2, <2>4 DEF Owner
    <3> QED
      BY <1>8, <2>1, <2>3, <2>4, <3>1 DEF AddSteps
  <2>5. CASE side[u] = "other"
    <3>1. chat[u] \in ChatsNow(f)'
      BY <1>6, <2>1, <2>2, <2>5 DEF Owner
    <3> QED
      BY <1>8, <2>1, <2>3, <2>5, <3>1 DEF AddSteps
  <2> QED
    BY <1>0, <2>4, <2>5
<1>15. CASE IncChats(u)
  <2>1. /\ pc[u] = "incChats" /\ pc'[u] \in {"online", "idle"} /\ target'[u] = f
        /\ pc'[u] = "online" => side[u] = "own"
        /\ UNCHANGED <<side, chat>>
    BY <1>0, <1>6, <1>15 DEF IncChats
  <2>2. CASE pc'[u] = "online"
    BY <1>7, <1>8, <1>9, <2>1, <2>2 DEF AddSteps, FriendGiven
  <2>3. CASE pc'[u] = "idle"
    BY <1>2, <2>3 DEF AddSteps
  <2> QED
    BY <2>1, <2>2, <2>3
<1>16. CASE CheckOnline(u)
  <2>1. /\ pc[u] = "online" /\ pc'[u] \in {"pushFriend", "readDoc"} /\ target'[u] = f
        /\ side'[u] = "other" /\ chat' = chat
    BY <1>0, <1>6, <1>16 DEF CheckOnline
  <2>2. f \in FriendsNow(u)' /\ chat'[u] \in ChatsNow(u)'
    BY <1>7, <1>9, <2>1 DEF AddSteps, FriendGiven
  <2> QED
    BY <1>8, <2>1, <2>2 DEF AddSteps
<1>17. CASE WriteDoc(u)
  <2>1. /\ pc[u] = "writeDoc" /\ pc'[u] = "pushDoc" /\ target'[u] = f /\ target' = target
        /\ UNCHANGED <<side, chat>>
    BY <1>0, <1>6, <1>17 DEF WriteDoc
  <2>2. u \in FriendsNow(f)'
    BY <1>6, <1>17, <2>1, NowGains
  <2>3. side[u] = "other" /\ f \in FriendsNow(u)' /\ chat[u] \in ChatsNow(u)'
    BY <1>7, <1>9, <2>1 DEF AddSteps, FriendGiven
  <2> QED
    BY <1>8, <2>1, <2>2, <2>3 DEF AddSteps
<1> QED
  BY <1>3, <1>4, <1>5, <1>10, <1>11, <1>12, <1>13, <1>14, <1>15, <1>16, <1>17 DEF Step, Add

LEMMA AgreeingStep == IInv /\ Kept /\ Agreeing /\ [Next]_vars => Agreeing'
<1> SUFFICES ASSUME IInv, Kept, Agreeing, [Next]_vars PROVE Agreeing'
  OBVIOUS
<1>1. TypeOK /\ TypeOK' /\ InvitesAsked /\ AddsAsked /\ RoomsShared
  BY StepKept DEF IInv
<1>2. ASSUME NEW u \in User, Step(u), Noted(u), ~overlap' PROVE Agreeing'
  <2>1. /\ TargetsPlaced /\ Loading /\ Saving
        /\ PairsSettled /\ AnswersFound /\ Halves
    BY <1>1, <1>2, AloneStep DEF Kept, Agreeing
  <2> QED
    BY <1>1, <1>2, <2>1, PairsSettledKept, AnswersFoundKept, HalvesKept DEF Agreeing
<1>3. CASE UNCHANGED vars
  BY <1>3 DEF vars, redis, locals, bounds, Agreeing, PairsSettled, AnswersFound, Halves, Adding, Friendly,
     FriendsNow, ChatsNow, InRedis, FriendGiven
<1>4. overlap' => Agreeing'
  BY DEF Agreeing
<1> QED
  BY <1>2, <1>3, <1>4 DEF Next

\* Two users who have asked each other to be friends are friends on both sides and
\* share a chat, whoever of them is on line (on_friend_add_request, event_handler.c),
\* as long as no two operations have overlapped.
THEOREM FriendshipIsMutual == Spec => []FriendshipIsMutualAlone
<1>1. Init => Agreeing
  BY DEF Init, Agreeing, PairsSettled, AnswersFound, Halves, AddSteps
<1>2. IInv /\ Kept /\ Agreeing /\ [Next]_vars => Agreeing'
  BY AgreeingStep
<1>3. Agreeing /\ Alone => FriendshipIsMutualAlone
  <2> SUFFICES ASSUME Agreeing, Alone, NEW u \in User, NEW v \in User, u # v, Agreed(u, v)
               PROVE  v \in FriendsOf(u) /\ ChatsOf(u) \cap ChatsOf(v) # {}
    BY DEF FriendshipIsMutualAlone
  <2>1. \A w \in User : pc[w] = "off" \/ pc[w] = "idle"
    BY DEF Alone, AtRest, Resting
  <2>2. ~Adding(u, v) /\ ~Adding(v, u)
    BY <2>1 DEF Adding, AddSteps
  <2>3. Friendly(u, v)
    BY <2>2 DEF Agreeing, Alone, PairsSettled, Agreed
  <2>4. \A w \in User : InRedis(w) <=> pc[w] = "idle"
    BY <2>1 DEF InRedis, AddSteps, SaveSteps
  <2> QED
    BY <2>3, <2>4 DEF Friendly, FriendsNow, ChatsNow, FriendsOf, ChatsOf
<1>4. Agreeing => FriendshipIsMutualAlone
  BY <1>3 DEF FriendshipIsMutualAlone
<1> QED
  BY <1>1, <1>2, <1>4, KeptInvariance, PTL DEF Spec
=============================================================================
