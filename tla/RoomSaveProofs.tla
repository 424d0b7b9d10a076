--------------------------- MODULE RoomSaveProofs ---------------------------
(***************************************************************************)
(* What was sent before the members of a room began to leave is saved, for *)
(* any users, rooms, lists of chats and bounds.                            *)
(***************************************************************************)
EXTENDS RoomSave, FiniteSetTheorems, TLAPS

\* The messages that were counted and not stored yet.
Storing(r) == {u \in User : pc[u] = "exec" /\ into[u] = r}
Counted == \A r \in Room : amount[r] = stored[r] + Cardinality(Storing(r))

\* A thread that deals with a room is inside of its list.
AtChat(u)   == pc[u] \in {"list", "check", "write"}
InsideList  == \A u \in User : AtChat(u) => chat[u] \in 1..Len(Chats[u])

BeforeIsStored == \A r \in Room : before[r] <= stored[r]

\* Whoever leaves has read what was stored before.
CopiesHaveBefore ==
    \A u \in User :
        /\ pc[u] = "list" => before[Here(u)] <= need[u]
        /\ pc[u] \in {"check", "write"} => before[Here(u)] <= copy[u].kept

\* user:<id> exists from the data request until the thread goes off line.
PresentIsKnown ==
    ~lossy => \A u \in User : u \in present <=> pc[u] \in {"load", "idle", "exec", "save"}

WillSave(u, r) ==
    /\ pc[u] \in {"room", "list", "check", "write"}
    /\ \E i \in DOMAIN Chats[u] : i >= chat[u] /\ Chats[u][i] = r

\* A room is saved, or a member is here who will have to leave, or a thread
\* that left has the room still before it.
SomebodySaves ==
    ~lossy => \A r \in Room :
        \/ before[r] <= saved[r].kept
        \/ \E u \in Members(r) : u \in present
        \/ \E u \in Members(r) : WillSave(u, r)

IInv == /\ TypeOK /\ Counted /\ InsideList /\ BeforeIsStored
        /\ CopiesHaveBefore /\ PresentIsKnown /\ SomebodySaves

-----------------------------------------------------------------------------
(* Lists of chats.                                                         *)

\* What the entries of a list are, and who the members are.
LEMMA ChatFacts ==
    /\ \A u \in User : Len(Chats[u]) \in Nat /\ DOMAIN Chats[u] = 1..Len(Chats[u])
    /\ \A u \in User : \A i \in 1..Len(Chats[u]) : Chats[u][i] \in Room
    /\ \A u \in User, r \in Room : Chatting(u, r) <=> u \in Members(r)
BY ChatsAssumption DEF Members, Chatting

\* The room a thread deals with is one of its user's.
LEMMA HereIsRoom ==
    ASSUME TypeOK, InsideList, NEW u \in User, AtChat(u)
    PROVE  Here(u) \in Room /\ u \in Members(Here(u))
<1>1. chat[u] \in 1..Len(Chats[u]) /\ Here(u) \in Room
  BY ChatFacts DEF InsideList, Here
<1>2. Chatting(u, Here(u))
  BY <1>1, ChatFacts DEF Chatting, Here
<1> QED
  BY <1>1, <1>2, ChatFacts

\* The list of messages is never longer than message_amount.
LEMMA StoredBelowAmount ==
    ASSUME TypeOK, Counted, NEW r \in Room
    PROVE  stored[r] <= amount[r]
<1>1. IsFiniteSet(Storing(r))
  BY UserAssumption, FS_Subset DEF Storing
<1>2. Cardinality(Storing(r)) \in Nat
  BY <1>1, FS_CardinalityType
<1> QED
  BY <1>2 DEF TypeOK, Counted

-----------------------------------------------------------------------------
(* Every conjunct is kept by a step of a thread.                           *)

LEMMA TypesKept ==
    ASSUME TypeOK, InsideList, NEW u \in User, Serve(u), crossed' \in BOOLEAN
    PROVE  TypeOK'
<1> USE DEF redis, locals, Go, Keeps, Loses, Steps
<1>1. CASE AskData(u) \/ Loaded(u) \/ LoadFails(u)
  <2>1. CASE AskData(u)
    BY <2>1 DEF TypeOK, AskData
  <2>2. CASE Loaded(u)
    BY <2>2 DEF TypeOK, Loaded
  <2>3. CASE LoadFails(u)
    BY <2>3 DEF TypeOK, LoadFails
  <2> QED
    BY <1>1, <2>1, <2>2, <2>3
<1>2. CASE \E r \in Room : CountMessage(u, r)
  BY <1>2 DEF TypeOK, CountMessage
<1>3. CASE StoreMessage(u)
  BY <1>3 DEF TypeOK, StoreMessage
<1>4. CASE Leave(u)
  BY <1>4 DEF TypeOK, Leave
<1>5. CASE UserNotSaved(u) \/ Reset(u) \/ RoomNotSaved(u) \/ Left(u)
  BY <1>5 DEF TypeOK, UserNotSaved, Reset, RoomNotSaved, Left
<1>6. CASE GoOffline(u)
  BY <1>6 DEF TypeOK, GoOffline, Absent
<1>7. CASE ReadAmount(u)
  <2>1. chat[u] \in 1..Len(Chats[u])
    BY <1>7, ChatFacts DEF ReadAmount, TypeOK
  <2>2. amount[Here(u)] \in Nat
    BY <2>1, ChatFacts DEF Here, TypeOK
  <2> QED
    BY <1>7, <2>2 DEF TypeOK, ReadAmount
<1>8. CASE ReadList(u)
  <2>1. stored[Here(u)] \in Nat /\ need[u] \in Nat
    BY <1>8, HereIsRoom DEF ReadList, AtChat, TypeOK
  <2>2. copy'[u] \in Document
    BY <1>8, <2>1 DEF ReadList, Document, TypeOK
  <2>3. copy' \in [User -> Document]
    BY <1>8, <2>2 DEF ReadList, TypeOK
  <2> QED
    BY <1>8, <2>3 DEF TypeOK, ReadList
<1>9. CASE CheckOnline(u)
  BY <1>9 DEF TypeOK, CheckOnline, NextChat
<1>10. CASE WriteRoom(u)
  <2>1. saved' \in [Room -> Document]
    BY <1>10 DEF TypeOK, WriteRoom
  <2>2. chat' \in [User -> Nat \ {0}] /\ pc' \in [User -> Steps]
    BY <1>10 DEF TypeOK, WriteRoom, NextChat
  <2> QED
    BY <1>10, <2>1, <2>2 DEF TypeOK, WriteRoom
<1> QED
  BY <1>1, <1>2, <1>3, <1>4, <1>5, <1>6, <1>7, <1>8, <1>9, <1>10 DEF Serve

LEMMA CountedKept ==
    ASSUME TypeOK, Counted, NEW u \in User, Serve(u)
    PROVE  Counted'
<1> USE DEF redis, locals, Go, Keeps, Loses
<1> SUFFICES ASSUME NEW r \in Room
             PROVE  amount'[r] = stored'[r] + Cardinality(Storing(r)')
  BY DEF Counted
<1>a. /\ amount[r] = stored[r] + Cardinality(Storing(r))
      /\ amount[r] \in Nat /\ stored[r] \in Nat
  BY DEF Counted, TypeOK
<1>b. IsFiniteSet(Storing(r)) /\ Cardinality(Storing(r)) \in Nat
  BY UserAssumption, FS_Subset, FS_CardinalityType DEF Storing
<1>1. ASSUME NEW s \in Room, CountMessage(u, s) PROVE amount'[r] = stored'[r] + Cardinality(Storing(r)')
  <2>1. CASE s = r
    <3>1. Storing(r)' = Storing(r) \cup {u} /\ u \notin Storing(r)
      BY <1>1, <2>1 DEF CountMessage, Storing, TypeOK
    <3>2. Cardinality(Storing(r)') = Cardinality(Storing(r)) + 1
      BY <3>1, <1>b, FS_AddElement
    <3>3. amount'[r] = amount[r] + 1 /\ stored'[r] = stored[r]
      BY <1>1, <2>1 DEF CountMessage, TypeOK
    <3> QED
      BY <3>2, <3>3, <1>a, <1>b
  <2>2. CASE s # r
    <3>1. Storing(r)' = Storing(r)
      BY <1>1, <2>2 DEF CountMessage, Storing, TypeOK
    <3> QED
      BY <1>1, <2>2, <3>1, <1>a DEF CountMessage, TypeOK
  <2> QED
    BY <2>1, <2>2
<1>2. CASE StoreMessage(u)
  <2>1. CASE into[u] = r
    <3>1. Storing(r)' = Storing(r) \ {u} /\ u \in Storing(r)
      BY <1>2, <2>1 DEF StoreMessage, Storing, TypeOK
    <3>2. Cardinality(Storing(r)') = Cardinality(Storing(r)) - 1
      BY <3>1, <1>b, FS_RemoveElement
    <3>3. amount'[r] = amount[r] /\ stored'[r] = stored[r] + 1
      BY <1>2, <2>1 DEF StoreMessage, TypeOK
    <3> QED
      BY <3>2, <3>3, <1>a, <1>b
  <2>2. CASE into[u] # r
    <3>1. Storing(r)' = Storing(r)
      BY <1>2, <2>2 DEF StoreMessage, Storing, TypeOK
    <3> QED
      BY <1>2, <2>2, <3>1, <1>a DEF StoreMessage, TypeOK
  <2> QED
    BY <2>1, <2>2
<1>3. CASE \/ AskData(u) \/ Loaded(u) \/ LoadFails(u) \/ Leave(u) \/ UserNotSaved(u)
           \/ Reset(u) \/ GoOffline(u) \/ ReadAmount(u) \/ ReadList(u) \/ CheckOnline(u)
           \/ WriteRoom(u) \/ RoomNotSaved(u) \/ Left(u)
  <2>1. /\ pc[u] # "exec" /\ pc'[u] # "exec"
        /\ \A v \in User \ {u} : pc'[v] = pc[v]
        /\ into' = into /\ amount' = amount /\ stored' = stored
    BY <1>3 DEF AskData, Loaded, LoadFails, Leave, UserNotSaved, Reset, GoOffline,
                ReadAmount, ReadList, CheckOnline, WriteRoom, RoomNotSaved, Left, TypeOK
  <2>2. Storing(r)' = Storing(r)
    BY <2>1 DEF Storing
  <2> QED
    BY <2>1, <2>2, <1>a
<1> QED
  BY <1>1, <1>2, <1>3 DEF Serve

LEMMA InsideListKept ==
    ASSUME TypeOK, InsideList, NEW u \in User, Serve(u)
    PROVE  InsideList'
<1> USE DEF redis, locals, Go, Keeps, Loses, AtChat
<1>1. ASSUME NEW v \in User \ {u} PROVE pc'[v] = pc[v] /\ chat'[v] = chat[v]
  BY <1>1 DEF Serve, AskData, Loaded, LoadFails, CountMessage, StoreMessage, Leave,
      UserNotSaved, Reset, GoOffline, ReadAmount, ReadList, CheckOnline, WriteRoom,
      RoomNotSaved, Left, TypeOK
<1>2. AtChat(u)' => chat'[u] \in 1..Len(Chats[u])
  <2>1. CASE ReadAmount(u)
    BY <2>1, ChatFacts DEF ReadAmount, TypeOK
  <2>2. CASE ReadList(u) \/ CheckOnline(u)
    <3>1. chat[u] \in 1..Len(Chats[u])
      BY <2>2 DEF ReadList, CheckOnline, InsideList
    <3> QED
      BY <2>2, <3>1 DEF ReadList, CheckOnline, TypeOK
  <2>3. CASE \/ AskData(u) \/ Loaded(u) \/ LoadFails(u)
             \/ (\E r \in Room : CountMessage(u, r)) \/ StoreMessage(u)
             \/ Leave(u) \/ UserNotSaved(u) \/ Reset(u) \/ GoOffline(u)
             \/ WriteRoom(u) \/ RoomNotSaved(u) \/ Left(u)
    BY <2>3 DEF AskData, Loaded, LoadFails, CountMessage, StoreMessage, Leave,
        UserNotSaved, Reset, GoOffline, WriteRoom, RoomNotSaved, Left, TypeOK
  <2> QED
    BY <2>1, <2>2, <2>3 DEF Serve
<1> QED
  BY <1>1, <1>2 DEF InsideList

\* The list of messages grows only, and "before" follows it.
LEMMA BeforeIsStoredKept ==
    ASSUME TypeOK, BeforeIsStored, NEW u \in User, Serve(u)
    PROVE  BeforeIsStored'
<1> USE DEF redis, locals, Go, Keeps, Loses
<1>1. CASE StoreMessage(u)
  BY <1>1 DEF StoreMessage, BeforeIsStored, TypeOK
<1>2. CASE Leave(u)
  BY <1>2 DEF Leave, BeforeIsStored, TypeOK
<1>3. CASE \/ AskData(u) \/ Loaded(u) \/ LoadFails(u)
           \/ (\E r \in Room : CountMessage(u, r))
           \/ UserNotSaved(u) \/ Reset(u) \/ GoOffline(u) \/ ReadAmount(u) \/ ReadList(u)
           \/ CheckOnline(u) \/ WriteRoom(u) \/ RoomNotSaved(u) \/ Left(u)
  <2>1. before' = before /\ stored' = stored
    BY <1>3 DEF AskData, Loaded, LoadFails, CountMessage, UserNotSaved, Reset, GoOffline,
        ReadAmount, ReadList, CheckOnline, WriteRoom, RoomNotSaved, Left
  <2> QED
    BY <2>1 DEF BeforeIsStored
<1> QED
  BY <1>1, <1>2, <1>3 DEF Serve

LEMMA CopiesHaveBeforeKept ==
    ASSUME TypeOK, Counted, InsideList, BeforeIsStored, CopiesHaveBefore,
           NEW u \in User, Serve(u)
    PROVE  CopiesHaveBefore'
<1> USE DEF redis, locals, Go, Keeps, Loses, AtChat
<1> SUFFICES ASSUME NEW v \in User
             PROVE  /\ pc'[v] = "list" => before'[Here(v)'] <= need'[v]
                    /\ pc'[v] \in {"check", "write"} => before'[Here(v)'] <= copy'[v].kept
  BY DEF CopiesHaveBefore
<1>1. CASE u # v
  <2>1. pc'[v] = pc[v] /\ chat'[v] = chat[v] /\ need'[v] = need[v] /\ copy'[v] = copy[v]
    BY <1>1 DEF Serve, AskData, Loaded, LoadFails, CountMessage, StoreMessage, Leave,
        UserNotSaved, Reset, GoOffline, ReadAmount, ReadList, CheckOnline, WriteRoom,
        RoomNotSaved, Left, TypeOK
  <2>2. Here(v)' = Here(v)
    BY <2>1 DEF Here
  <2>3. ASSUME AtChat(v) PROVE before'[Here(v)] = before[Here(v)]
    <3>1. Here(v) \in Room /\ v \in Members(Here(v))
      BY <2>3, HereIsRoom
    <3>2. CASE Leave(u)
      BY <2>3, <3>1, <3>2 DEF Leave, Leaving
    <3>3. CASE ~Leave(u)
      BY <3>3 DEF Serve, AskData, Loaded, LoadFails, CountMessage, StoreMessage,
          UserNotSaved, Reset, GoOffline, ReadAmount, ReadList, CheckOnline, WriteRoom,
          RoomNotSaved, Left
    <3> QED
      BY <3>2, <3>3
  <2> QED
    BY <2>1, <2>2, <2>3 DEF CopiesHaveBefore
<1>2. CASE u = v
  <2>1. CASE ReadAmount(v)
    <3>1. chat[v] \in 1..Len(Chats[v])
      BY <2>1, ChatFacts DEF ReadAmount, TypeOK
    <3>2. Here(v) \in Room /\ Here(v)' = Here(v)
      BY <2>1, <3>1, ChatFacts DEF Here, ReadAmount
    <3>3. before[Here(v)] <= amount[Here(v)]
      BY <3>2, StoredBelowAmount DEF BeforeIsStored, TypeOK
    <3> QED
      BY <2>1, <3>2, <3>3 DEF ReadAmount, TypeOK
  <2>2. CASE ReadList(v)
    <3>1. Here(v) \in Room /\ Here(v)' = Here(v)
      BY <2>2, HereIsRoom DEF ReadList, Here
    <3>2. before[Here(v)] <= need[v] /\ before[Here(v)] <= stored[Here(v)]
      BY <2>2, <3>1 DEF ReadList, CopiesHaveBefore, BeforeIsStored
    <3>3. before[Here(v)] <= copy'[v].kept
      BY <2>2, <3>2 DEF ReadList, TypeOK
    <3> QED
      BY <2>2, <3>1, <3>3 DEF ReadList, TypeOK
  <2>3. CASE CheckOnline(v)
    <3>1. CASE AnyOnline(v)
      BY <2>3, <3>1 DEF CheckOnline, TypeOK
    <3>2. CASE ~AnyOnline(v)
      BY <2>3, <3>2 DEF CheckOnline, CopiesHaveBefore, Here, TypeOK
    <3> QED
      BY <3>1, <3>2
  <2>4. CASE \/ AskData(u) \/ Loaded(u) \/ LoadFails(u)
             \/ (\E r \in Room : CountMessage(u, r)) \/ StoreMessage(u)
             \/ Leave(u) \/ UserNotSaved(u) \/ Reset(u) \/ GoOffline(u)
             \/ WriteRoom(u) \/ RoomNotSaved(u) \/ Left(u)
    <3>1. ~AtChat(v)'
      BY <1>2, <2>4 DEF AskData, Loaded, LoadFails, CountMessage, StoreMessage, Leave,
        UserNotSaved, Reset, GoOffline, WriteRoom, RoomNotSaved, Left, TypeOK
    <3> QED
      BY <3>1
  <2> QED
    BY <1>2, <2>1, <2>2, <2>3, <2>4 DEF Serve
<1> QED
  BY <1>1, <1>2

LEMMA PresentIsKnownKept ==
    ASSUME TypeOK, PresentIsKnown, NEW u \in User, Serve(u)
    PROVE  PresentIsKnown'
<1> USE DEF redis, locals, Go, Keeps, Loses
<1> SUFFICES ASSUME ~lossy', NEW v \in User
             PROVE  v \in present' <=> pc'[v] \in {"load", "idle", "exec", "save"}
  BY DEF PresentIsKnown
<1>1. CASE AskData(u)
  BY <1>1 DEF AskData, PresentIsKnown, TypeOK
<1>2. CASE GoOffline(u)
  BY <1>2 DEF GoOffline, Absent, PresentIsKnown, TypeOK
<1>3. CASE LoadFails(u) \/ UserNotSaved(u) \/ Reset(u) \/ RoomNotSaved(u)
  BY <1>3 DEF LoadFails, UserNotSaved, Reset, RoomNotSaved
<1>4. CASE Loaded(u) \/ (\E r \in Room : CountMessage(u, r)) \/ StoreMessage(u) \/ Leave(u)
  BY <1>4 DEF Loaded, CountMessage, StoreMessage, Leave, PresentIsKnown, TypeOK
<1>5. CASE ReadAmount(u) \/ ReadList(u) \/ WriteRoom(u) \/ Left(u)
  BY <1>5 DEF ReadAmount, ReadList, WriteRoom, Left, PresentIsKnown, TypeOK
<1>6. CASE CheckOnline(u)
  BY <1>6 DEF CheckOnline, PresentIsKnown, TypeOK
<1> QED
  BY <1>1, <1>2, <1>3, <1>4, <1>5, <1>6 DEF Serve

LEMMA SomebodySavesKept ==
    ASSUME TypeOK, InsideList, CopiesHaveBefore, PresentIsKnown, SomebodySaves,
           NEW u \in User, Serve(u)
    PROVE  SomebodySaves'
<1> USE DEF redis, locals, Go, Keeps, Loses
<1> SUFFICES ASSUME ~lossy', NEW r \in Room
             PROVE  \/ before'[r] <= saved'[r].kept
                    \/ \E v \in Members(r) : v \in present'
                    \/ \E v \in Members(r) : WillSave(v, r)'
  BY DEF SomebodySaves, Members, Chatting
<1>a. ~lossy
  BY DEF Serve, AskData, Loaded, LoadFails, CountMessage, StoreMessage, Leave,
      UserNotSaved, Reset, GoOffline, ReadAmount, ReadList, CheckOnline, WriteRoom,
      RoomNotSaved, Left
<1>b. \/ before[r] <= saved[r].kept
      \/ \E v \in Members(r) : v \in present
      \/ \E v \in Members(r) : WillSave(v, r)
  BY <1>a DEF SomebodySaves
<1>c. Members(r) \subseteq User
  BY DEF Members
<1>d. ASSUME NEW v \in Members(r), v # u, WillSave(v, r) PROVE WillSave(v, r)'
  <2>1. pc'[v] = pc[v] /\ chat'[v] = chat[v]
    BY <1>c, <1>d DEF Serve, AskData, Loaded, LoadFails, CountMessage, StoreMessage, Leave,
        UserNotSaved, Reset, GoOffline, ReadAmount, ReadList, CheckOnline, WriteRoom,
        RoomNotSaved, Left, TypeOK
  <2> QED
    BY <1>d, <2>1 DEF WillSave
<1>1. CASE AskData(u) \/ Loaded(u) \/ (\E s \in Room : CountMessage(u, s)) \/ StoreMessage(u)
  <2>1. /\ before' = before /\ saved' = saved /\ present \subseteq present'
        /\ ~WillSave(u, r)
    BY <1>1 DEF AskData, Loaded, CountMessage, StoreMessage, WillSave
  <2> QED
    BY <1>b, <1>d, <2>1
<1>2. CASE LoadFails(u) \/ UserNotSaved(u) \/ Reset(u) \/ RoomNotSaved(u)
  BY <1>2 DEF LoadFails, UserNotSaved, Reset, RoomNotSaved
<1>3. CASE Leave(u)
  <2>1. saved' = saved /\ present' = present /\ ~WillSave(u, r) /\ u \in present
    BY <1>3, <1>a DEF Leave, WillSave, PresentIsKnown
  <2>2. CASE u \in Members(r)
    BY <2>1, <2>2
  <2>3. CASE u \notin Members(r)
    <3>1. before'[r] = before[r]
      BY <1>3, <2>3 DEF Leave
    <3> QED
      BY <1>b, <1>d, <2>1, <3>1
  <2> QED
    BY <2>2, <2>3
<1>4. CASE GoOffline(u)
  <2>1. /\ before' = before /\ saved' = saved /\ present' = present \ {u}
        /\ ~WillSave(u, r) /\ pc'[u] = "room" /\ chat'[u] = 1
    BY <1>4 DEF GoOffline, Absent, WillSave, TypeOK
  <2>2. ASSUME u \in Members(r) PROVE WillSave(u, r)'
    <3>1. PICK i \in DOMAIN Chats[u] : Chats[u][i] = r
      BY <2>2, ChatFacts DEF Chatting
    <3>2. i >= 1
      BY <3>1, ChatFacts
    <3> QED
      BY <2>1, <3>1, <3>2 DEF WillSave
  <2> QED
    BY <1>b, <1>d, <2>1, <2>2
<1>5. CASE ReadAmount(u) \/ ReadList(u)
  <2>1. before' = before /\ saved' = saved /\ present' = present
    BY <1>5 DEF ReadAmount, ReadList
  <2>2. chat' = chat /\ pc'[u] \in {"list", "check"}
    BY <1>5 DEF ReadAmount, ReadList, TypeOK
  <2>3. WillSave(u, r) => WillSave(u, r)'
    BY <2>2 DEF WillSave
  <2> QED
    BY <1>b, <1>d, <2>1, <2>3
<1>6. ASSUME CheckOnline(u) \/ WriteRoom(u), Here(u) # r, chat'[u] = NextChat(u),
             pc'[u] = "room", WillSave(u, r)
      PROVE  WillSave(u, r)'
  <2>1. PICK i \in DOMAIN Chats[u] : i >= chat[u] /\ Chats[u][i] = r
    BY <1>6 DEF WillSave
  <2>2. i >= chat'[u]
    BY <1>6, <2>1, ChatFacts DEF Here, NextChat, TypeOK
  <2> QED
    BY <1>6, <2>1, <2>2 DEF WillSave
<1>7. CASE CheckOnline(u)
  <2>1. before' = before /\ saved' = saved /\ present' = present
    BY <1>7 DEF CheckOnline
  <2>2. CASE AnyOnline(u)
    <3>1. pc'[u] = "room" /\ chat'[u] = NextChat(u)
      BY <1>7, <2>2 DEF CheckOnline, TypeOK
    <3>2. CASE Here(u) = r
      BY <2>1, <2>2, <3>2 DEF AnyOnline
    <3>3. CASE Here(u) # r
      BY <1>b, <1>d, <1>6, <1>7, <2>1, <3>1, <3>3
    <3> QED
      BY <3>2, <3>3
  <2>3. CASE ~AnyOnline(u)
    <3>1. pc'[u] = "write" /\ chat' = chat
      BY <1>7, <2>3 DEF CheckOnline, TypeOK
    <3>2. WillSave(u, r) => WillSave(u, r)'
      BY <3>1 DEF WillSave
    <3> QED
      BY <1>b, <1>d, <2>1, <3>2
  <2> QED
    BY <2>2, <2>3
<1>8. CASE WriteRoom(u)
  <2>1. /\ before' = before /\ present' = present
        /\ pc'[u] = "room" /\ chat'[u] = NextChat(u)
        /\ saved' = [saved EXCEPT ![Here(u)] = copy[u]]
    BY <1>8 DEF WriteRoom, TypeOK
  <2>2. CASE Here(u) = r
    <3>1. before[r] <= copy[u].kept
      BY <1>8, <2>2 DEF WriteRoom, CopiesHaveBefore
    <3>2. saved'[r] = copy[u]
      BY <2>1, <2>2 DEF TypeOK
    <3> QED
      BY <2>1, <3>1, <3>2
  <2>3. CASE Here(u) # r
    <3>1. saved'[r] = saved[r]
      BY <2>1, <2>3 DEF TypeOK
    <3> QED
      BY <1>b, <1>d, <1>6, <1>8, <2>1, <2>3, <3>1
  <2> QED
    BY <2>2, <2>3
<1>9. CASE Left(u)
  <2>1. before' = before /\ saved' = saved /\ present' = present
    BY <1>9 DEF Left
  <2>2. ~WillSave(u, r)
    BY <1>9, ChatFacts DEF Left, WillSave, TypeOK
  <2> QED
    BY <1>b, <1>d, <2>1, <2>2
<1> QED
  BY <1>1, <1>2, <1>3, <1>4, <1>5, <1>7, <1>8, <1>9 DEF Serve

-----------------------------------------------------------------------------
(* The theorems.                                                           *)

LEMMA Initial == Init => IInv
<1> SUFFICES ASSUME Init PROVE IInv
  OBVIOUS
<1>1. Empty \in Document /\ Empty.kept = 0
  BY DEF Empty, Document
<1>2. TypeOK
  <2>1. PICK r \in Room : into = [u \in User |-> r]
    BY DEF Init
  <2>2. into \in [User -> Room]
    BY <2>1
  <2>3. amount \in [Room -> Nat] /\ stored \in [Room -> Nat] /\ before \in [Room -> Nat]
    BY DEF Init
  <2>4. saved \in [Room -> Document] /\ copy \in [User -> Document]
    BY <1>1 DEF Init
  <2>5. chat \in [User -> Nat \ {0}] /\ need \in [User -> Nat]
    BY DEF Init
  <2>6. pc \in [User -> Steps]
    BY DEF Init, Steps
  <2> QED
    BY <2>2, <2>3, <2>4, <2>5, <2>6 DEF Init, TypeOK
<1>3. Counted
  <2>1. \A r \in Room : Storing(r) = {}
    BY DEF Init, Storing
  <2> QED
    BY <2>1, FS_EmptySet DEF Init, Counted
<1>4. InsideList /\ CopiesHaveBefore
  BY DEF Init, InsideList, AtChat, CopiesHaveBefore
<1>5. BeforeIsStored /\ PresentIsKnown /\ SomebodySaves
  BY <1>1 DEF Init, BeforeIsStored, PresentIsKnown, SomebodySaves
<1> QED
  BY <1>2, <1>3, <1>4, <1>5 DEF IInv

LEMMA StepKept == IInv /\ [Next]_vars => IInv'
<1> SUFFICES ASSUME IInv, [Next]_vars PROVE IInv'
  OBVIOUS
<1>1. ASSUME NEW u \in User, Serve(u), crossed' = (crossed \/ Crossing(u)) PROVE IInv'
  <2>1. crossed' \in BOOLEAN
    BY <1>1
  <2>2. TypeOK'
    BY <1>1, <2>1, TypesKept DEF IInv
  <2>3. Counted' /\ InsideList' /\ BeforeIsStored'
    BY <1>1, CountedKept, InsideListKept, BeforeIsStoredKept DEF IInv
  <2>4. CopiesHaveBefore' /\ PresentIsKnown' /\ SomebodySaves'
    BY <1>1, CopiesHaveBeforeKept, PresentIsKnownKept, SomebodySavesKept DEF IInv
  <2> QED
    BY <2>2, <2>3, <2>4 DEF IInv
<1>2. CASE UNCHANGED vars
  BY <1>2 DEF vars, redis, locals, history, IInv, TypeOK, Counted, Storing, InsideList,
      AtChat, BeforeIsStored, CopiesHaveBefore, Here, PresentIsKnown, SomebodySaves,
      WillSave, Members, Chatting
<1> QED
  BY <1>1, <1>2 DEF Next

\* The inductive invariant of the threads that come, send and leave.
THEOREM Invariance == Spec => []IInv
<1>1. Init => IInv
  BY Initial
<1>2. IInv /\ [Next]_vars => IInv'
  BY StepKept
<1> QED
  BY <1>1, <1>2, PTL DEF Spec

\* The variables keep their types.
THEOREM TypeCorrect == Spec => []TypeOK
<1>1. IInv => TypeOK
  BY DEF IInv
<1> QED
  BY <1>1, Invariance, PTL

\* When all members of a room have left and no store has failed, MongoDB has
\* what had been sent before the first of them began to leave
\* (redis_to_mongodb, bridge.c:74).
THEOREM SentMessagesAreSaved == Spec => []SentBeforeIsSaved
<1>1. IInv => SentBeforeIsSaved
  <2> SUFFICES ASSUME IInv, ~lossy, NEW r \in Room, AllLeft(r)
               PROVE  before[r] <= saved[r].kept
    BY DEF SentBeforeIsSaved
  <2>1. \A u \in Members(r) : u \in User /\ pc[u] = "off"
    BY DEF AllLeft, Members
  <2>2. \A u \in Members(r) : u \notin present /\ ~WillSave(u, r)
    BY <2>1 DEF IInv, PresentIsKnown, WillSave
  <2> QED
    BY <2>2 DEF IInv, SomebodySaves
<1> QED
  BY <1>1, Invariance, PTL

-----------------------------------------------------------------------------
(* Nobody crosses a leaver.                                                *)

\* The document a room should have: every message, and nothing unread.
Whole(r) == [kept |-> stored[r], blank |-> 0]

\* A thread sends to a room of its user.
SendsToOwnRoom == \A u \in User : pc[u] = "exec" => u \in Members(into[u])

\* Whoever leaves is the only one with a step of a request still to take.
LeavesAlone ==
    ~crossed => \A u, v \in User : u # v /\ pc[u] \in Leaving => pc[v] \notin Working

\* So what he reads of a room is the room.
ReadsWhole ==
    ~crossed => \A u \in User :
        /\ pc[u] = "list" => need[u] = stored[Here(u)]
        /\ pc[u] \in {"check", "write"} => copy[u] = Whole(Here(u))

\* A room is saved as it is, or a member is here who will have to leave, or a
\* thread that left has the room still before it.
SomebodySavesAll ==
    ~lossy /\ ~crossed => \A r \in Room :
        \/ saved[r] = Whole(r)
        \/ \E u \in Members(r) : u \in present
        \/ \E u \in Members(r) : WillSave(u, r)

AInv == SendsToOwnRoom /\ LeavesAlone /\ ReadsWhole /\ SomebodySavesAll

\* A step that is not crossed: no other thread is leaving, and whoever leaves by
\* it is the only one at work.
LEMMA UncrossedStep ==
    ASSUME TypeOK, NEW u \in User, Serve(u), crossed' = (crossed \/ Crossing(u)), ~crossed'
    PROVE  /\ ~crossed
           /\ \A v \in User \ {u} : pc'[v] = pc[v] /\ pc[v] \notin Leaving
           /\ pc'[u] \in Leaving => \A v \in User \ {u} : pc[v] \notin Working
<1> USE DEF redis, locals, Go, Keeps, Loses
<1>1. \A v \in User \ {u} : pc'[v] = pc[v]
  BY DEF Serve, AskData, Loaded, LoadFails, CountMessage, StoreMessage, Leave,
      UserNotSaved, Reset, GoOffline, ReadAmount, ReadList, CheckOnline, WriteRoom,
      RoomNotSaved, Left, TypeOK
<1>2. ~crossed /\ ~Crossing(u)
  OBVIOUS
<1> QED
  BY <1>1, <1>2 DEF Crossing, Working

LEMMA SendsToOwnRoomKept ==
    ASSUME TypeOK, SendsToOwnRoom, NEW u \in User, Serve(u)
    PROVE  SendsToOwnRoom'
<1> USE DEF redis, locals, Go, Keeps, Loses
<1> SUFFICES ASSUME NEW v \in User, pc'[v] = "exec" PROVE v \in Members(into'[v])
  BY DEF SendsToOwnRoom, Members, Chatting
<1>1. CASE \E r \in Room : CountMessage(u, r)
  BY <1>1, ChatFacts DEF CountMessage, SendsToOwnRoom, TypeOK
<1>2. CASE StoreMessage(u)
  BY <1>2 DEF StoreMessage, SendsToOwnRoom, TypeOK
<1>3. CASE \/ AskData(u) \/ Loaded(u) \/ LoadFails(u) \/ Leave(u) \/ UserNotSaved(u)
           \/ Reset(u) \/ GoOffline(u) \/ ReadAmount(u) \/ ReadList(u) \/ CheckOnline(u)
           \/ WriteRoom(u) \/ RoomNotSaved(u) \/ Left(u)
  <2>1. into' = into /\ pc[v] = "exec"
    BY <1>3 DEF AskData, Loaded, LoadFails, Leave, UserNotSaved, Reset, GoOffline,
        ReadAmount, ReadList, CheckOnline, WriteRoom, RoomNotSaved, Left, TypeOK
  <2> QED
    BY <2>1 DEF SendsToOwnRoom
<1> QED
  BY <1>1, <1>2, <1>3 DEF Serve

LEMMA LeavesAloneKept ==
    ASSUME TypeOK, LeavesAlone, NEW u \in User, Serve(u), crossed' = (crossed \/ Crossing(u))
    PROVE  LeavesAlone'
<1> SUFFICES ASSUME ~crossed', NEW v \in User, NEW w \in User, v # w, pc'[v] \in Leaving
             PROVE  pc'[w] \notin Working
  BY DEF LeavesAlone, Leaving, Working
<1>1. /\ \A x \in User \ {u} : pc'[x] = pc[x] /\ pc[x] \notin Leaving
      /\ pc'[u] \in Leaving => \A x \in User \ {u} : pc[x] \notin Working
  BY UncrossedStep
<1>2. v = u
  BY <1>1
<1> QED
  BY <1>1, <1>2

\* Without a message that is counted and not stored yet, a room is as long as
\* its message_amount says.
LEMMA NobodyStoring ==
    ASSUME TypeOK, Counted, NEW r \in Room, Storing(r) = {}
    PROVE  amount[r] = stored[r]
<1>1. Cardinality(Storing(r)) = 0
  BY FS_EmptySet
<1>2. amount[r] = stored[r] + Cardinality(Storing(r)) /\ stored[r] \in Nat
  BY DEF Counted, TypeOK
<1> QED
  BY <1>1, <1>2

LEMMA ReadsWholeKept ==
    ASSUME TypeOK, Counted, InsideList, LeavesAlone, ReadsWhole, NEW u \in User, Serve(u),
           crossed' = (crossed \/ Crossing(u))
    PROVE  ReadsWhole'
<1> USE DEF redis, locals, Go, Keeps, Loses, AtChat
<1> SUFFICES ASSUME ~crossed', NEW v \in User
             PROVE  /\ pc'[v] = "list" => need'[v] = stored'[Here(v)']
                    /\ pc'[v] \in {"check", "write"} => copy'[v] = Whole(Here(v))'
  BY DEF ReadsWhole
<1>0. ~crossed
  BY UncrossedStep
<1>1. CASE u # v
  <2>1. pc'[v] \notin Leaving
    BY <1>1, UncrossedStep
  <2> QED
    BY <2>1 DEF Leaving
<1>2. CASE u = v
  <2>1. CASE ReadAmount(v)
    <3>1. chat[v] \in 1..Len(Chats[v])
      BY <2>1, ChatFacts DEF ReadAmount, TypeOK
    <3>2. Here(v) \in Room /\ Here(v)' = Here(v) /\ pc'[v] = "list" /\ stored' = stored
      BY <2>1, <3>1, ChatFacts DEF Here, ReadAmount, TypeOK
    <3>3. \A w \in User : pc[w] # "exec"
      BY <1>0, <2>1 DEF ReadAmount, LeavesAlone, Leaving, Working
    <3>4. amount[Here(v)] = stored[Here(v)]
      BY <3>2, <3>3, NobodyStoring DEF Storing
    <3> QED
      BY <2>1, <3>2, <3>4 DEF ReadAmount, TypeOK
  <2>2. CASE ReadList(v)
    <3>1. Here(v) \in Room /\ Here(v)' = Here(v) /\ stored' = stored /\ pc'[v] = "check"
      BY <2>2, HereIsRoom DEF ReadList, Here, TypeOK
    <3>2. need[v] = stored[Here(v)] /\ stored[Here(v)] \in Nat
      BY <1>0, <2>2, <3>1 DEF ReadList, ReadsWhole, TypeOK
    <3>3. copy'[v] = [kept |-> stored[Here(v)], blank |-> stored[Here(v)] - stored[Here(v)]]
      BY <2>2, <3>2 DEF ReadList, TypeOK
    <3> QED
      BY <3>1, <3>2, <3>3 DEF Whole
  <2>3. CASE CheckOnline(v)
    <3>1. CASE AnyOnline(v)
      BY <2>3, <3>1 DEF CheckOnline, TypeOK
    <3>2. CASE ~AnyOnline(v)
      <4>1. /\ Here(v)' = Here(v) /\ stored' = stored /\ copy' = copy
            /\ pc'[v] = "write"
        BY <2>3, <3>2 DEF CheckOnline, Here, TypeOK
      <4>2. copy[v] = Whole(Here(v))
        BY <1>0, <2>3 DEF CheckOnline, ReadsWhole
      <4> QED
        BY <4>1, <4>2 DEF Whole
    <3> QED
      BY <3>1, <3>2
  <2>4. CASE \/ AskData(u) \/ Loaded(u) \/ LoadFails(u)
             \/ (\E r \in Room : CountMessage(u, r)) \/ StoreMessage(u)
             \/ Leave(u) \/ UserNotSaved(u) \/ Reset(u) \/ GoOffline(u)
             \/ WriteRoom(u) \/ RoomNotSaved(u) \/ Left(u)
    <3>1. ~AtChat(v)'
      BY <1>2, <2>4 DEF AskData, Loaded, LoadFails, CountMessage, StoreMessage, Leave,
        UserNotSaved, Reset, GoOffline, WriteRoom, RoomNotSaved, Left, TypeOK
    <3> QED
      BY <3>1
  <2> QED
    BY <1>2, <2>1, <2>2, <2>3, <2>4 DEF Serve
<1> QED
  BY <1>1, <1>2

LEMMA SomebodySavesAllKept ==
    ASSUME TypeOK, InsideList, PresentIsKnown, SendsToOwnRoom, ReadsWhole, SomebodySavesAll,
           NEW u \in User, Serve(u), crossed' = (crossed \/ Crossing(u))
    PROVE  SomebodySavesAll'
<1> USE DEF redis, locals, Go, Keeps, Loses
<1> SUFFICES ASSUME ~lossy', ~crossed', NEW r \in Room
             PROVE  \/ saved'[r] = Whole(r)'
                    \/ \E v \in Members(r) : v \in present'
                    \/ \E v \in Members(r) : WillSave(v, r)'
  BY DEF SomebodySavesAll, Members, Chatting
<1>0. ~crossed
  BY UncrossedStep
<1>a. ~lossy
  BY DEF Serve, AskData, Loaded, LoadFails, CountMessage, StoreMessage, Leave,
      UserNotSaved, Reset, GoOffline, ReadAmount, ReadList, CheckOnline, WriteRoom,
      RoomNotSaved, Left
<1>b. \/ saved[r] = Whole(r)
      \/ \E v \in Members(r) : v \in present
      \/ \E v \in Members(r) : WillSave(v, r)
  BY <1>0, <1>a DEF SomebodySavesAll
<1>c. Members(r) \subseteq User
  BY DEF Members
<1>d. ASSUME NEW v \in Members(r), v # u, WillSave(v, r) PROVE WillSave(v, r)'
  <2>1. pc'[v] = pc[v] /\ chat'[v] = chat[v]
    BY <1>c, <1>d DEF Serve, AskData, Loaded, LoadFails, CountMessage, StoreMessage, Leave,
        UserNotSaved, Reset, GoOffline, ReadAmount, ReadList, CheckOnline, WriteRoom,
        RoomNotSaved, Left, TypeOK
  <2> QED
    BY <1>d, <2>1 DEF WillSave
<1>1. CASE AskData(u) \/ Loaded(u) \/ (\E s \in Room : CountMessage(u, s)) \/ Leave(u)
  <2>1. /\ stored' = stored /\ saved' = saved /\ present \subseteq present'
        /\ ~WillSave(u, r)
    BY <1>1 DEF AskData, Loaded, CountMessage, Leave, WillSave
  <2> QED
    BY <1>b, <1>d, <2>1 DEF Whole
<1>2. CASE LoadFails(u) \/ UserNotSaved(u) \/ Reset(u) \/ RoomNotSaved(u)
  BY <1>2 DEF LoadFails, UserNotSaved, Reset, RoomNotSaved
<1>3. CASE StoreMessage(u)
  <2>1. /\ saved' = saved /\ present' = present /\ ~WillSave(u, r) /\ u \in present
        /\ u \in Members(into[u]) /\ stored' = [stored EXCEPT ![into[u]] = @ + 1]
    BY <1>3, <1>a DEF StoreMessage, WillSave, PresentIsKnown, SendsToOwnRoom
  <2>2. CASE into[u] = r
    BY <2>1, <2>2
  <2>3. CASE into[u] # r
    <3>1. stored'[r] = stored[r]
      BY <2>1, <2>3 DEF TypeOK
    <3> QED
      BY <1>b, <1>d, <2>1, <3>1 DEF Whole
  <2> QED
    BY <2>2, <2>3
<1>4. CASE GoOffline(u)
  <2>1. /\ stored' = stored /\ saved' = saved /\ present' = present \ {u}
        /\ ~WillSave(u, r) /\ pc'[u] = "room" /\ chat'[u] = 1
    BY <1>4 DEF GoOffline, Absent, WillSave, TypeOK
  <2>2. ASSUME u \in Members(r) PROVE WillSave(u, r)'
    <3>1. PICK i \in DOMAIN Chats[u] : Chats[u][i] = r
      BY <2>2, ChatFacts DEF Chatting
    <3>2. i >= 1
      BY <3>1, ChatFacts
    <3> QED
      BY <2>1, <3>1, <3>2 DEF WillSave
  <2> QED
    BY <1>b, <1>d, <2>1, <2>2 DEF Whole
<1>5. CASE ReadAmount(u) \/ ReadList(u)
  <2>1. stored' = stored /\ saved' = saved /\ present' = present
    BY <1>5 DEF ReadAmount, ReadList
  <2>2. chat' = chat /\ pc'[u] \in {"list", "check"}
    BY <1>5 DEF ReadAmount, ReadList, TypeOK
  <2>3. WillSave(u, r) => WillSave(u, r)'
    BY <2>2 DEF WillSave
  <2> QED
    BY <1>b, <1>d, <2>1, <2>3 DEF Whole
<1>6. ASSUME CheckOnline(u) \/ WriteRoom(u), Here(u) # r, chat'[u] = NextChat(u),
             pc'[u] = "room", WillSave(u, r)
      PROVE  WillSave(u, r)'
  <2>1. PICK i \in DOMAIN Chats[u] : i >= chat[u] /\ Chats[u][i] = r
    BY <1>6 DEF WillSave
  <2>2. i >= chat'[u]
    BY <1>6, <2>1, ChatFacts DEF Here, NextChat, TypeOK
  <2> QED
    BY <1>6, <2>1, <2>2 DEF WillSave
<1>7. CASE CheckOnline(u)
  <2>1. stored' = stored /\ saved' = saved /\ present' = present
    BY <1>7 DEF CheckOnline
  <2>2. CASE AnyOnline(u)
    <3>1. pc'[u] = "room" /\ chat'[u] = NextChat(u)
      BY <1>7, <2>2 DEF CheckOnline, TypeOK
    <3>2. CASE Here(u) = r
      BY <2>1, <2>2, <3>2 DEF AnyOnline
    <3>3. CASE Here(u) # r
      BY <1>b, <1>d, <1>6, <1>7, <2>1, <3>1, <3>3 DEF Whole
    <3> QED
      BY <3>2, <3>3
  <2>3. CASE ~AnyOnline(u)
    <3>1. pc'[u] = "write" /\ chat' = chat
      BY <1>7, <2>3 DEF CheckOnline, TypeOK
    <3>2. WillSave(u, r) => WillSave(u, r)'
      BY <3>1 DEF WillSave
    <3> QED
      BY <1>b, <1>d, <2>1, <3>2 DEF Whole
  <2> QED
    BY <2>2, <2>3
<1>8. CASE WriteRoom(u)
  <2>1. /\ stored' = stored /\ present' = present
        /\ pc'[u] = "room" /\ chat'[u] = NextChat(u)
        /\ saved' = [saved EXCEPT ![Here(u)] = copy[u]]
    BY <1>8 DEF WriteRoom, TypeOK
  <2>2. CASE Here(u) = r
    <3>1. copy[u] = Whole(r)
      BY <1>0, <1>8, <2>2 DEF WriteRoom, ReadsWhole
    <3>2. saved'[r] = copy[u]
      BY <2>1, <2>2 DEF TypeOK
    <3> QED
      BY <2>1, <3>1, <3>2 DEF Whole
  <2>3. CASE Here(u) # r
    <3>1. saved'[r] = saved[r]
      BY <2>1, <2>3 DEF TypeOK
    <3> QED
      BY <1>b, <1>d, <1>6, <1>8, <2>1, <2>3, <3>1 DEF Whole
  <2> QED
    BY <2>2, <2>3
<1>9. CASE Left(u)
  <2>1. stored' = stored /\ saved' = saved /\ present' = present
    BY <1>9 DEF Left
  <2>2. ~WillSave(u, r)
    BY <1>9, ChatFacts DEF Left, WillSave, TypeOK
  <2> QED
    BY <1>b, <1>d, <2>1, <2>2 DEF Whole
<1> QED
  BY <1>1, <1>2, <1>3, <1>4, <1>5, <1>7, <1>8, <1>9 DEF Serve

LEMMA AloneInitial == Init => AInv
<1> SUFFICES ASSUME Init PROVE AInv
  OBVIOUS
<1>1. SendsToOwnRoom /\ LeavesAlone /\ ReadsWhole
  BY DEF Init, SendsToOwnRoom, LeavesAlone, Leaving, ReadsWhole
<1>2. SomebodySavesAll
  BY DEF Init, SomebodySavesAll, Whole, Empty
<1> QED
  BY <1>1, <1>2 DEF AInv

LEMMA AloneKept == IInv /\ AInv /\ [Next]_vars => AInv'
<1> SUFFICES ASSUME IInv, AInv, [Next]_vars PROVE AInv'
  OBVIOUS
<1>1. ASSUME NEW u \in User, Serve(u), crossed' = (crossed \/ Crossing(u)) PROVE AInv'
  <2>1. SendsToOwnRoom' /\ LeavesAlone'
    BY <1>1, SendsToOwnRoomKept, LeavesAloneKept DEF IInv, AInv
  <2>2. ReadsWhole'
    BY <1>1, ReadsWholeKept DEF IInv, AInv
  <2>3. SomebodySavesAll'
    BY <1>1, SomebodySavesAllKept DEF IInv, AInv
  <2> QED
    BY <2>1, <2>2, <2>3 DEF AInv
<1>2. CASE UNCHANGED vars
  BY <1>2 DEF vars, redis, locals, history, AInv, SendsToOwnRoom, LeavesAlone, ReadsWhole,
      SomebodySavesAll, Whole, Here, WillSave, Members, Chatting
<1> QED
  BY <1>1, <1>2 DEF Next

\* When no member left while another sent, left or came, the document is the
\* room once its members have left: with every message, and with no entry that
\* was never read.
THEOREM UncrossedRoomsAreSaved == Spec => []SavedIsRoomUnlessCrossed
<1>1. IInv /\ AInv => SavedIsRoomUnlessCrossed
  <2> SUFFICES ASSUME IInv, AInv, ~lossy, ~crossed, NEW r \in Room, AllLeft(r)
               PROVE  saved[r] = [kept |-> stored[r], blank |-> 0]
    BY DEF SavedIsRoomUnlessCrossed
  <2>1. \A u \in Members(r) : u \in User /\ pc[u] = "off"
    BY DEF AllLeft, Members
  <2>2. \A u \in Members(r) : u \notin present /\ ~WillSave(u, r)
    BY <2>1 DEF IInv, PresentIsKnown, WillSave
  <2> QED
    BY <2>2 DEF AInv, SomebodySavesAll, Whole
<1>2. Spec => []AInv
  BY Initial, StepKept, AloneInitial, AloneKept, PTL DEF Spec
<1> QED
  BY <1>1, <1>2, Invariance, PTL
=============================================================================
