---------------------------- MODULE LoginProofs ----------------------------
(***************************************************************************)
(* Theorems about the two halves of a log-in, which share no state: the    *)
(* login process (Accounts), for any sets of connections, names and        *)
(* passwords and any bound on the clock, and the transfer of the user's    *)
(* data that follows it (LoginTransfer), for any chats, messages, sizes    *)
(* and numbers of retries.  The first part proves that ids are unique,     *)
(* that a session belongs to who was authenticated and that the process    *)
(* implements AccountRegistry; the second that friends and rooms come      *)
(* once and in order, and histories from their beginning.                  *)
(***************************************************************************)
EXTENDS Accounts, LoginTransfer, SequenceTheorems, WellFoundedInduction, TLAPS

-----------------------------------------------------------------------------
(* I.  The login process: the inductive invariant.                         *)

\* A creation between get_next_id and its insert.
Creating(c) == pc[c] \in {"exist", "insert"}

\* A creation owns an id that the counter has passed, no document has and no
\* other creation holds; so mongodb_exist never finds it and nothing is
\* replaced.
FreshIds ==
    /\ \A i \in DOMAIN users : users[i].id \in 1..seq
    /\ \A c \in Conn : pc[c] # "replace"
    /\ \A c \in Conn : Creating(c) => uid[c] \in 1..seq /\ ~Exists(uid[c])
    /\ \A c, d \in Conn : Creating(c) /\ Creating(d) /\ uid[c] = uid[d] => c = d

\* A find has a first match.
IsFirst(i, n)  == i \in Named(n) /\ \A j \in Named(n) : i <= j
FirstsExist    == \A n \in Name : Known(n) => \E i \in Named(n) : IsFirst(i, n)

\* A thread writes a session only with a key that it drew.
KeysDrawn == \A c \in Conn : pc[c] \in {"hset", "online"} => key[c] \in Key

IInv == TypeOK /\ FreshIds /\ IdsUnique /\ FirstsExist /\ KeysDrawn

\* What FirstNamed picks: the one document that comes before all others of
\* the name.
LEMMA FirstNamedIsFirst ==
  ASSUME TypeOK, NEW n \in Name, NEW i \in Named(n), IsFirst(i, n)
  PROVE  FirstNamed(n) = i
<1>1. \A j \in Named(n) : j \in Nat
  BY DEF TypeOK, Named
<1>2. \A j \in Named(n) : IsFirst(j, n) => j = i
  BY <1>1 DEF IsFirst
<1> QED
  BY <1>2 DEF FirstNamed, IsFirst

\* The document that a known name resolves to is one of that name.
LEMMA FirstNamedOfKnown ==
  ASSUME TypeOK, FirstsExist, NEW n \in Name, Known(n)
  PROVE  FirstNamed(n) \in Named(n) /\ IsFirst(FirstNamed(n), n)
BY FirstNamedIsFirst DEF FirstsExist, IsFirst

\* The collection is empty and no thread has an id or a key.
LEMMA InitIInv == Init => IInv
  BY FaultsAssumption, ClockAssumption
     DEF Init, IInv, TypeOK, FreshIds, IdsUnique, FirstsExist, KeysDrawn, Creating,
         Known, Named, Request, User, Key, NoKey, Steps

\* An element of USER is a user.
LEMMA DocumentsTyped == TypeOK => \A i \in DOMAIN users : users[i] \in User
  BY DEF TypeOK

\* What mongodb_insert writes is a user.
LEMMA DocumentIsUser ==
  ASSUME TypeOK, NEW c \in Conn
  PROVE  Document(c) \in User
BY DEF TypeOK, Document, Request, User

\* The collection only changes by an insert of a creation.
LEMMA UsersStep ==
  ASSUME FreshIds, [Next]_vars
  PROVE  \/ UNCHANGED users
         \/ \E c \in Conn : /\ pc[c] = "insert"
                            /\ Write(c)
                            /\ users' = Append(users, Document(c))
<1> USE DEF stores, host
<1>1. CASE UNCHANGED vars
  BY <1>1 DEF vars
<1>2. CASE Tick
  BY <1>2 DEF Tick
<1>3. ASSUME NEW c \in Conn, Step(c)
      PROVE  \/ UNCHANGED users
             \/ Write(c) /\ pc[c] = "insert" /\ users' = Append(users, Document(c))
  <2>1. CASE Write(c)
    BY <2>1 DEF Write, Written, FreshIds
  <2> QED
    BY <1>3, <2>1 DEF Step, Receive, CheckName, NextId, Exist, GetId, Authenticate,
       Seed, Draw, WriteSession, Online, StoreFails, FindFails
<1> QED
  BY <1>1, <1>2, <1>3 DEF Next

\* Every step keeps the types; one case per action.
LEMMA TypeStep == IInv /\ [Next]_vars => TypeOK'
<1> SUFFICES ASSUME IInv, [Next]_vars PROVE TypeOK'
  OBVIOUS
<1> USE ClockAssumption DEF IInv, TypeOK, stores, host, Goto, Answer, Steps
<1>1. ASSUME UNCHANGED vars PROVE TypeOK'
  BY <1>1 DEF vars
<1>2. CASE Tick
  BY <1>2 DEF Tick
<1>3. ASSUME NEW c \in Conn, Step(c) PROVE TypeOK'
  <2>1. CASE Receive(c)
    BY <2>1 DEF Receive
  <2>2. CASE CheckName(c)
    BY <2>2 DEF CheckName
  <2>3. CASE NextId(c)
    BY <2>3 DEF NextId, NewId
  <2>4. CASE Exist(c)
    BY <2>4 DEF Exist
  <2>5. CASE Write(c)
    BY <2>5, DocumentIsUser DEF Write, Written, FreshIds
  <2>6. CASE GetId(c)
    BY <2>6 DEF GetId
  <2>7. CASE Authenticate(c)
    <3>1. CASE Known(req[c].name)
      <4>1. req[c].name \in Name
        BY DEF Request
      <4>2. FirstNamed(req[c].name) \in DOMAIN users
        BY <3>1, <4>1, FirstNamedOfKnown DEF Named
      <4>3. users[FirstNamed(req[c].name)].id \in Nat
        BY <4>2, DocumentsTyped DEF User
      <4> QED
        BY <2>7, <4>3 DEF Authenticate
    <3>2. CASE ~Known(req[c].name)
      BY <2>7, <3>2 DEF Authenticate
    <3> QED
      BY <3>1, <3>2
  <2>8. CASE Seed(c)
    BY SMTT(30), <2>8 DEF Seed, Key
  <2>9. CASE Draw(c)
    BY <2>9 DEF Draw, Key
  <2>10. CASE WriteSession(c)
    <3>1. key[c] \in Key
      BY <2>10 DEF WriteSession, KeysDrawn
    <3>2. /\ DOMAIN sessions' \subseteq Key
          /\ \A k \in DOMAIN sessions' : sessions'[k] \in Nat
      BY <2>10, <3>1 DEF WriteSession, Put
    <3> QED
      BY <2>10, <3>2 DEF WriteSession
  <2>11. CASE Online(c)
    BY <2>11 DEF Online
  <2>12. CASE StoreFails(c)
    BY <2>12 DEF StoreFails
  <2>13. CASE FindFails(c)
    BY <2>13 DEF FindFails
  <2> QED
    BY <1>3, <2>1, <2>2, <2>3, <2>4, <2>5, <2>6, <2>7, <2>8, <2>9, <2>10, <2>11,
       <2>12, <2>13 DEF Step
<1> QED
  BY <1>1, <1>2, <1>3 DEF Next

\* Only Draw gives a thread a key, and only from the generator.
LEMMA KeysStep == IInv /\ [Next]_vars => KeysDrawn'
<1> SUFFICES ASSUME IInv, [Next]_vars PROVE KeysDrawn'
  OBVIOUS
<1> USE DEF IInv, TypeOK, KeysDrawn, stores, host, Goto, Answer, Steps
<1>1. ASSUME UNCHANGED vars PROVE KeysDrawn'
  BY <1>1 DEF vars
<1>2. CASE Tick
  BY <1>2 DEF Tick
<1>3. ASSUME NEW c \in Conn, Step(c) PROVE KeysDrawn'
  <2>1. CASE Draw(c)
    BY <2>1 DEF Draw
  <2>2. CASE WriteSession(c)
    BY <2>2 DEF WriteSession
  <2> QED
    BY <1>3, <2>1, <2>2 DEF Step, Receive, CheckName, NextId, Exist, Write, GetId,
       Authenticate, Seed, Online, StoreFails, FindFails
<1> QED
  BY <1>1, <1>2, <1>3 DEF Next

\* An insert at the end takes the first place of no name that has one.
LEMMA FirstsStep == IInv /\ [Next]_vars => FirstsExist'
<1> SUFFICES ASSUME IInv, [Next]_vars, NEW n \in Name, Known(n)'
             PROVE  (\E i \in Named(n) : IsFirst(i, n))'
  BY DEF FirstsExist
<1>1. CASE UNCHANGED users
  BY <1>1 DEF IInv, FirstsExist, Known, Named, IsFirst
<1>2. ASSUME NEW c \in Conn, users' = Append(users, Document(c))
      PROVE  (\E i \in Named(n) : IsFirst(i, n))'
  <2>1. /\ Len(users) \in Nat
        /\ DOMAIN users = 1..Len(users)
        /\ DOMAIN users' = 1..(Len(users) + 1)
        /\ \A i \in DOMAIN users : users'[i] = users[i]
    BY <1>2 DEF IInv, TypeOK
  <2>2. Named(n)' \ {Len(users) + 1} = Named(n)
    BY <2>1 DEF Named
  <2>3. CASE Known(n)
    <3>1. PICK i \in Named(n) : IsFirst(i, n)
      BY <2>3 DEF IInv, FirstsExist
    <3>2. i \in Named(n)'
      BY <2>2
    <3>3. \A j \in Named(n)' : i <= j
      BY <2>1, <2>2, <3>1 DEF IsFirst, Named
    <3> QED
      BY <3>2, <3>3 DEF IsFirst
  <2>4. CASE ~Known(n)
    <3>1. Named(n)' = {Len(users) + 1}
      BY <2>2, <2>4 DEF Known
    <3> QED
      BY <2>1, <3>1 DEF IsFirst
  <2> QED
    BY <2>3, <2>4
<1> QED
  BY <1>1, <1>2, UsersStep DEF IInv

\* Only NextId and Write disturb the ids: NextId takes the next one, Write
\* uses up the one its thread holds.
LEMMA FreshStep == IInv /\ [Next]_vars => FreshIds' /\ IdsUnique'
<1> SUFFICES ASSUME IInv, [Next]_vars PROVE FreshIds' /\ IdsUnique'
  OBVIOUS
<1> USE DEF IInv, stores, host, Goto, Answer, Creating
<1>0. /\ Len(users) \in Nat
      /\ DOMAIN users = 1..Len(users)
      /\ \A i \in DOMAIN users : users[i].id \in Nat
  BY DocumentsTyped DEF TypeOK, User
<1>1. CASE UNCHANGED vars
  BY <1>1 DEF vars, FreshIds, IdsUnique, Exists
<1>2. CASE Tick
  BY <1>2 DEF Tick, FreshIds, IdsUnique, Exists
<1>3. ASSUME NEW c \in Conn, Step(c) PROVE FreshIds' /\ IdsUnique'
  <2>1. CASE NextId(c)
    <3>1. /\ users' = users
          /\ seq' = seq + 1
          /\ uid' = [uid EXCEPT ![c] = seq + 1]
          /\ pc' = [pc EXCEPT ![c] = "exist"]
          /\ seq \in Nat
      BY <2>1 DEF NextId, NewId, TypeOK
    <3>2. \A i \in DOMAIN users : users[i].id # seq + 1
      BY <1>0, <3>1 DEF FreshIds
    <3>3. \A d \in Conn : Creating(d) => uid[d] # seq + 1
      BY <3>1 DEF FreshIds, TypeOK
    <3> QED
      BY <1>0, <3>1, <3>2, <3>3 DEF FreshIds, IdsUnique, Exists, TypeOK
  <2>2. CASE Write(c)
    <3>1. /\ users' = Append(users, Document(c))
          /\ seq' = seq /\ uid' = uid
          /\ pc[c] = "insert"
          /\ pc' = [pc EXCEPT ![c] = "done"]
      BY <2>2 DEF Write, Written, FreshIds
    <3>2. /\ DOMAIN users' = 1..(Len(users) + 1)
          /\ \A i \in DOMAIN users : users'[i] = users[i]
          /\ users'[Len(users) + 1].id = uid[c]
      BY <1>0, <3>1 DEF Document, TypeOK
    <3>3. \A i \in DOMAIN users : users[i].id # uid[c]
      BY <3>1 DEF FreshIds, Exists
    <3>4. IdsUnique'
      BY <1>0, <3>2, <3>3 DEF IdsUnique
    <3>5. \A i \in DOMAIN users' : users'[i].id \in 1..seq
      BY <1>0, <3>1, <3>2 DEF FreshIds
    <3>6. \A d \in Conn : Creating(d)' => Creating(d) /\ d # c
      BY <3>1 DEF TypeOK
    <3>7. \A d \in Conn : Creating(d)' => ~Exists(uid[d])'
      BY <1>0, <3>1, <3>2, <3>6 DEF FreshIds, Exists
    <3> QED
      BY <3>1, <3>4, <3>5, <3>6, <3>7 DEF FreshIds, TypeOK
  <2>3. ASSUME UNCHANGED <<users, seq>>,
               \A d \in Conn : /\ pc'[d] # "replace"
                               /\ Creating(d)' => Creating(d) /\ uid'[d] = uid[d]
        PROVE  FreshIds' /\ IdsUnique'
    <3>1. /\ IdsUnique'
          /\ \A i \in DOMAIN users' : users'[i].id \in 1..seq'
          /\ \A i : Exists(i)' <=> Exists(i)
      BY <2>3 DEF FreshIds, IdsUnique, Exists
    <3>2. \A d \in Conn : Creating(d)' => uid'[d] \in 1..seq' /\ ~Exists(uid'[d])
      BY <2>3 DEF FreshIds
    <3>3. (\A d \in Conn : Creating(d) => uid[d] \in 1..seq /\ ~Exists(uid[d]))'
      BY <3>1, <3>2
    <3>4. (\A d, e \in Conn :
             Creating(d) /\ Creating(e) /\ uid[d] = uid[e] => d = e)'
      BY <2>3 DEF FreshIds
    <3>5. (\A d \in Conn : pc[d] # "replace")'
      BY <2>3
    <3> QED
      BY <3>1, <3>3, <3>4, <3>5 DEF FreshIds
  <2>4. CASE Exist(c)
    BY <2>3, <2>4 DEF Exist, FreshIds, TypeOK
  <2>5. CASE Authenticate(c)
    BY <2>3, <2>5 DEF Authenticate, FreshIds, TypeOK
  <2>6. CASE FindFails(c)
    BY <2>3, <2>6 DEF FindFails, FreshIds, TypeOK
  <2>7. CASE \/ Receive(c) \/ CheckName(c) \/ GetId(c) \/ Seed(c) \/ Draw(c)
             \/ WriteSession(c) \/ Online(c) \/ StoreFails(c)
    BY <2>3, <2>7 DEF Receive, CheckName, GetId, Seed, Draw, WriteSession, Online,
       StoreFails, FreshIds, TypeOK
  <2> QED
    BY <1>3, <2>1, <2>2, <2>4, <2>5, <2>6, <2>7 DEF Step
<1> QED
  BY <1>1, <1>2, <1>3 DEF Next

\* IInv holds in every reachable state.
THEOREM Invariance == Spec => []IInv
<1>1. IInv /\ [Next]_vars => IInv'
  BY TypeStep, FreshStep, FirstsStep, KeysStep DEF IInv
<1> QED
  BY <1>1, InitIInv, PTL DEF Spec

\* The types of the variables, whatever the sets of connections, names and
\* passwords (the record of a user, a session's id, the generator's state).
THEOREM TypeCorrect == Spec => []TypeOK
<1>1. IInv => TypeOK
  BY DEF IInv
<1> QED
  BY <1>1, Invariance, PTL

\* No two documents of USER ever have the same id, for any number of
\* account creations that overlap and any of their commands failing.
THEOREM IdsAreUnique == Spec => []IdsUnique
<1>1. IInv => IdsUnique
  BY DEF IInv
<1> QED
  BY <1>1, Invariance, PTL

-----------------------------------------------------------------------------
(* Names.                                                                  *)

\* A step either leaves USER alone or appends to it: no first document moves.
LEMMA ResolutionStep ==
  ASSUME IInv, [Next]_vars, NEW n \in Name, Known(n)
  PROVE  /\ Known(n)'
         /\ FirstNamed(n)' = FirstNamed(n)
         /\ users'[FirstNamed(n)'] = users[FirstNamed(n)]
<1>1. CASE UNCHANGED users
  BY <1>1 DEF Known, Named, FirstNamed
<1>2. ASSUME NEW c \in Conn, users' = Append(users, Document(c))
      PROVE  /\ Known(n)'
             /\ FirstNamed(n)' = FirstNamed(n)
             /\ users'[FirstNamed(n)'] = users[FirstNamed(n)]
  <2> DEFINE f == FirstNamed(n)
  <2>1. f \in Named(n) /\ IsFirst(f, n)
    BY FirstNamedOfKnown DEF IInv
  <2>2. /\ Len(users) \in Nat
        /\ DOMAIN users = 1..Len(users)
        /\ DOMAIN users' = 1..(Len(users) + 1)
        /\ \A i \in DOMAIN users : users'[i] = users[i]
    BY <1>2 DEF IInv, TypeOK
  <2>3. f \in Named(n)' /\ f \in DOMAIN users
    BY <2>1, <2>2 DEF Named
  <2>4. \A j \in Named(n)' : f <= j
    BY <2>1, <2>2 DEF IsFirst, Named
  <2>5. (FirstNamed(n))' = f
    <3>1. \A j \in Named(n)' : j \in Nat
      BY <2>2 DEF Named
    <3>2. \A i \in Named(n)' : (\A j \in Named(n)' : i <= j) => i = f
      BY <2>3, <2>4, <3>1
    <3> QED
      BY <2>3, <2>4, <3>2 DEF FirstNamed
  <2> QED
    BY <2>2, <2>3, <2>5 DEF Known
<1> QED
  BY <1>1, <1>2, UsersStep DEF IInv

\* A name that resolves to a user resolves to that user for ever: of two
\* accounts that the race in account_creation lets in under one name, the
\* later never takes the name over.
THEOREM NamesResolveStably == Spec => ResolutionStable
<1>1. IInv /\ [Next]_vars =>
        [\A n \in Name : Known(n) =>
            /\ Known(n)'
            /\ users'[FirstNamed(n)'] = users[FirstNamed(n)]]_vars
  BY ResolutionStep
<1> QED
  BY <1>1, Invariance, PTL DEF Spec, ResolutionStable
-----------------------------------------------------------------------------
(* Sessions.                                                               *)

\* A log-in whose HSET was answered 1, and the log-ins between auth and the
\* answer.
Granted(c)   == pc[c] = "online" \/ reply[c] = "key"
LoggingIn(c) == pc[c] \in {"seed", "draw", "hset", "online"}

\* A granted key is in Redis, so a log-in that draws it again is refused.
GrantsInv ==
    /\ \A c \in Conn : reply[c] = "key" => pc[c] = "done"
    /\ \A c \in Conn : Granted(c) => key[c] \in DOMAIN sessions
    /\ \A c, d \in Conn : Granted(c) /\ Granted(d) /\ key[c] = key[d] => c = d

\* The thread that last wrote a session has finished with its uid and key.
WrittenBy(c, k) == /\ pc[c] \in {"online", "done"}
                   /\ key[c] = k
                   /\ uid[c] = sessions[k]
                   /\ Owner(c)

OwnersInv ==
    /\ \A c \in Conn : LoggingIn(c) => Owner(c)
    /\ \A k \in DOMAIN sessions : \E c \in Conn : WrittenBy(c, k)

\* A session that is written was not there before, so its key is granted once.
LEMMA GrantsStep == IInv /\ GrantsInv /\ [Next]_vars => GrantsInv'
<1> SUFFICES ASSUME IInv, GrantsInv, [Next]_vars PROVE GrantsInv'
  OBVIOUS
<1> USE DEF IInv, TypeOK, GrantsInv, Granted, stores, host, Goto, Answer, Steps
<1>1. CASE UNCHANGED vars
  BY <1>1 DEF vars
<1>2. CASE Tick
  BY <1>2 DEF Tick
<1>3. ASSUME NEW c \in Conn, Step(c) PROVE GrantsInv'
  <2>1. ASSUME DOMAIN sessions \subseteq DOMAIN sessions',
               \A d \in Conn : /\ reply'[d] = "key" => pc'[d] = "done"
                               /\ Granted(d)' => Granted(d) /\ key'[d] = key[d]
        PROVE  GrantsInv'
    <3>1. \A d \in Conn : Granted(d)' => key'[d] \in DOMAIN sessions'
      BY <2>1
    <3>2. \A d, e \in Conn : Granted(d)' /\ Granted(e)' /\ key'[d] = key'[e] => d = e
      BY <2>1
    <3> QED
      BY <2>1, <3>1, <3>2
  <2>2. CASE Draw(c)
    BY <2>1, <2>2 DEF Draw
  <2>3. CASE WriteSession(c)
    <3>1. DOMAIN sessions' = DOMAIN sessions \cup {key[c]}
      BY <2>3 DEF WriteSession, Put
    <3>2. CASE Redrawn(c)
      BY <2>1, <2>3, <3>1, <3>2 DEF WriteSession
    <3>3. CASE ~Redrawn(c)
      BY <2>3, <3>1, <3>3 DEF WriteSession, Redrawn
    <3> QED
      BY <3>2, <3>3
  <2>4. CASE Online(c)
    BY <2>1, <2>4 DEF Online
  <2>5. CASE Receive(c) \/ CheckName(c) \/ NextId(c) \/ Exist(c)
    BY <2>1, <2>5 DEF Receive, CheckName, NextId, Exist
  <2>6. CASE Write(c) \/ GetId(c) \/ Authenticate(c) \/ Seed(c)
    BY <2>1, <2>6 DEF Write, GetId, Authenticate, Seed
  <2>7. CASE StoreFails(c)
    BY <2>1, <2>7 DEF StoreFails
  <2>8. CASE FindFails(c)
    BY <2>1, <2>8 DEF FindFails
  <2> QED
    BY <1>3, <2>2, <2>3, <2>4, <2>5, <2>6, <2>7, <2>8 DEF Step
<1> QED
  BY <1>1, <1>2, <1>3 DEF Next

\* No session key is granted to two clients, however the uses of the
\* process-wide generator interleave.
THEOREM KeysAreGrantedOnce == Spec => []KeysGrantedOnce
<1>1. Init => GrantsInv
  BY DEF Init, GrantsInv, Granted
<1>2. GrantsInv => KeysGrantedOnce
  BY DEF GrantsInv, Granted, KeysGrantedOnce
<1> QED
  BY <1>1, <1>2, GrantsStep, Invariance, PTL DEF Spec

\* Once its name resolves to its document a thread stays the owner, as long
\* as it leaves req and uid alone.
LEMMA OwnerStays ==
  ASSUME IInv, [Next]_vars, NEW c \in Conn, Owner(c), UNCHANGED req, uid'[c] = uid[c]
  PROVE  Owner(c)'
<1>1. req[c].name \in Name
  BY DEF IInv, TypeOK, Request
<1>2. /\ Known(req[c].name)'
      /\ users'[FirstNamed(req[c].name)'] = users[FirstNamed(req[c].name)]
  BY <1>1, ResolutionStep DEF Owner
<1> QED
  BY <1>2 DEF Owner, Document, Known, Named, FirstNamed

\* After auth the thread holds the id of the first document of its name.
LEMMA AuthenticateOwns ==
  ASSUME IInv, [Next]_vars, NEW c \in Conn, Authenticate(c), pc'[c] = "seed"
  PROVE  Owner(c)'
<1> DEFINE n == req[c].name
           f == FirstNamed(n)
<1>1. /\ Known(n) /\ Matches(c)
      /\ uid'[c] = users[f].id
      /\ UNCHANGED <<users, req>>
  BY DEF Authenticate, stores, Answer, Goto, IInv, TypeOK
<1>2. n \in Name
  BY DEF IInv, TypeOK, Request
<1>3. f \in DOMAIN users /\ users[f].name = n
  BY <1>1, <1>2, FirstNamedOfKnown DEF IInv, Named
<1>4. users[f] \in User
  BY <1>3, DocumentsTyped DEF IInv
<1>5. users[f] = [id |-> uid'[c], name |-> n, password |-> req[c].password]
  BY <1>1, <1>3, <1>4 DEF Matches, User
<1> QED
  BY <1>1, <1>5 DEF Owner, Document, Known, Named, FirstNamed

\* Sessions keep an owner: WriteSession replaces it by the thread that wrote.
LEMMA OwnersStep == IInv /\ OwnersInv /\ [Next]_vars => OwnersInv'
<1> SUFFICES ASSUME IInv, OwnersInv, [Next]_vars PROVE OwnersInv'
  OBVIOUS
<1> USE DEF LoggingIn, stores, host, Goto, Answer, Steps
<1>1. UNCHANGED req
  <2>1. CASE UNCHANGED vars
    BY <2>1 DEF vars
  <2> QED
    BY <2>1 DEF Next, Step, Tick, Receive, CheckName, NextId, Exist, Write, GetId,
       Authenticate, Seed, Draw, WriteSession, Online, StoreFails, FindFails
\* Who was finished stays finished, and who was logging in either goes on or
\* ends.
<1>2. \A d \in Conn : pc[d] \in {"online", "done"} =>
         /\ pc'[d] \in {"online", "done"}
         /\ uid'[d] = uid[d] /\ key'[d] = key[d]
  <2> USE DEF IInv, TypeOK
  <2>1. CASE UNCHANGED vars
    BY <2>1 DEF vars
  <2>2. CASE Tick
    BY <2>2 DEF Tick
  <2>3. ASSUME NEW c \in Conn, Step(c)
        PROVE  \A d \in Conn : pc[d] \in {"online", "done"} =>
                  /\ pc'[d] \in {"online", "done"}
                  /\ uid'[d] = uid[d] /\ key'[d] = key[d]
    <3>1. CASE Receive(c) \/ CheckName(c) \/ NextId(c) \/ Exist(c)
      BY <3>1 DEF Receive, CheckName, NextId, Exist
    <3>2. CASE Write(c) \/ GetId(c) \/ Authenticate(c) \/ Seed(c)
      BY <3>2 DEF Write, GetId, Authenticate, Seed
    <3>3. CASE Draw(c) \/ WriteSession(c) \/ Online(c)
      BY <3>3 DEF Draw, WriteSession, Online
    <3>4. CASE StoreFails(c) \/ FindFails(c)
      BY <3>4 DEF StoreFails, FindFails
    <3> QED
      BY <2>3, <3>1, <3>2, <3>3, <3>4 DEF Step
  <2> QED
    BY <2>1, <2>2, <2>3 DEF Next
<1>3. \A d \in Conn : LoggingIn(d)' =>
         \/ LoggingIn(d) /\ uid'[d] = uid[d]
         \/ Authenticate(d) /\ pc'[d] = "seed"
  <2> USE DEF IInv, TypeOK
  <2>1. CASE UNCHANGED vars
    BY <2>1 DEF vars
  <2>2. CASE Tick
    BY <2>2 DEF Tick
  <2>3. ASSUME NEW c \in Conn, Step(c)
        PROVE  \A d \in Conn : LoggingIn(d)' =>
                  \/ LoggingIn(d) /\ uid'[d] = uid[d]
                  \/ Authenticate(d) /\ pc'[d] = "seed"
    <3>1. CASE Receive(c) \/ CheckName(c) \/ NextId(c) \/ Exist(c)
      BY <3>1 DEF Receive, CheckName, NextId, Exist
    <3>2. CASE Write(c) \/ GetId(c) \/ Seed(c)
      BY <3>2 DEF Write, GetId, Seed
    <3>3. CASE Authenticate(c)
      <4>1. \A d \in Conn \ {c} : pc'[d] = pc[d] /\ uid'[d] = uid[d]
        BY <3>3 DEF Authenticate
      <4>2. LoggingIn(c)' => pc'[c] = "seed"
        BY <3>3 DEF Authenticate
      <4> QED
        BY <3>3, <4>1, <4>2
    <3>4. CASE Draw(c) \/ WriteSession(c) \/ Online(c)
      BY <3>4 DEF Draw, WriteSession, Online
    <3>5. CASE StoreFails(c) \/ FindFails(c)
      BY <3>5 DEF StoreFails, FindFails
    <3> QED
      BY <2>3, <3>1, <3>2, <3>3, <3>4, <3>5 DEF Step
  <2> QED
    BY <2>1, <2>2, <2>3 DEF Next
<1>4. \A d \in Conn : LoggingIn(d)' => Owner(d)'
  BY <1>1, <1>3, OwnerStays, AuthenticateOwns DEF OwnersInv
\* A session is overwritten by a thread that owns its user, or stays.
<1>5. \A k \in DOMAIN sessions' :
         \/ k \in DOMAIN sessions /\ sessions'[k] = sessions[k]
         \/ \E c \in Conn : /\ WriteSession(c) /\ pc[c] = "hset"
                            /\ k = key[c] /\ sessions'[k] = uid[c]
  <2>1. CASE UNCHANGED sessions
    BY <2>1
  <2>2. ASSUME NEW c \in Conn, WriteSession(c)
        PROVE  \A k \in DOMAIN sessions' :
                  \/ k \in DOMAIN sessions /\ sessions'[k] = sessions[k]
                  \/ /\ WriteSession(c) /\ pc[c] = "hset"
                     /\ k = key[c] /\ sessions'[k] = uid[c]
    BY <2>2 DEF WriteSession, Put
  <2> QED
    BY <2>1, <2>2 DEF Next, Step, Tick, Receive, CheckName, NextId, Exist, Write,
       GetId, Authenticate, Seed, Draw, Online, StoreFails, FindFails, vars
<1>6. \A k \in DOMAIN sessions' : \E c \in Conn : WrittenBy(c, k)'
  <2> SUFFICES ASSUME NEW k \in DOMAIN sessions'
               PROVE  \E c \in Conn : WrittenBy(c, k)'
    OBVIOUS
  <2>1. CASE k \in DOMAIN sessions /\ sessions'[k] = sessions[k]
    <3>1. PICK c \in Conn : WrittenBy(c, k)
      BY <2>1 DEF OwnersInv
    <3>2. Owner(c)'
      BY <1>1, <1>2, <3>1, OwnerStays DEF WrittenBy
    <3> QED
      BY <1>2, <2>1, <3>1, <3>2 DEF WrittenBy
  <2>2. ASSUME NEW c \in Conn, WriteSession(c), pc[c] = "hset",
               k = key[c], sessions'[k] = uid[c]
        PROVE  WrittenBy(c, k)'
    <3>1. /\ pc'[c] \in {"online", "done"}
          /\ uid'[c] = uid[c] /\ key'[c] = key[c]
      BY <2>2 DEF WriteSession, IInv, TypeOK
    <3>2. Owner(c)'
      BY <1>1, <2>2, <3>1, OwnerStays DEF OwnersInv
    <3> QED
      BY <2>2, <3>1, <3>2 DEF WrittenBy
  <2> QED
    BY <1>5, <2>1, <2>2
<1> QED
  BY <1>4, <1>6 DEF OwnersInv

\* Every session hash names a user whose name and password the client that
\* drew the key presented.
THEOREM SessionsAreAuthenticated == Spec => []SessionsAuthenticated
<1>1. Init => OwnersInv
  BY DEF Init, OwnersInv, LoggingIn
<1>2. OwnersInv => SessionsAuthenticated
  BY DEF OwnersInv, WrittenBy, SessionsAuthenticated
<1> QED
  BY <1>1, <1>2, OwnersStep, Invariance, PTL DEF Spec

-----------------------------------------------------------------------------
(* The login process implements AccountRegistry.                           *)

\* The registry shows the first document of a known name ...
LEMMA CredentialsOfKnown ==
  ASSUME IInv, NEW n \in Name, Known(n)
  PROVE  /\ FirstNamed(n) \in DOMAIN users
         /\ users[FirstNamed(n)] \in User
         /\ users[FirstNamed(n)].name = n
         /\ users[FirstNamed(n)].id \in 1..seq
         /\ Credentials(n).id = users[FirstNamed(n)].id
         /\ Credentials(n) # Registry!NoAccount
<1>1. FirstNamed(n) \in DOMAIN users /\ users[FirstNamed(n)].name = n
  BY FirstNamedOfKnown DEF IInv, Named
<1>2. users[FirstNamed(n)].id \in 1..seq
  BY <1>1 DEF IInv, FreshIds
<1>3. Credentials(n) = [id |-> users[FirstNamed(n)].id,
                        password |-> users[FirstNamed(n)].password]
  BY DEF Credentials
<1>4. Credentials(n).id # 0 /\ Credentials(n).id = users[FirstNamed(n)].id
  BY <1>2, <1>3
<1> QED
  BY <1>1, <1>2, <1>4, DocumentsTyped DEF IInv, Registry!NoAccount

\* ... and NoAccount for a name without one.
LEMMA CredentialsOfUnknown ==
  ASSUME NEW n \in Name, ~Known(n)
  PROVE  Credentials(n) = Registry!NoAccount
BY DEF Credentials, Registry!NoAccount

\* The registry does not change when USER does not.
LEMMA CredentialsStay ==
  ASSUME IInv, [Next]_vars, NEW n \in Name, Known(n)
  PROVE  Credentials(n)' = Credentials(n)
BY ResolutionStep DEF Credentials

\* Only the answer to a log-in admits anybody.
LEMMA AdmittedStep ==
  ASSUME IInv, GrantsInv, [Next]_vars
  PROVE  \/ UNCHANGED Admitted
         \/ \E c \in Conn : /\ Online(c) /\ pc[c] = "online"
                            /\ UNCHANGED users
                            /\ Admitted' = Admitted \cup {<<c, uid[c]>>}
<1> USE DEF IInv, TypeOK, GrantsInv, stores, host, Goto, Answer, Steps
<1>1. ASSUME \A d \in Conn : /\ reply'[d] = "key" <=> reply[d] = "key"
                             /\ reply[d] = "key" => uid'[d] = uid[d]
      PROVE  UNCHANGED Admitted
  <2>1. {d \in Conn : reply'[d] = "key"} = {d \in Conn : reply[d] = "key"}
    BY <1>1
  <2>2. \A d \in {e \in Conn : reply[e] = "key"} : <<d, uid'[d]>> = <<d, uid[d]>>
    BY <1>1
  <2> QED
    BY <2>1, <2>2 DEF Admitted
<1>2. CASE UNCHANGED vars
  BY <1>1, <1>2 DEF vars
<1>3. CASE Tick
  BY <1>1, <1>3 DEF Tick
<1>4. ASSUME NEW c \in Conn, Step(c)
      PROVE  \/ UNCHANGED Admitted
             \/ /\ Online(c) /\ pc[c] = "online"
                /\ UNCHANGED users
                /\ Admitted' = Admitted \cup {<<c, uid[c]>>}
  <2>1. CASE Online(c)
    <3>1. /\ pc[c] = "online" /\ UNCHANGED <<users, uid>>
          /\ reply' = [reply EXCEPT ![c] = "key"]
      BY <2>1 DEF Online
    <3>2. {d \in Conn : reply'[d] = "key"} = {d \in Conn : reply[d] = "key"} \cup {c}
      BY <3>1
    <3>3. Admitted' = Admitted \cup {<<c, uid[c]>>}
      BY <3>1, <3>2 DEF Admitted
    <3> QED
      BY <2>1, <3>1, <3>3
  <2>2. CASE Receive(c) \/ CheckName(c) \/ NextId(c) \/ Exist(c)
    BY <1>1, <2>2 DEF Receive, CheckName, NextId, Exist
  <2>3. CASE Write(c) \/ GetId(c) \/ Authenticate(c) \/ Seed(c)
    BY <1>1, <2>3 DEF Write, GetId, Authenticate, Seed
  <2>4. CASE Draw(c) \/ WriteSession(c)
    BY <1>1, <2>4 DEF Draw, WriteSession
  <2>5. CASE StoreFails(c) \/ FindFails(c)
    BY <1>1, <2>5 DEF StoreFails, FindFails
  <2> QED
    BY <1>4, <2>1, <2>2, <2>3, <2>4, <2>5 DEF Step
<1> QED
  BY <1>2, <1>3, <1>4 DEF Next

\* The insert of the first document with a name registers the name; a later
\* one, let in by the race between two creations, is a stutter.
LEMMA InsertStep ==
  ASSUME IInv, IInv', [Next]_vars, NEW c \in Conn, pc[c] = "insert",
         users' = Append(users, Document(c)), NEW n \in Name, n = req[c].name
  PROVE  UNCHANGED Account \/ (UNCHANGED Admitted => Registry!Register(n))
<1>1. req[c].password \in Password
  BY DEF IInv, TypeOK, Request
<1>2. /\ Len(users) \in Nat
      /\ DOMAIN users = 1..Len(users)
      /\ DOMAIN users' = 1..(Len(users) + 1)
      /\ \A i \in DOMAIN users : users'[i] = users[i]
      /\ users'[Len(users) + 1] = Document(c)
  BY DEF IInv, TypeOK
<1>3. \A m \in Name \ {n} : ~Known(m) => ~Known(m)'
  BY <1>2 DEF Known, Named, Document
<1>4. \A m \in Name \ {n} : Credentials(m)' = Credentials(m)
  <2> TAKE m \in Name \ {n}
  <2>1. CASE Known(m)
    BY <2>1, CredentialsStay
  <2>2. CASE ~Known(m)
    BY <1>3, <2>2 DEF Credentials
  <2> QED
    BY <2>1, <2>2
<1>5. CASE Known(n)
  <2>1. Credentials(n)' = Credentials(n)
    BY <1>1, <1>5, CredentialsStay
  <2> QED
    BY <1>4, <2>1 DEF Account
<1>6. CASE ~Known(n)
  <2>1. Named(n)' = {Len(users) + 1}
    BY <1>2, <1>6 DEF Known, Named, Document
  <2>2. Known(n)' /\ FirstNamed(n)' = Len(users) + 1
    BY <1>2, <2>1 DEF Known, FirstNamed
  <2>3. Credentials(n)' = [id |-> uid[c], password |-> req[c].password]
    BY <1>2, <2>2 DEF Credentials, Document
  <2>4. Account[n] = Registry!NoAccount
    BY <1>1, <1>6, CredentialsOfUnknown DEF Account
  <2>5. uid[c] \in 1..seq /\ ~Exists(uid[c])
    BY DEF IInv, FreshIds, Creating
  <2>6. \A m \in Name : Account[m].id # uid[c]
    <3> TAKE m \in Name
    <3>1. CASE Known(m)
      BY <2>5, <3>1, CredentialsOfKnown DEF Account, Exists
    <3>2. CASE ~Known(m)
      BY <2>5, <3>2, CredentialsOfUnknown DEF Account, Registry!NoAccount, IInv, TypeOK
    <3> QED
      BY <3>1, <3>2
  <2>7. Account' = [Account EXCEPT ![n] = Account'[n]]
    BY <1>1, <1>4 DEF Account
  <2>8. Account'[n].id = uid[c] /\ Account'[n].password = req[c].password
    BY <1>1, <2>3 DEF Account
  <2> QED
    BY <1>1, <2>4, <2>6, <2>7, <2>8 DEF Registry!Register, Registry!Ids
<1> QED
  BY <1>5, <1>6

\* Every step of the threads registers a name, admits a user or is invisible
\* to AccountRegistry.
THEOREM Implementation == Spec => ImplementsRegistry
<1>1. Init => Registry!Init
  <2> SUFFICES ASSUME Init PROVE Registry!Init
    OBVIOUS
  <2>1. \A n \in Name : ~Known(n)
    BY DEF Init, Known, Named
  <2>2. Account = [n \in Name |-> Registry!NoAccount]
    BY <2>1, CredentialsOfUnknown DEF Account
  <2>3. Admitted = {}
    BY DEF Init, Admitted
  <2> QED
    BY <2>2, <2>3 DEF Registry!Init
<1>2. IInv /\ IInv' /\ GrantsInv /\ OwnersInv /\ [Next]_vars
        => [Registry!Next]_<<Account, Admitted>>
  <2> SUFFICES ASSUME IInv, IInv', GrantsInv, OwnersInv, [Next]_vars
               PROVE  Registry!Next \/ UNCHANGED <<Account, Admitted>>
    OBVIOUS
  <2>1. ASSUME NEW c \in Conn, Online(c), pc[c] = "online", UNCHANGED users,
               Admitted' = Admitted \cup {<<c, uid[c]>>}
        PROVE  Registry!Admit(c)
    <3>1. Owner(c)
      BY <2>1 DEF OwnersInv, LoggingIn
    <3>2. req[c].name \in Name
      BY DEF IInv, TypeOK, Request
    <3>3. /\ Account[req[c].name] # Registry!NoAccount
          /\ Account[req[c].name].id = uid[c]
      BY <3>1, <3>2, CredentialsOfKnown DEF Owner, Document, Account
    <3>4. UNCHANGED Account
      BY <2>1 DEF Account, Credentials, Known, Named, FirstNamed
    <3> QED
      BY <2>1, <3>2, <3>3, <3>4 DEF Registry!Admit
  <2>2. ASSUME UNCHANGED Admitted
        PROVE  Registry!Next \/ UNCHANGED <<Account, Admitted>>
    <3>1. CASE UNCHANGED users
      BY <2>2, <3>1 DEF Account, Credentials, Known, Named, FirstNamed
    <3>2. ASSUME NEW c \in Conn, pc[c] = "insert", users' = Append(users, Document(c))
          PROVE  Registry!Next \/ UNCHANGED <<Account, Admitted>>
      <4>1. PICK n \in Name : n = req[c].name
        BY DEF IInv, TypeOK, Request
      <4>2. UNCHANGED Account \/ Registry!Register(n)
        BY <2>2, <3>2, <4>1, InsertStep
      <4> QED
        BY <2>2, <4>2 DEF Registry!Next
    <3> QED
      BY <3>1, <3>2, UsersStep DEF IInv
  <2> QED
    BY <2>1, <2>2, AdmittedStep DEF Registry!Next
<1>3. Init => GrantsInv /\ OwnersInv
  BY DEF Init, GrantsInv, Granted, OwnersInv, LoggingIn
<1> QED
  BY <1>1, <1>2, <1>3, GrantsStep, OwnersStep, Invariance, PTL
     DEF Spec, ImplementsRegistry, Registry!Spec

-----------------------------------------------------------------------------
(* II.  The transfer: the inductive invariant.                             *)

\* Types of what is under way.
Tries    == Nat \cup {Absent}
FrndP    == [type : {"frnd"}, n : Nat]
RoomP    == [type : {"room"}, id : Room, amount : Nat]
NoSuchP  == [type : {"room;id;fail"}, id : Room \cup {NoRoom}]
StateP   == [type : {"data;fail", "frnd;fail", "room;fail", "room;ok"}]
RmsgP    == {p \in [type : {"rmsg"}, id : Room, msgs : Seq(Text), aligned : BOOLEAN] :
               p.aligned => p.msgs # <<>>}
Packet   == FrndP \cup RoomP \cup NoSuchP \cup StateP \cup RmsgP
Asking   == [type : {"data"}, keyed : BOOLEAN]
               \cup [type : {"frnd"}, ok : BOOLEAN, keyed : BOOLEAN]
               \cup [type : {"room"}, id : Room \cup {NoRoom}, ok : BOOLEAN, keyed : BOOLEAN]
RoomKept    == [id : Room, amount : Nat, msgs : Seq(Text)]
Stages   == [at : {"idle", "transfer"}] \cup [at : {"room"}, room : Room]
               \cup {s \in [at : {"messages"}, left : Seq(RmsgP)] : s.left # <<>>}

RedisTyped ==
    /\ served \in BOOLEAN
    /\ friends \in Nat
    /\ chats \in Seq(Room)
    /\ stored \in [Room -> Seq(Text)]
    /\ frndTries \in Tries
    /\ roomTries \in [Room -> Tries]
UnderWayTyped ==
    /\ server \in Stages
    /\ other \in Seq(Packet)
    /\ toClient \in Seq(Packet)
    /\ toServer \in Seq(Asking)
ClientTyped ==
    /\ reader \in {Reading} \cup [at : {"signal"}, ok : BOOLEAN]
    /\ mine \in [friends : Nat, rooms : Seq(RoomKept), keyed : BOOLEAN]
    /\ login \in [pending : BOOLEAN, verdict : {"none", "ok", "fail", "timeout"}]
HistoryTyped ==
    /\ pushes \in Nat
    /\ faults \in Nat
    /\ misread \in BOOLEAN
TransferTypeOK == RedisTyped /\ UnderWayTyped /\ ClientTyped /\ HistoryTyped

\* Where a chat is in the user's list.
Pos(r) == CHOOSE k \in DOMAIN Chats : Chats[k] = r

Messages(p)   == p.type = "rmsg"
Asked         == toServer # <<>> \/ server.at \in {"transfer", "room"}
NothingYet(m) == m.friends = 0 /\ m.rooms = <<>>

\* Nobody became a friend, and no array was misread.
Calm == chats = Chats /\ ~misread

\* One exchange at a time.
OneAtATime ==
    /\ Len(toServer) <= 1
    /\ server.at \in {"transfer", "room"} => toServer = <<>>
    /\ \A i, j \in DOMAIN toClient : ~Messages(toClient[i]) /\ ~Messages(toClient[j]) => i = j
    /\ Asked => \A i \in DOMAIN toClient : Messages(toClient[i])
    /\ \A i \in DOMAIN other : Messages(other[i])

\* The room that comes next, or a later one of a client that has no space for
\* more; and the room that was stored last.
Follows(m, r)  == /\ r \in Range(Chats)
                  /\ \/ Pos(r) = Len(m.rooms) + 1
                     \/ Len(m.rooms) = RoomMax /\ Pos(r) > RoomMax
Confirms(m, r) == /\ r \in Range(Chats)
                  /\ \/ Pos(r) = Len(m.rooms)
                     \/ Len(m.rooms) = RoomMax /\ Pos(r) > RoomMax

AnswerFits(m, p) ==
    /\ p.type = "data" => NothingYet(m)
    /\ p.type = "frnd" => m.rooms = <<>> /\ (~p.ok => m.friends = 0)
    /\ p.type = "room" => (p.ok => Confirms(m, p.id))
PacketFits(m, p) ==
    /\ p.type \in {"data;fail", "frnd"} => NothingYet(m)
    /\ p.type = "frnd" => p.n = Friends
    /\ p.type = "room" => Follows(m, p.id)
StageFits(m, s) ==
    /\ s.at = "transfer" => m.rooms = <<>>
    /\ s.at = "room" => Follows(m, s.room)

\* What is under way fits what the client has.
InStep ==
    /\ \A i \in DOMAIN toServer : AnswerFits(mine, toServer[i])
    /\ \A i \in DOMAIN toClient : PacketFits(mine, toClient[i])
    /\ StageFits(mine, server)

RoomsInOrder ==
    /\ friends = Friends
    /\ mine.friends \in {0, Friends}
    /\ Len(mine.rooms) <= Len(Chats)
    /\ \A i \in DOMAIN mine.rooms : mine.rooms[i].id = Chats[i]

Orderly == OneAtATime /\ InStep /\ RoomsInOrder

Alone == pushes = 0 /\ ~misread

Undisturbed == chats = Chats /\ other = <<>>

\* The packets of a room's messages that are still to be sent.
LeftOf(s) == IF s.at = "messages" THEN s.left ELSE <<>>

\* A packet of a chat's messages.  The first one starts with the first message,
\* and the client has none of them.
Chunk(st, m, p) ==
    /\ p.id \in Range(Chats)
    /\ p.aligned =>
         /\ Len(p.msgs) <= Len(st[p.id])
         /\ \A k \in DOMAIN p.msgs : p.msgs[k] = st[p.id][k]
         /\ \A i \in DOMAIN m.rooms : m.rooms[i].id = p.id => m.rooms[i].msgs = <<>>
ChunksSound ==
    /\ \A i \in DOMAIN toClient : Messages(toClient[i]) => Chunk(stored, mine, toClient[i])
    /\ \A i \in DOMAIN LeftOf(server) : Chunk(stored, mine, LeftOf(server)[i])

\* The first packet of a room comes before all others of the room.
FirstComesFirst ==
    /\ \A i, j \in DOMAIN toClient :
         i < j /\ Messages(toClient[i]) /\ Messages(toClient[j]) /\ toClient[j].aligned
           => toClient[i].id # toClient[j].id
    /\ \A i \in DOMAIN LeftOf(server) :
         /\ LeftOf(server)[i].id = LeftOf(server)[1].id
         /\ LeftOf(server)[i].aligned =>
              /\ i = 1
              /\ \A j \in DOMAIN toClient :
                   Messages(toClient[j]) => toClient[j].id # LeftOf(server)[1].id

\* No messages of a room beyond the k-th are under way.
UpTo(queue, left, k) ==
    /\ \A i \in DOMAIN queue : Messages(queue[i]) => Pos(queue[i].id) <= k
    /\ \A i \in DOMAIN left : Pos(left[i].id) <= k

\* How far the transfer is.
AnswerAt(p) == IF p.type = "room" THEN Pos(p.id) ELSE 0
Places(p)   == p.type \in {"data", "frnd"} \/ (p.type = "room" /\ p.ok)
Carries(p)  == p.type \in {"data;fail", "frnd", "room"}
RoomsAhead ==
    /\ \A i \in DOMAIN toServer :
         Places(toServer[i]) => UpTo(toClient, LeftOf(server), AnswerAt(toServer[i]))
    /\ \A i \in DOMAIN toClient :
         Carries(toClient[i]) => UpTo(toClient, LeftOf(server), AnswerAt(toClient[i]))
    /\ server.at = "transfer" => UpTo(toClient, <<>>, 0)
    /\ server.at = "room" => UpTo(toClient, <<>>, Pos(server.room) - 1)

\* What a client has of a room: the first messages, and garbage.
Beginning(msgs, all, n) ==
    /\ n \in 0..Len(msgs)
    /\ n <= Len(all)
    /\ \A k \in 1..n : msgs[k] = all[k]
    /\ \A k \in n + 1..Len(msgs) : msgs[k] = Garbage
HistoriesRead ==
    \A i \in DOMAIN mine.rooms : \E n \in Nat :
        /\ Beginning(mine.rooms[i].msgs, stored[mine.rooms[i].id], n)
        /\ login.pending => n = Len(mine.rooms[i].msgs)

Read == Undisturbed /\ ChunksSound /\ FirstComesFirst /\ RoomsAhead /\ HistoriesRead

TransferInv ==
    /\ TransferTypeOK
    /\ Len(Chats) <= Len(chats)
    /\ Calm => Orderly
    /\ Alone => Read

-----------------------------------------------------------------------------
(* What is in a packet.                                                    *)

\* What the kinds of packets carry.
LEMMA PacketShapes ==
  ASSUME NEW p \in Packet
  PROVE  /\ p.type \in {"frnd", "room", "room;id;fail", "rmsg",
                        "data;fail", "frnd;fail", "room;fail", "room;ok"}
         /\ p.type = "frnd" => p.n \in Nat
         /\ p.type = "room" => p.id \in Room /\ p.amount \in Nat
         /\ p.type = "room;id;fail" => p.id \in Room \cup {NoRoom}
         /\ p.type = "rmsg" => p \in RmsgP
  BY DEF Packet, FrndP, RoomP, NoSuchP, StateP, RmsgP

\* A packet of messages.
LEMMA RmsgShapes ==
  ASSUME NEW p \in RmsgP
  PROVE  /\ p.type = "rmsg"
         /\ p.id \in Room
         /\ p.msgs \in Seq(Text)
         /\ p.aligned \in BOOLEAN
         /\ p.aligned => p.msgs # <<>>
         /\ p \in Packet
  BY DEF RmsgP, Packet

\* What the client sends.
LEMMA AskingShapes ==
  ASSUME NEW p \in Asking
  PROVE  /\ p.type \in {"data", "frnd", "room"}
         /\ p.keyed \in BOOLEAN
         /\ p.type \in {"frnd", "room"} => p.ok \in BOOLEAN
         /\ p.type = "room" => p.id \in Room \cup {NoRoom}
  BY DEF Asking

\* The packets that the server makes are of these kinds.
LEMMA PacketsMade ==
  /\ \A n \in Nat : Frnd(n) \in Packet /\ Frnd(n).type = "frnd" /\ Frnd(n).n = n
  /\ \A r \in Room \cup {NoRoom} : NoSuch(r) \in Packet /\ NoSuch(r).type = "room;id;fail"
  /\ \A w \in {"data;fail", "frnd;fail", "room;fail", "room;ok"} :
        State(w) \in Packet /\ State(w).type = w
  BY DEF Frnd, NoSuch, State, Packet, FrndP, NoSuchP, StateP

\* So is that of a room.
LEMMA RoomPacketMade ==
  ASSUME stored \in [Room -> Seq(Text)], NEW r \in Room
  PROVE  /\ RoomPacket(r) \in Packet
         /\ RoomPacket(r).type = "room"
         /\ RoomPacket(r).id = r
<1>1. Len(stored[r]) \in Nat
  OBVIOUS
<1> QED
  BY <1>1 DEF RoomPacket, Packet, RoomP

\* Where the server is.
LEMMA StageShapes ==
  ASSUME server \in Stages
  PROVE  /\ server.at \in {"idle", "transfer", "room", "messages"}
         /\ server.at = "room" => server.room \in Room
         /\ server.at = "messages" => server.left \in Seq(RmsgP) /\ server.left # <<>>
  BY DEF Stages

\* Where it gets.
LEMMA StagesMade ==
  /\ Idle \in Stages /\ Idle.at = "idle"
  /\ [at |-> "transfer"] \in Stages
  /\ \A r \in Room : [at |-> "room", room |-> r] \in Stages
  /\ \A s \in Seq(RmsgP) : s # <<>> => [at |-> "messages", left |-> s] \in Stages
  BY DEF Stages, Idle

\* The numbers are well ordered.
LEMMA LeastExists ==
  ASSUME NEW S \in SUBSET Nat, S # {}
  PROVE  \E i \in S : \A j \in S : i <= j
<1>1. PICK x \in S : \A y \in S : ~(<<y, x>> \in OpToRel(<, Nat))
  BY NatLessThanWellFounded, WFMin
<1>2. \A y \in S : ~(y < x)
  BY <1>1 DEF OpToRel
<1> QED
  BY <1>2

\* So is every bounded set of them from above.
LEMMA GreatestExists ==
  ASSUME NEW n \in Nat, NEW S \in SUBSET (1..n), S # {}
  PROVE  \E i \in S : \A j \in S : j <= i
<1> DEFINE T == {n - i : i \in S}
<1>1. T \in SUBSET Nat /\ T # {}
  <2>1. \A i \in S : n - i \in Nat
    OBVIOUS
  <2> QED
    BY <2>1
<1> HIDE DEF T
<1>2. PICK t \in T : \A u \in T : t <= u
  BY <1>1, LeastExists
<1>3. PICK i \in S : t = n - i
  BY DEF T
<1>4. \A j \in S : n - i <= n - j
  BY <1>2, <1>3 DEF T
<1> QED
  BY <1>4

\* A sequence is empty when its length is zero.
LEMMA EmptyIsZero ==
  ASSUME NEW S, NEW s \in Seq(S)
  PROVE  (s = <<>> <=> Len(s) = 0) /\ Len(s) \in Nat /\ DOMAIN s = 1..Len(s)
  OBVIOUS

\* A sequence of at most one element.
LEMMA OneElement ==
  ASSUME NEW S, NEW s \in Seq(S), s # <<>>, Len(s) <= 1
  PROVE  Len(s) = 1 /\ Tail(s) = <<>> /\ Head(s) = s[1] /\ 1 \in DOMAIN s
<1>1. Len(s) # 0
  BY EmptyIsZero, Zenon
<1> DEFINE n == Len(s)
<1>2. n \in Nat /\ DOMAIN s = 1..n
  BY EmptyIsZero
<1> HIDE DEF n
<1>3. n = 1
  BY <1>1, <1>2 DEF n
<1>4. Len(s) = 1 /\ 1 \in DOMAIN s
  BY <1>2, <1>3 DEF n
<1>5. Tail(s) \in Seq(S) /\ Len(Tail(s)) = 0
  BY <1>4
<1>6. Tail(s) = <<>>
  BY <1>5, EmptyIsZero, Zenon
<1> QED
  BY <1>4, <1>6

\* Division by the size of a packet.
LEMMA Division ==
  ASSUME NEW a \in Nat, NEW C \in Nat \ {0}
  PROVE  a \div C \in Nat /\ a % C \in 0..C - 1 /\ a = C * (a \div C) + (a % C)
  BY SMTT(30)

\* Packets that are not the last are full.
LEMMA FullChunks ==
  ASSUME NEW L \in Nat, NEW C \in Nat \ {0}, NEW i \in Nat,
         i < (L + C - 1) \div C
  PROVE  i * C <= L
<1> DEFINE q == (L + C - 1) \div C
           m == (L + C - 1) % C
<1>1. q \in Nat /\ m \in 0..C - 1 /\ L + C - 1 = C * q + m
  BY SMTT(30)
<1>2. \E k \in Nat : q = i + 1 + k
  <2>1. q - i - 1 \in Nat /\ q = i + 1 + (q - i - 1)
    BY <1>1
  <2> QED
    BY <2>1
<1>3. PICK k \in Nat : q = i + 1 + k
  BY <1>2
<1> HIDE DEF q, m
<1>4. C * q = i * C + C + C * k /\ C * k >= 0
  BY <1>3, SMTT(30)
<1> QED
  BY <1>1, <1>4

\* The first packet of a room's messages starts with the first one.
LEMMA ChunksMade ==
  ASSUME stored \in [Room -> Seq(Text)], NEW r \in Room, stored[r] # <<>>
  PROVE  /\ Chunks(r) \in Seq(RmsgP)
         /\ Chunks(r) # <<>>
         /\ \A i \in DOMAIN Chunks(r) : Chunks(r)[i].id = r /\ (Chunks(r)[i].aligned <=> i = 1)
         /\ Len(Chunks(r)[1].msgs) <= Len(stored[r])
         /\ \A k \in DOMAIN Chunks(r)[1].msgs : Chunks(r)[1].msgs[k] = stored[r][k]
<1> DEFINE ms    == stored[r]
           L     == Len(ms)
           C     == ChunkSize
           count == (L + C - 1) \div C
           End(i) == IF i = count THEN L ELSE i * C
           Part(i) == SubSeq(ms, (i - 1) * C + 1, End(i))
<1>1. ms \in Seq(Text) /\ L \in Nat \ {0} /\ C \in Nat \ {0}
  BY RoomAssumption
<1>2. count \in Nat /\ count >= 1
  <2> HIDE DEF ms, L, C
  <2> DEFINE a == L + C - 1
  <2>1. a \in Nat /\ a >= C
    BY <1>1
  <2>2. count = a \div C
    OBVIOUS
  <2> HIDE DEF a, count
  <2>3. count \in Nat /\ a % C \in 0..C - 1 /\ a = C * count + (a % C)
    BY <1>1, <2>1, <2>2, Division
  <2>4. count # 0
    BY <1>1, <2>1, <2>3
  <2> QED
    BY <2>3, <2>4
<1>3. ASSUME NEW i \in 1..count
      PROVE  /\ (i - 1) * C + 1 \in Nat \ {0}
             /\ End(i) \in Nat
             /\ End(i) <= L
  <2>1. i \in Nat /\ i - 1 \in Nat /\ C \in Nat
    BY <1>1, <1>2
  <2>2. (i - 1) * C \in Nat /\ i * C \in Nat
    <3> HIDE DEF ms, L, C, count
    <3> QED
      BY <2>1, SMTT(30)
  <2>3. CASE i = count
    BY <1>1, <2>2, <2>3
  <2>4. CASE i # count
    <3>1. i < count
      BY <1>2, <2>4
    <3>2. i * C <= L
      BY <1>1, <2>1, <3>1, FullChunks
    <3> QED
      BY <2>2, <2>4, <3>2
  <2> QED
    BY <2>3, <2>4
<1>4. ASSUME NEW i \in 1..count
      PROVE  Part(i) \in Seq(Text)
  <2> HIDE DEF ms, L, C, count, End
  <2>1. ms \in Seq(Text) /\ (i - 1) * C + 1 \in Nat
        /\ End(i) \in Int /\ End(i) <= Len(ms)
    BY <1>1, <1>3 DEF L
  <2> DEFINE a == (i - 1) * C + 1
             b == End(i)
  <2>2. a \in Nat \ {0} /\ b \in Nat /\ b <= Len(ms)
    BY <1>3, <2>1
  <2> HIDE DEF a, b
  <2>3. SubSeq(ms, a, b) \in Seq(Text)
    <3>1. CASE a > b
      BY <2>2, <3>1, <1>1
    <3>2. CASE a <= b
      <4>1. a \in 1..Len(ms) + 1 /\ b \in a - 1..Len(ms)
        BY <2>2, <3>2, <1>1
      <4> QED
        BY <4>1, <1>1, SubSeqProperties
    <3> QED
      BY <2>2, <3>1, <3>2
  <2> QED
    BY <2>3 DEF a, b
<1>5. Part(1) # <<>> /\ Len(Part(1)) <= L /\ \A k \in DOMAIN Part(1) : Part(1)[k] = ms[k]
  <2>1. (1 - 1) * C + 1 = 1
    BY <1>1
  <2>2. End(1) \in 1..L
    <3>1. End(1) <= L /\ End(1) \in Nat
      BY <1>2, <1>3
    <3>2. End(1) >= 1
      BY <1>1
    <3> QED
      BY <3>1, <3>2
  <2> DEFINE e == End(1)
  <2>3. Part(1) = SubSeq(ms, 1, e)
    BY <2>1
  <2> HIDE DEF ms, L, C, count, Part, End, e
  <2>4. e \in 1..Len(ms) /\ ms \in Seq(Text)
    BY <1>1, <2>2 DEF e, L
  <2>5. /\ Len(SubSeq(ms, 1, e)) = e
        /\ \A k \in 1..e : SubSeq(ms, 1, e)[k] = ms[k]
    BY <2>4
  <2>6. SubSeq(ms, 1, e) \in Seq(Text)
    BY <2>4, SubSeqProperties
  <2>7. DOMAIN SubSeq(ms, 1, e) = 1..e
    BY <2>5, <2>6
  <2> QED
    BY <2>3, <2>4, <2>5, <2>6, <2>7 DEF L
<1>6. Chunks(r) = [i \in 1..count |-> Rmsg(r, Part(i), i = 1)]
  BY DEF Chunks
<1> HIDE DEF ms, L, C, count, End, Part
<1>7. ASSUME NEW i \in 1..count
      PROVE  Rmsg(r, Part(i), i = 1) \in RmsgP
  <2>1. i = 1 => Part(i) # <<>>
    BY <1>5
  <2> QED
    BY <2>1, <1>4 DEF Rmsg, RmsgP
<1>8. Chunks(r) \in Seq(RmsgP) /\ Len(Chunks(r)) = count /\ DOMAIN Chunks(r) = 1..count
  BY <1>2, <1>6, <1>7
<1>9. ASSUME NEW i \in DOMAIN Chunks(r)
      PROVE  Chunks(r)[i].id = r /\ (Chunks(r)[i].aligned <=> i = 1)
  <2>1. i \in 1..count /\ Chunks(r)[i] = Rmsg(r, Part(i), i = 1)
    BY <1>6, <1>8
  <2>2. CASE i = 1
    <3>1. Chunks(r)[i] = Rmsg(r, Part(i), TRUE)
      BY <2>1, <2>2
    <3>2. Chunks(r)[i].id = r /\ Chunks(r)[i].aligned
      BY <3>1 DEF Rmsg
    <3> QED
      BY <2>2, <3>2
  <2>3. CASE i # 1
    <3>1. Chunks(r)[i] = Rmsg(r, Part(i), FALSE)
      BY <2>1, <2>3
    <3>2. Chunks(r)[i].id = r /\ ~Chunks(r)[i].aligned
      BY <3>1 DEF Rmsg
    <3> QED
      BY <2>3, <3>2
  <2> QED
    BY <2>2, <2>3
<1>10. Chunks(r)[1].msgs = Part(1)
  BY <1>2, <1>6 DEF Rmsg
<1>11. Chunks(r) # <<>>
  BY <1>8, <1>2
<1> QED
  BY <1>5, <1>8, <1>9, <1>10, <1>11 DEF L, ms

-----------------------------------------------------------------------------
(* Types.                                                                  *)

\* The first state is well typed.
LEMMA InitTyped == TransferInit => TransferTypeOK
<1> SUFFICES ASSUME TransferInit PROVE TransferTypeOK
  OBVIOUS
<1> USE DEF TransferInit
<1>1. RedisTyped
  <2>1. stored \in [Room -> Seq(Text)]
    <3>1. \A r \in Range(Chats) : History[r] \in Seq(Text)
      BY RoomAssumption DEF Range
    <3>2. <<>> \in Seq(Text)
      OBVIOUS
    <3>3. \A r \in Room : (IF r \in Range(Chats) THEN History[r] ELSE <<>>) \in Seq(Text)
      BY <3>1, <3>2
    <3> QED
      BY <3>3
  <2> QED
    BY <2>1, RoomAssumption DEF RedisTyped, Tries, Absent
<1>2. UnderWayTyped
  <2>1. [type |-> "data", keyed |-> TRUE] \in Asking
    BY DEF Asking
  <2> QED
    BY <2>1, StagesMade DEF UnderWayTyped
<1>3. ClientTyped
  <2>1. mine = [friends |-> 0, rooms |-> <<>>, keyed |-> TRUE]
    BY DEF Free
  <2>2. <<>> \in Seq(RoomKept)
    OBVIOUS
  <2>3. mine \in [friends : Nat, rooms : Seq(RoomKept), keyed : BOOLEAN]
    <3> HIDE DEF TransferInit
    <3>1. 0 \in Nat /\ TRUE \in BOOLEAN
      OBVIOUS
    <3> HIDE DEF RoomKept
    <3> QED
      BY <2>1, <2>2, <3>1, Zenon
  <2> QED
    BY <2>3 DEF ClientTyped
<1>4. HistoryTyped
  BY DEF HistoryTyped
<1> QED
  BY <1>1, <1>2, <1>3, <1>4 DEF TransferTypeOK

\* Nothing that a user has done or that went wrong is forgotten.
LEMMA CountersTyped ==
  ASSUME HistoryTyped,
         UNCHANGED faults \/ faults' = faults + 1,
         UNCHANGED misread \/ misread' = TRUE,
         UNCHANGED pushes \/ pushes' = pushes + 1
  PROVE  HistoryTyped'
<1>1. faults' \in Nat /\ pushes' \in Nat
  BY DEF HistoryTyped
<1>2. misread' \in BOOLEAN
  BY Zenon DEF HistoryTyped
<1> QED
  BY <1>1, <1>2 DEF HistoryTyped

\* The two directions of the connection stay well typed.
LEMMA PacketAppended ==
  ASSUME toClient \in Seq(Packet), NEW p \in Packet
  PROVE  SendToClient(p) => toClient' \in Seq(Packet)
  BY DEF SendToClient

\* The same of the other direction.
LEMMA AnswerAppended ==
  ASSUME toServer \in Seq(Asking), NEW p \in Asking
  PROVE  Reply(p) => toServer' \in Seq(Asking)
  BY DEF Reply

\* The answers of the client are of these kinds.
LEMMA AnswersMade ==
  ASSUME NEW k \in BOOLEAN
  PROVE  /\ [type |-> "data", keyed |-> k] \in Asking
         /\ \A ok \in BOOLEAN : [type |-> "frnd", ok |-> ok, keyed |-> k] \in Asking
         /\ \A ok \in BOOLEAN, r \in Room \cup {NoRoom} :
              [type |-> "room", id |-> r, ok |-> ok, keyed |-> k] \in Asking
  BY DEF Asking

\* What the server takes from its side.
LEMMA ReceivesTyped ==
  ASSUME UnderWayTyped, NEW type, Receives(type)
  PROVE  /\ server = Idle
         /\ toServer # <<>>
         /\ Head(toServer) \in Asking /\ Head(toServer) = toServer[1]
         /\ Head(toServer).type = type /\ Head(toServer).keyed
         /\ toServer' = Tail(toServer)
         /\ toServer' \in Seq(Asking)
  BY DEF UnderWayTyped, Receives

\* The server's answers keep the types: the retries, and the packet.
LEMMA ServerTyped ==
  ASSUME TransferTypeOK, Unrecognised \/ DataRequest \/ FriendReply
  PROVE  TransferTypeOK'
<1> USE DEF TransferTypeOK
<1>1. CASE Unrecognised
  <2>1. Head(toServer) \in Asking /\ Tail(toServer) \in Seq(Asking)
    <3>1. toServer # <<>> /\ toServer \in Seq(Asking)
      BY <1>1 DEF UnderWayTyped, Unrecognised
    <3> QED
      BY <3>1
  <2>2. PICK w \in {"data;fail", "frnd;fail", "room;fail"} : SendToClient(State(w))
    BY <1>1, <2>1, AskingShapes DEF Unrecognised
  <2>3. toClient' \in Seq(Packet)
    BY <2>2, PacketsMade, PacketAppended DEF UnderWayTyped
  <2>4. UnderWayTyped'
    BY <1>1, <2>1, <2>3 DEF UnderWayTyped, Unrecognised
  <2> QED
    BY <1>1, <2>4 DEF Unrecognised, redis, client, history, RedisTyped, ClientTyped, HistoryTyped
<1>2. CASE DataRequest
  <2>1. toServer' \in Seq(Asking)
    BY <1>2, ReceivesTyped DEF DataRequest
  <2>2. toClient' \in Seq(Packet)
    <3>1. Frnd(friends) \in Packet /\ State("data;fail") \in Packet
      BY PacketsMade DEF RedisTyped
    <3>2. SendToClient(Frnd(friends)) \/ SendToClient(State("data;fail")) \/ UNCHANGED toClient
      BY <1>2 DEF DataRequest
    <3>3. toClient \in Seq(Packet)
      BY DEF UnderWayTyped
    <3> QED
      BY <3>1, <3>2, <3>3, PacketAppended
  <2>3. UnderWayTyped'
    BY <1>2, <2>1, <2>2 DEF UnderWayTyped, DataRequest
  <2>4. RedisTyped'
    <3>1. served' = TRUE \/ UNCHANGED served
      BY <1>2 DEF DataRequest
    <3>2. frndTries' = 0 \/ UNCHANGED frndTries
      BY <1>2 DEF DataRequest
    <3>3. served' \in BOOLEAN
      BY <3>1, Zenon DEF RedisTyped
    <3>4. frndTries' \in Tries
      BY <3>2 DEF RedisTyped, Tries
    <3> QED
      BY <1>2, <3>3, <3>4 DEF DataRequest, RedisTyped
  <2>5. HistoryTyped'
    BY <1>2, CountersTyped DEF DataRequest, Fault
  <2> QED
    BY <1>2, <2>3, <2>4, <2>5 DEF DataRequest, client, ClientTyped
<1>3. CASE FriendReply
  <2>1. toServer' \in Seq(Asking)
    BY <1>3, ReceivesTyped DEF FriendReply
  <2>2. toClient' \in Seq(Packet)
    <3>1. Frnd(friends) \in Packet /\ State("frnd;fail") \in Packet
      BY PacketsMade DEF RedisTyped
    <3>2. SendToClient(Frnd(friends)) \/ SendToClient(State("frnd;fail")) \/ UNCHANGED toClient
      BY <1>3 DEF FriendReply
    <3>3. toClient \in Seq(Packet)
      BY DEF UnderWayTyped
    <3> QED
      BY <3>1, <3>2, <3>3, PacketAppended
  <2>3. server' \in Stages
    BY <1>3, StagesMade DEF FriendReply, UnderWayTyped
  <2>4. UnderWayTyped'
    BY <1>3, <2>1, <2>2, <2>3 DEF UnderWayTyped, FriendReply
  <2>5. RedisTyped'
    <3>1. Increment(frndTries) \in Tries
      BY DEF RedisTyped, Tries, Increment, Absent
    <3>2. frndTries' \in Tries
      BY <1>3, <3>1 DEF FriendReply, RedisTyped
    <3> QED
      BY <1>3, <3>2 DEF FriendReply, RedisTyped
  <2>6. HistoryTyped'
    BY <1>3, CountersTyped DEF FriendReply, Fault
  <2> QED
    BY <1>3, <2>4, <2>5, <2>6 DEF FriendReply, client, ClientTyped
<1> QED
  BY <1>1, <1>2, <1>3

\* So does the sending of rooms and messages.
LEMMA RoomsTyped ==
  ASSUME TransferTypeOK, Transfer \/ SendRoom \/ SendChunk
  PROVE  TransferTypeOK'
<1> USE DEF TransferTypeOK
<1>1. CASE Transfer
  <2>1. State("room;ok") \in Packet
    BY PacketsMade
  <2>2. toClient' \in Seq(Packet)
    BY <1>1, <2>1, PacketAppended DEF Transfer, UnderWayTyped
  <2>3. server' \in Stages
    <3>1. chats # <<>> => chats[1] \in Room
      BY DEF RedisTyped
    <3> QED
      BY <1>1, <3>1, StagesMade DEF Transfer
  <2>4. UnderWayTyped'
    BY <1>1, <2>2, <2>3 DEF UnderWayTyped, Transfer
  <2>5. roomTries' \in [Room -> Tries]
    <3>1. roomTries' = roomTries
            \/ roomTries' = [r \in Room |-> IF r \in Range(chats) THEN 0 ELSE roomTries[r]]
      BY <1>1 DEF Transfer
    <3>2. 0 \in Tries /\ roomTries \in [Room -> Tries]
      BY DEF RedisTyped, Tries
    <3> QED
      BY <3>1, <3>2
  <2>6. RedisTyped'
    BY <1>1, <2>5 DEF Transfer, RedisTyped
  <2>7. HistoryTyped'
    BY <1>1, CountersTyped DEF Transfer, Fault
  <2> QED
    BY <1>1, <2>4, <2>6, <2>7 DEF Transfer, client, ClientTyped
<1>2. CASE SendRoom
  <2> DEFINE r == server.room
  <2>1. r \in Room
    BY <1>2, StageShapes DEF SendRoom, UnderWayTyped
  <2>2. stored \in [Room -> Seq(Text)]
    BY DEF RedisTyped
  <2>3. RoomPacket(r) \in Packet /\ NoSuch(r) \in Packet
    BY <2>1, <2>2, RoomPacketMade, PacketsMade
  <2>4. toClient' \in Seq(Packet)
    <3>1. SendToClient(RoomPacket(r)) \/ SendToClient(NoSuch(r))
      BY <1>2 DEF SendRoom
    <3> QED
      BY <2>3, <3>1, PacketAppended DEF UnderWayTyped
  <2>5. server' \in Stages
    <3>1. stored[r] # <<>> => Chunks(r) \in Seq(RmsgP) /\ Chunks(r) # <<>>
      BY <2>1, <2>2, ChunksMade
    <3>2. server' = Idle \/ (stored[r] # <<>> /\ server' = [at |-> "messages", left |-> Chunks(r)])
      BY <1>2 DEF SendRoom
    <3> HIDE DEF r
    <3> QED
      BY <3>1, <3>2, StagesMade
  <2>6. UnderWayTyped'
    BY <1>2, <2>4, <2>5 DEF UnderWayTyped, SendRoom
  <2>7. roomTries' \in [Room -> Tries]
    <3>1. \A n \in Tries : Increment(n) \in Tries
      BY DEF Tries, Increment, Absent
    <3>2. roomTries' = roomTries \/ roomTries' = [roomTries EXCEPT ![r] = Increment(@)]
      BY <1>2 DEF SendRoom
    <3> QED
      BY <2>1, <3>1, <3>2 DEF RedisTyped
  <2>8. RedisTyped'
    BY <1>2, <2>7 DEF SendRoom, RedisTyped
  <2>9. HistoryTyped'
    BY <1>2, CountersTyped DEF SendRoom, Fault, Misreads
  <2> QED
    BY <1>2, <2>6, <2>8, <2>9 DEF SendRoom, client, ClientTyped
<1>3. CASE SendChunk
  <2>1. server.left \in Seq(RmsgP) /\ server.left # <<>>
    BY <1>3, StageShapes DEF SendChunk, UnderWayTyped
  <2>2. Head(server.left) \in Packet
    BY <2>1, RmsgShapes
  <2>3. toClient' \in Seq(Packet)
    BY <1>3, <2>2, PacketAppended DEF SendChunk, UnderWayTyped
  <2>4. server' \in Stages
    <3>1. CASE Len(server.left) = 1
      BY <1>3, <3>1, StagesMade DEF SendChunk
    <3>2. CASE Len(server.left) # 1
      <4>1. Tail(server.left) \in Seq(RmsgP) /\ Tail(server.left) # <<>>
        <5> DEFINE s == server.left
        <5>1. s \in Seq(RmsgP) /\ s # <<>> /\ Len(s) # 1
          BY <2>1, <3>2
        <5> HIDE DEF s
        <5>2. Len(Tail(s)) = Len(s) - 1 /\ Len(s) # 0 /\ Len(s) \in Nat /\ Tail(s) \in Seq(RmsgP)
          BY <5>1
        <5>3. Len(Tail(s)) # 0
          BY <5>1, <5>2
        <5>4. Tail(s) # <<>>
          BY <5>2, <5>3, EmptyIsZero, Zenon
        <5> QED
          BY <5>2, <5>4 DEF s
      <4>2. server' = [server EXCEPT !.left = Tail(server.left)]
        BY <1>3, <3>2 DEF SendChunk
      <4> QED
        BY <1>3, <4>1, <4>2 DEF SendChunk, UnderWayTyped, Stages
    <3> QED
      BY <3>1, <3>2
  <2>5. UnderWayTyped'
    BY <1>3, <2>3, <2>4 DEF UnderWayTyped, SendChunk
  <2> QED
    BY <1>3, <2>5 DEF SendChunk, redis, client, history, RedisTyped, ClientTyped, HistoryTyped
<1> QED
  BY <1>1, <1>2, <1>3

\* The rooms that get_next_room finds.
LEMMA NextRoomTyped ==
  ASSUME NEW id, RedisTyped
  PROVE  NextRoom(id) \in Room => [at |-> "room", room |-> NextRoom(id)] \in Stages
  BY StagesMade

\* So does the confirmation of a room, whatever id was read.
LEMMA RepliesTyped ==
  ASSUME TransferTypeOK, RoomReply
  PROVE  TransferTypeOK'
<1> USE DEF TransferTypeOK
<1>1. /\ Head(toServer) \in Asking /\ Head(toServer).type = "room"
      /\ toServer' \in Seq(Asking)
  BY ReceivesTyped DEF RoomReply
<1>2. PICK id \in Confirmed :
         /\ \/ SendToClient(State("room;fail")) /\ UNCHANGED server
            \/ SendToClient(NoSuch(id)) /\ UNCHANGED server
            \/ SendToClient(State("room;ok")) /\ UNCHANGED server
            \/ /\ NextRoom(id) \in Room
               /\ server' = [at |-> "room", room |-> NextRoom(id)]
               /\ UNCHANGED toClient
         /\ UNCHANGED faults \/ faults' = faults + 1
         /\ UNCHANGED misread \/ misread' = TRUE
  BY DEF RoomReply, Misreads, Fault
<1>3. id \in Room \cup {NoRoom}
  BY <1>1, AskingShapes DEF Confirmed
<1>4. State("room;fail") \in Packet /\ NoSuch(id) \in Packet /\ State("room;ok") \in Packet
  BY <1>3, PacketsMade
<1>5. toClient' \in Seq(Packet)
  BY <1>2, <1>4, PacketAppended DEF UnderWayTyped
<1>6. server' \in Stages
  BY <1>2, StagesMade DEF UnderWayTyped
<1>7. UnderWayTyped'
  BY <1>1, <1>5, <1>6 DEF UnderWayTyped, RoomReply
<1>8. HistoryTyped'
  BY <1>2, CountersTyped DEF RoomReply
<1> QED
  BY <1>7, <1>8 DEF RoomReply, redis, client, RedisTyped, ClientTyped

\* So do other users, and what expires.
LEMMA OthersTyped ==
  ASSUME TransferTypeOK,
         Expire \/ OtherDelivers \/ \E r \in Room : OtherSends(r) \/ OtherAccepts(r)
  PROVE  TransferTypeOK'
<1> USE DEF TransferTypeOK
<1>1. CASE Expire
  <2>1. roomTries' \in [Room -> Tries] /\ frndTries' \in Tries
    BY <1>1 DEF Expire, RedisTyped, Tries
  <2>2. RedisTyped'
    BY <1>1, <2>1 DEF Expire, RedisTyped
  <2>3. HistoryTyped'
    BY <1>1, CountersTyped DEF Expire
  <2> QED
    BY <1>1, <2>2, <2>3 DEF Expire, client, UnderWayTyped, ClientTyped
<1>2. ASSUME NEW r \in Room, OtherSends(r) PROVE TransferTypeOK'
  <2> DEFINE m == [n |-> Len(stored[r]) + 1, split |-> FALSE]
             p == Rmsg(r, <<m>>, TRUE)
  <2>1. stored[r] \in Seq(Text) /\ m \in Text
    BY DEF RedisTyped, Text
  <2>2. Append(stored[r], m) \in Seq(Text) /\ <<m>> \in Seq(Text) /\ <<m>> # <<>>
    BY <2>1
  <2>3. stored' = [stored EXCEPT ![r] = Append(stored[r], m)] /\ other' = <<p>>
    BY <1>2 DEF OtherSends
  <2> HIDE DEF m
  <2>4. p \in RmsgP
    BY <2>2 DEF Rmsg, RmsgP
  <2> HIDE DEF p
  <2>5. p \in Packet
    BY <2>4, RmsgShapes
  <2>6. other' \in Seq(Packet)
    BY <2>3, <2>5
  <2>7. UnderWayTyped'
    BY <1>2, <2>6 DEF OtherSends, UnderWayTyped
  <2>8. RedisTyped'
    BY <1>2, <2>2, <2>3 DEF OtherSends, RedisTyped
  <2>9. HistoryTyped'
    BY <1>2, CountersTyped DEF OtherSends
  <2> QED
    BY <1>2, <2>7, <2>8, <2>9 DEF OtherSends, client, ClientTyped
<1>3. ASSUME NEW r \in Room, OtherAccepts(r) PROVE TransferTypeOK'
  <2>1. Frnd(1) \in Packet /\ RoomPacket(r) \in Packet
    BY PacketsMade, RoomPacketMade DEF RedisTyped
  <2>2. other' = <<Frnd(1), RoomPacket(r)>>
    BY <1>3 DEF OtherAccepts
  <2>3. other' \in Seq(Packet)
    BY <2>1, <2>2
  <2>4. UnderWayTyped'
    BY <1>3, <2>3 DEF OtherAccepts, UnderWayTyped
  <2>5. RedisTyped'
    BY <1>3 DEF OtherAccepts, RedisTyped
  <2>6. HistoryTyped'
    BY <1>3, CountersTyped DEF OtherAccepts
  <2> QED
    BY <1>3, <2>4, <2>5, <2>6 DEF OtherAccepts, client, ClientTyped
<1>4. CASE OtherDelivers
  <2>1. other # <<>> /\ other \in Seq(Packet)
    BY <1>4 DEF OtherDelivers, UnderWayTyped
  <2>2. Head(other) \in Packet /\ Tail(other) \in Seq(Packet)
    BY <2>1
  <2>3. UNCHANGED toClient \/ toClient' = Append(toClient, Head(other))
    BY <1>4 DEF OtherDelivers
  <2>4. toClient' \in Seq(Packet)
    <3>1. toClient \in Seq(Packet)
      BY DEF UnderWayTyped
    <3> HIDE DEF Packet
    <3>2. Append(toClient, Head(other)) \in Seq(Packet)
      BY <2>2, <3>1
    <3> QED
      BY <2>3, <3>1, <3>2, Zenon
  <2>5. UnderWayTyped'
    BY <1>4, <2>2, <2>4 DEF OtherDelivers, UnderWayTyped
  <2> QED
    BY <1>4, <2>5 DEF OtherDelivers, redis, client, history, RedisTyped, ClientTyped, HistoryTyped
<1> QED
  BY <1>1, <1>2, <1>3, <1>4

-----------------------------------------------------------------------------
(* The reader.                                                             *)

\* What is left of the queue when the reader took d packets.
Later(d) ==
    /\ d <= Len(toClient)
    /\ toClient' \in Seq(Packet)
    /\ Len(toClient') = Len(toClient) - d
    /\ \A i \in DOMAIN toClient' : i + d \in DOMAIN toClient /\ toClient'[i] = toClient[i + d]

\* The reader took one packet, or two at once.
LEMMA LaterMade ==
  ASSUME toClient \in Seq(Packet), toClient # <<>>
  PROVE  /\ toClient' = Tail(toClient) => Later(1)
         /\ Len(toClient) > 1 /\ toClient' = Tail(Tail(toClient)) => Later(2)
         /\ Head(toClient) = toClient[1] /\ Head(toClient) \in Packet /\ 1 \in DOMAIN toClient
<1>1. /\ Tail(toClient) \in Seq(Packet)
      /\ Len(Tail(toClient)) = Len(toClient) - 1
      /\ \A i \in 1..Len(Tail(toClient)) : Tail(toClient)[i] = toClient[i + 1]
  BY HeadTailProperties
<1>2. toClient' = Tail(toClient) => Later(1)
  BY <1>1 DEF Later
<1>3. ASSUME Len(toClient) > 1
      PROVE  /\ Tail(Tail(toClient)) \in Seq(Packet)
             /\ Len(Tail(Tail(toClient))) = Len(toClient) - 2
             /\ \A i \in 1..Len(Tail(Tail(toClient))) : Tail(Tail(toClient))[i] = toClient[i + 2]
  <2>1. Tail(toClient) # <<>>
    <3>1. Len(Tail(toClient)) = Len(toClient) - 1 /\ Len(toClient) \in Nat
      BY <1>1
    <3>2. Len(Tail(toClient)) # 0
      BY <1>3, <3>1
    <3> QED
      BY <1>1, <3>2, EmptyIsZero, Zenon
  <2>2. /\ Tail(Tail(toClient)) \in Seq(Packet)
        /\ Len(Tail(Tail(toClient))) = Len(Tail(toClient)) - 1
        /\ \A i \in 1..Len(Tail(Tail(toClient))) : Tail(Tail(toClient))[i] = Tail(toClient)[i + 1]
    BY <1>1, <2>1, HeadTailProperties
  <2> QED
    BY <1>1, <1>3, <2>2
<1>4. Len(toClient) > 1 /\ toClient' = Tail(Tail(toClient)) => Later(2)
  BY <1>3 DEF Later
<1> QED
  BY <1>2, <1>4

\* It is what Taken allows.
LEMMA TakenLater ==
  ASSUME toClient \in Seq(Packet), toClient # <<>>, Taken
  PROVE  \E d \in 1..2 : Later(d)
<1>1. toClient' = Tail(toClient) \/ (Len(toClient) > 1 /\ toClient' = Tail(Tail(toClient)))
  BY DEF Taken
<1> QED
  BY <1>1, LaterMade

Mine == [friends : Nat, rooms : Seq(RoomKept), keyed : BOOLEAN]

\* user_data after an update.
LEMMA MineMade ==
  /\ Free \in Mine
  /\ \A m \in Mine, n \in Nat :
        /\ [m EXCEPT !.friends = @ + n] \in Mine
        /\ [m EXCEPT !.friends = @ + n].rooms = m.rooms
        /\ [m EXCEPT !.friends = @ + n].friends = m.friends + n
  /\ \A m \in Mine, s \in Seq(RoomKept) :
        /\ [m EXCEPT !.rooms = s] \in Mine
        /\ [m EXCEPT !.rooms = s].rooms = s
        /\ [m EXCEPT !.rooms = s].friends = m.friends
<1>1. <<>> \in Seq(RoomKept)
  OBVIOUS
<1> HIDE DEF RoomKept
<1>2. Free \in Mine
  BY <1>1, Zenon DEF Free, Mine
<1>3. ASSUME NEW m \in Mine, NEW n \in Nat
      PROVE  /\ [m EXCEPT !.friends = @ + n] \in Mine
             /\ [m EXCEPT !.friends = @ + n].rooms = m.rooms
             /\ [m EXCEPT !.friends = @ + n].friends = m.friends + n
  BY DEF Mine
<1> DEFINE Rs == Seq(RoomKept)
<1>4. Mine = [friends : Nat, rooms : Rs, keyed : BOOLEAN]
  BY DEF Mine
<1> HIDE DEF Rs
<1>5. ASSUME NEW m \in Mine, NEW s \in Rs
      PROVE  /\ [m EXCEPT !.rooms = s] \in Mine
             /\ [m EXCEPT !.rooms = s].rooms = s
             /\ [m EXCEPT !.rooms = s].friends = m.friends
  BY <1>4
<1> QED
  BY <1>2, <1>3, <1>5 DEF Rs

\* A signal settles the request but does not end it.
LEMMA SignalTyped ==
  ASSUME NEW ok \in BOOLEAN, Signal(ok),
         login \in [pending : BOOLEAN, verdict : {"none", "ok", "fail", "timeout"}]
  PROVE  /\ login' \in [pending : BOOLEAN, verdict : {"none", "ok", "fail", "timeout"}]
         /\ login'.pending = login.pending
<1>1. login' = login \/ login' = [login EXCEPT !.verdict = "ok"]
        \/ login' = [login EXCEPT !.verdict = "fail"]
  BY DEF Signal
<1> QED
  BY <1>1

\* A room in the list is replaced by another of the same id.
SameRooms(m, i, msgs) ==
    /\ m \in Mine
    /\ m.friends = mine.friends
    /\ DOMAIN m.rooms = DOMAIN mine.rooms
    /\ Len(m.rooms) = Len(mine.rooms)
    /\ \A j \in DOMAIN mine.rooms : m.rooms[j].id = mine.rooms[j].id
    /\ \A j \in DOMAIN mine.rooms : j # i => m.rooms[j] = mine.rooms[j]
    /\ m.rooms[i].msgs = msgs

\* One room of user_data is replaced.
LEMMA RoomReplaced ==
  ASSUME mine \in Mine, NEW i \in DOMAIN mine.rooms,
         NEW room \in RoomKept, room.id = mine.rooms[i].id
  PROVE  SameRooms([mine EXCEPT !.rooms = [mine.rooms EXCEPT ![i] = room]], i, room.msgs)
<1> DEFINE s == [mine.rooms EXCEPT ![i] = room]
<1>1. mine.rooms \in Seq(RoomKept)
  BY DEF Mine
<1>2. s \in Seq(RoomKept)
  BY <1>1
<1>3. /\ DOMAIN s = DOMAIN mine.rooms
      /\ Len(s) = Len(mine.rooms)
      /\ s[i] = room
      /\ \A j \in DOMAIN mine.rooms : j # i => s[j] = mine.rooms[j]
  BY <1>1
<1> HIDE DEF s
<1>4. /\ [mine EXCEPT !.rooms = s] \in Mine
      /\ [mine EXCEPT !.rooms = s].rooms = s
      /\ [mine EXCEPT !.rooms = s].friends = mine.friends
  BY <1>2, MineMade
<1>5. \A j \in DOMAIN mine.rooms : s[j].id = mine.rooms[j].id
  BY <1>3
<1>6. SameRooms([mine EXCEPT !.rooms = s], i, room.msgs)
  BY <1>3, <1>4, <1>5 DEF SameRooms
<1> QED
  BY <1>6 DEF s

\* What add_messages_data takes of a packet.
LEMMA PartTyped ==
  ASSUME NEW ms \in Seq(Text), NEW n \in Int
  PROVE  /\ SubSeq(ms, 1, Least(n, Len(ms))) \in Seq(Text)
         /\ Len(SubSeq(ms, 1, Least(n, Len(ms)))) <= Len(ms)
         /\ \A k \in 1..Len(SubSeq(ms, 1, Least(n, Len(ms)))) :
               SubSeq(ms, 1, Least(n, Len(ms)))[k] = ms[k]
<1> DEFINE e == Least(n, Len(ms))
<1>1. e \in Int /\ e <= Len(ms)
  BY DEF Least
<1> HIDE DEF e
<1>2. CASE e < 1
  <2>1. SubSeq(ms, 1, e) = <<>>
    BY <1>1, <1>2
  <2>2. <<>> \in Seq(Text) /\ Len(<<>>) = 0 /\ Len(ms) \in Nat
    OBVIOUS
  <2>3. SubSeq(ms, 1, e) \in Seq(Text) /\ Len(SubSeq(ms, 1, e)) = 0
    BY <2>1, <2>2, Zenon
  <2>4. 0 <= Len(ms) /\ 1..0 = {}
    BY <2>2
  <2> QED
    BY <2>3, <2>4 DEF e
<1>3. CASE e >= 1
  <2>1. 1 \in 1..Len(ms) + 1 /\ e \in 1 - 1..Len(ms)
    BY <1>1, <1>3
  <2>2. /\ SubSeq(ms, 1, e) \in Seq(Text)
        /\ Len(SubSeq(ms, 1, e)) = e
        /\ \A k \in 1..e : SubSeq(ms, 1, e)[k] = ms[k]
    BY <1>1, <1>3, <2>1, SubSeqProperties
  <2> QED
    BY <1>1, <2>2 DEF e
<1> QED
  BY <1>1, <1>2, <1>3

\* add_messages_data appends a beginning of the packet.
LEMMA HistoryAddedMade ==
  ASSUME mine \in Mine, NEW i \in DOMAIN mine.rooms, NEW p, p.msgs \in Seq(Text)
  PROVE  \E add \in Seq(Text) :
           /\ SameRooms(HistoryAdded(p, i), i, mine.rooms[i].msgs \o add)
           /\ Len(add) <= Len(p.msgs)
           /\ \A k \in 1..Len(add) : add[k] = p.msgs[k]
<1> DEFINE old == mine.rooms[i]
           n   == old.amount - Len(old.msgs)
           add == SubSeq(p.msgs, 1, Least(n, Len(p.msgs)))
           new == [old EXCEPT !.msgs = old.msgs \o add]
<1>1. old \in RoomKept
  BY DEF Mine
<1>2. old.msgs \in Seq(Text) /\ n \in Int
  BY <1>1 DEF RoomKept
<1> HIDE DEF n
<1>3. /\ add \in Seq(Text) /\ Len(add) <= Len(p.msgs)
      /\ \A k \in 1..Len(add) : add[k] = p.msgs[k]
  BY <1>2, PartTyped
<1>4. HistoryAdded(p, i) = [mine EXCEPT !.rooms = [mine.rooms EXCEPT ![i] = new]]
  BY DEF HistoryAdded, n, Mine
<1> HIDE DEF add
<1>5. old.msgs \o add \in Seq(Text)
  BY <1>2, <1>3
<1>6. new \in RoomKept /\ new.id = old.id /\ new.msgs = old.msgs \o add
  BY <1>1, <1>5 DEF RoomKept
<1> HIDE DEF new
<1>7. SameRooms([mine EXCEPT !.rooms = [mine.rooms EXCEPT ![i] = new]], i, new.msgs)
  BY <1>6, RoomReplaced
<1> QED
  BY <1>3, <1>4, <1>6, <1>7

\* A packet after log-in appends one message.
LEMMA NewAddedMade ==
  ASSUME mine \in Mine, NEW i \in DOMAIN mine.rooms, NEW p \in RmsgP
  PROVE  /\ p.aligned => SameRooms(NewAdded(p, i), i, Append(mine.rooms[i].msgs, p.msgs[1]))
         /\ ~p.aligned => SameRooms(NewAdded(p, i), i, Append(mine.rooms[i].msgs, Garbage))
<1> DEFINE old == mine.rooms[i]
           m   == IF p.aligned THEN p.msgs[1] ELSE Garbage
           new == [old EXCEPT !.amount = old.amount + 1, !.msgs = Append(old.msgs, m)]
<1>1. old \in RoomKept
  BY DEF Mine
<1>2. old.msgs \in Seq(Text) /\ old.amount \in Nat
  BY <1>1 DEF RoomKept
<1>3. m \in Text
  <2>1. Garbage \in Text
    BY DEF Garbage, Text
  <2>2. p.aligned => p.msgs[1] \in Text
    BY RmsgShapes
  <2> QED
    BY <2>1, <2>2
<1>4. NewAdded(p, i) = [mine EXCEPT !.rooms = [mine.rooms EXCEPT ![i] = new]]
  <2> DEFINE a == old.amount + 1
             s == Append(old.msgs, m)
  <2>1. NewAdded(p, i) = [mine EXCEPT !.rooms[i].amount = a, !.rooms[i].msgs = s]
    BY DEF NewAdded
  <2> HIDE DEF a, s, m
  <2>2. [mine EXCEPT !.rooms[i].amount = a, !.rooms[i].msgs = s]
          = [mine EXCEPT !.rooms = [mine.rooms EXCEPT ![i] = [old EXCEPT !.amount = a, !.msgs = s]]]
    BY DEF Mine
  <2> QED
    BY <2>1, <2>2 DEF a, s
<1> HIDE DEF m
<1>5. Append(old.msgs, m) \in Seq(Text)
  BY <1>2, <1>3
<1>6. new \in RoomKept /\ new.id = old.id /\ new.msgs = Append(old.msgs, m)
  <2> DEFINE a == old.amount + 1
             s == Append(old.msgs, m)
  <2>1. a \in Nat /\ s \in Seq(Text)
    BY <1>2, <1>5
  <2> HIDE DEF a, s, old
  <2>2. [old EXCEPT !.amount = a, !.msgs = s] \in RoomKept
        /\ [old EXCEPT !.amount = a, !.msgs = s].id = old.id
        /\ [old EXCEPT !.amount = a, !.msgs = s].msgs = s
    BY <1>1, <2>1 DEF RoomKept
  <2> QED
    BY <2>2 DEF a, s
<1> HIDE DEF new
<1>7. SameRooms([mine EXCEPT !.rooms = [mine.rooms EXCEPT ![i] = new]], i, new.msgs)
  BY <1>6, RoomReplaced
<1>8. SameRooms(NewAdded(p, i), i, Append(mine.rooms[i].msgs, m))
  BY <1>4, <1>6, <1>7
<1> QED
  BY <1>8 DEF m

\* extract_rmsg: one room of the packet's id, if any, gets messages.
RoomsOf(id) == {i \in DOMAIN mine.rooms : mine.rooms[i].id = id}
Skipped(p)  == mine' = mine /\ (RoomsOf(p.id) = {} \/ login.pending)
Gained(p)   ==
    /\ login.pending
    /\ p.aligned
    /\ \E i \in RoomsOf(p.id), add \in Seq(Text) :
         /\ SameRooms(mine', i, mine.rooms[i].msgs \o add)
         /\ Len(add) <= Len(p.msgs)
         /\ \A k \in 1..Len(add) : add[k] = p.msgs[k]
Grown(p)    ==
    /\ ~login.pending
    /\ \E i \in RoomsOf(p.id) :
         /\ p.aligned => SameRooms(mine', i, Append(mine.rooms[i].msgs, p.msgs[1]))
         /\ ~p.aligned => SameRooms(mine', i, Append(mine.rooms[i].msgs, Garbage))

\* extract_rmsg skips a packet, or one of the three happens to a room.
LEMMA MessagesRead ==
  ASSUME UnderWayTyped, mine \in Mine, ReadMessages
  PROVE  /\ toClient # <<>> /\ toClient[1] \in RmsgP
         /\ \E d \in 1..2 : Later(d)
         /\ reader' \in [at : {"signal"}, ok : BOOLEAN]
         /\ Skipped(toClient[1]) \/ Gained(toClient[1]) \/ Grown(toClient[1])
<1>1. toClient # <<>> /\ toClient \in Seq(Packet) /\ Head(toClient).type = "rmsg"
  BY DEF ReadMessages, Incoming, UnderWayTyped
<1>2. /\ Head(toClient) = toClient[1] /\ Head(toClient) \in Packet
      /\ toClient' = Tail(toClient) => Later(1)
      /\ Len(toClient) > 1 /\ toClient' = Tail(Tail(toClient)) => Later(2)
  BY <1>1, LaterMade
<1>3. toClient[1] \in RmsgP
  BY <1>1, <1>2, PacketShapes
<1> DEFINE p     == toClient[1]
           known == RoomsOf(p.id)
           first == CHOOSE i \in known : \A j \in known : i <= j
           last  == CHOOSE i \in known : \A j \in known : j <= i
           room  == mine.rooms[first]
           taken == SubSeq(p.msgs, 1, Least(room.amount - Len(room.msgs), Len(p.msgs)))
<1>4. PICK whole \in BOOLEAN :
        /\ IF whole THEN toClient' = Tail(toClient)
           ELSE "merge" \in Events /\ Len(toClient) > 1 /\ toClient' = Tail(Tail(toClient))
        /\ \/ /\ known = {} \/ (login.pending /\ ~(whole /\ Countable(p)))
              /\ reader' = [at |-> "signal", ok |-> FALSE]
              /\ UNCHANGED mine
           \/ /\ known # {} /\ login.pending /\ whole /\ Countable(p)
              /\ mine' = HistoryAdded([p EXCEPT !.msgs = taken], last)
              /\ reader' = [at |-> "signal", ok |-> TRUE]
           \/ /\ known # {} /\ ~login.pending
              /\ mine' = NewAdded(p, first)
              /\ reader' = [at |-> "signal", ok |-> TRUE]
  BY <1>2 DEF ReadMessages, RoomsOf
<1>5. \E d \in 1..2 : Later(d)
  BY <1>2, <1>4
<1>6. reader' \in [at : {"signal"}, ok : BOOLEAN]
  <2>1. reader' = [at |-> "signal", ok |-> FALSE] \/ reader' = [at |-> "signal", ok |-> TRUE]
    BY <1>4
  <2>2. /\ [at |-> "signal", ok |-> FALSE] \in [at : {"signal"}, ok : BOOLEAN]
        /\ [at |-> "signal", ok |-> TRUE] \in [at : {"signal"}, ok : BOOLEAN]
    OBVIOUS
  <2> QED
    BY <2>1, <2>2, Zenon
<1>7. p.msgs \in Seq(Text) /\ p.id \in Room
  BY <1>3, RmsgShapes
<1>8. known # {} => first \in known /\ last \in known
  <2>1. Len(mine.rooms) \in Nat /\ known \in SUBSET (1..Len(mine.rooms))
    BY DEF RoomsOf, Mine
  <2>2. known \in SUBSET Nat
    BY <2>1
  <2> HIDE DEF known
  <2>3. ASSUME known # {} PROVE first \in known
    BY <2>2, <2>3, LeastExists
  <2>4. ASSUME known # {} PROVE last \in known
    BY <2>1, <2>4, GreatestExists
  <2> QED
    BY <2>3, <2>4
<1>9. CASE known = {} \/ (login.pending /\ ~(whole /\ Countable(p)))
  <2>1. mine' = mine
    BY <1>4, <1>9
  <2> QED
    BY <1>1, <1>3, <1>5, <1>6, <1>9, <2>1 DEF Skipped
<1>10. CASE known # {} /\ login.pending /\ whole /\ Countable(p)
  <2>1. mine' = HistoryAdded([p EXCEPT !.msgs = taken], last)
    BY <1>4, <1>10
  <2>2. first \in DOMAIN mine.rooms /\ last \in DOMAIN mine.rooms
    BY <1>8, <1>10 DEF RoomsOf
  <2>3. /\ taken \in Seq(Text) /\ Len(taken) <= Len(p.msgs)
        /\ \A k \in 1..Len(taken) : taken[k] = p.msgs[k]
    <3>1. room \in RoomKept
      BY <2>2 DEF Mine
    <3>2. room.amount - Len(room.msgs) \in Int
      BY <3>1 DEF RoomKept
    <3> HIDE DEF room, p
    <3> QED
      BY <1>7, <3>2, PartTyped
  <2> DEFINE q == [p EXCEPT !.msgs = taken]
  <2>4. q.msgs = taken
    BY <1>3 DEF RmsgP
  <2> HIDE DEF q, taken, last, first
  <2>5. mine' = HistoryAdded(q, last)
    BY <2>1 DEF q
  <2>6. PICK add \in Seq(Text) :
          /\ SameRooms(HistoryAdded(q, last), last, mine.rooms[last].msgs \o add)
          /\ Len(add) <= Len(taken)
          /\ \A k \in 1..Len(add) : add[k] = taken[k]
    BY <2>2, <2>3, <2>4, HistoryAddedMade
  <2>7. Len(add) <= Len(p.msgs) /\ \A k \in 1..Len(add) : add[k] = p.msgs[k]
    <3>1. Len(add) \in Nat /\ Len(taken) \in Nat /\ Len(p.msgs) \in Nat
      BY <1>7, <2>3
    <3> QED
      BY <2>3, <2>6, <3>1
  <2>8. p.aligned
    BY <1>10 DEF Countable
  <2>9. last \in RoomsOf(p.id)
    BY <1>8, <1>10
  <2>10. Gained(p)
    BY <1>10, <2>5, <2>6, <2>7, <2>8, <2>9 DEF Gained
  <2> QED
    BY <1>1, <1>3, <1>5, <1>6, <2>10
<1>11. CASE known # {} /\ ~login.pending
  <2>1. mine' = NewAdded(p, first)
    BY <1>4, <1>11
  <2>2. first \in RoomsOf(p.id) /\ first \in DOMAIN mine.rooms
    BY <1>8, <1>11 DEF RoomsOf
  <2> HIDE DEF first
  <2>3. Grown(p)
    BY <1>3, <1>11, <2>1, <2>2, NewAddedMade DEF Grown
  <2> QED
    BY <1>1, <1>3, <1>5, <1>6, <2>3
<1> QED
  BY <1>4, <1>9, <1>10, <1>11

\* The client's types by the name of user_data.
LEMMA MineTyped == ClientTyped <=> /\ reader \in {Reading} \cup [at : {"signal"}, ok : BOOLEAN]
                                   /\ mine \in Mine
                                   /\ login \in [pending : BOOLEAN,
                                                 verdict : {"none", "ok", "fail", "timeout"}]
  BY DEF ClientTyped, Mine

\* extract_room appends the room while there is space.
LEMMA AddedRoomMade ==
  ASSUME mine \in Mine, NEW r \in Room, NEW n \in Nat
  PROVE  /\ AddedRoom(r, n) \in Mine
         /\ AddedRoom(r, n).friends = mine.friends
         /\ Len(mine.rooms) = RoomMax => AddedRoom(r, n) = mine
         /\ Len(mine.rooms) # RoomMax =>
              AddedRoom(r, n).rooms = Append(mine.rooms, [id |-> r, amount |-> n, msgs |-> <<>>])
<1>1. [id |-> r, amount |-> n, msgs |-> <<>>] \in RoomKept
  BY DEF RoomKept
<1> DEFINE s == Append(mine.rooms, [id |-> r, amount |-> n, msgs |-> <<>>])
<1>2. s \in Seq(RoomKept)
  BY <1>1 DEF Mine
<1>3. AddedRoom(r, n) = IF Len(mine.rooms) = RoomMax THEN mine ELSE [mine EXCEPT !.rooms = s]
  BY DEF AddedRoom
<1> HIDE DEF s
<1>4. /\ [mine EXCEPT !.rooms = s] \in Mine
      /\ [mine EXCEPT !.rooms = s].rooms = s
      /\ [mine EXCEPT !.rooms = s].friends = mine.friends
  BY <1>2, MineMade
<1> QED
  BY <1>3, <1>4 DEF s

\* The reader takes a list of friends: it answers, or not.
FriendsTaken(n) ==
    /\ mine' = mine \/ mine' = [mine EXCEPT !.friends = @ + n]
    /\ \/ UNCHANGED toServer
       \/ mine' = mine /\ FriendReplied(FALSE)
       \/ FriendReplied(TRUE)

\* extract_frnd appends the friends, or restores their amount.
LEMMA FriendsReadMade ==
  ASSUME ClientTyped, NEW n \in Nat, FriendsRead(n)
  PROVE  /\ FriendsTaken(n)
         /\ mine' \in Mine
         /\ mine'.rooms = mine.rooms
         /\ login' \in [pending : BOOLEAN, verdict : {"none", "ok", "fail", "timeout"}]
         /\ login'.pending = login.pending
<1>1. mine \in Mine /\ login \in [pending : BOOLEAN, verdict : {"none", "ok", "fail", "timeout"}]
  BY MineTyped
<1>2. UNCHANGED login \/ Signal(TRUE)
  BY DEF FriendsRead
<1>3. FriendsTaken(n)
  BY DEF FriendsRead, FriendsTaken, NoFriends, AddedFriends
<1>4. mine' \in Mine /\ mine'.rooms = mine.rooms
  <2>1. /\ [mine EXCEPT !.friends = @ + n] \in Mine
        /\ [mine EXCEPT !.friends = @ + n].rooms = mine.rooms
    BY <1>1, MineMade
  <2>2. mine' = mine \/ mine' = [mine EXCEPT !.friends = @ + n]
    BY <1>3 DEF FriendsTaken
  <2> QED
    BY <1>1, <2>1, <2>2, Zenon
<1>5. TRUE \in BOOLEAN
  OBVIOUS
<1> QED
  BY <1>1, <1>2, <1>3, <1>4, <1>5, SignalTyped

\* An answer keeps the type of the queue.
LEMMA AnswersTyped ==
  ASSUME toServer \in Seq(Asking), mine \in Mine
  PROVE  /\ \A ok \in BOOLEAN : FriendReplied(ok) => toServer' \in Seq(Asking)
         /\ DataAsked => toServer' \in Seq(Asking)
         /\ \A r \in Room \cup {NoRoom}, ok \in BOOLEAN :
              RoomReplied(r, ok) => toServer' \in Seq(Asking)
<1>1. mine.keyed \in BOOLEAN
  BY DEF Mine
<1> QED
  BY <1>1, AnswersMade, AnswerAppended DEF FriendReplied, DataAsked, RoomReplied

\* So does the answer to friends.
LEMMA FriendsTakenTyped ==
  ASSUME toServer \in Seq(Asking), mine \in Mine, NEW n \in Nat, FriendsTaken(n)
  PROVE  toServer' \in Seq(Asking)
<1>1. TRUE \in BOOLEAN /\ FALSE \in BOOLEAN
  OBVIOUS
<1> QED
  BY <1>1, AnswersTyped DEF FriendsTaken

\* The reader keeps the types.
LEMMA ReadersTyped ==
  ASSUME TransferTypeOK, ReadFriends \/ ReadState \/ ReadRoom
  PROVE  TransferTypeOK'
<1> USE DEF TransferTypeOK
<1>1. /\ toClient \in Seq(Packet) /\ toServer \in Seq(Asking) /\ mine \in Mine
      /\ reader \in {Reading} \cup [at : {"signal"}, ok : BOOLEAN]
      /\ login \in [pending : BOOLEAN, verdict : {"none", "ok", "fail", "timeout"}]
  BY MineTyped DEF UnderWayTyped
<1>2. TRUE \in BOOLEAN /\ FALSE \in BOOLEAN
  OBVIOUS
<1>3. CASE ReadFriends
  <2>1. toClient # <<>> /\ Head(toClient).type = "frnd" /\ Taken /\ FriendsRead(Head(toClient).n)
    BY <1>3 DEF ReadFriends, Incoming
  <2>2. Head(toClient).n \in Nat
    BY <1>1, <2>1, LaterMade, PacketShapes
  <2>3. toClient' \in Seq(Packet)
    BY <1>1, <2>1, TakenLater DEF Later
  <2>4. toServer' \in Seq(Asking)
    BY <1>1, <2>1, <2>2, FriendsReadMade, FriendsTakenTyped
  <2>5. UnderWayTyped'
    BY <1>3, <2>3, <2>4 DEF ReadFriends, UnderWayTyped
  <2>6. ClientTyped'
    <3>1. /\ mine' \in Mine
          /\ login' \in [pending : BOOLEAN, verdict : {"none", "ok", "fail", "timeout"}]
      BY <2>1, <2>2, FriendsReadMade
    <3> QED
      BY <1>1, <1>3, <3>1 DEF ReadFriends, ClientTyped, Mine
  <2> QED
    BY <1>3, <2>5, <2>6 DEF ReadFriends, redis, history, RedisTyped, HistoryTyped
<1>4. CASE ReadState
  <2>1. toClient # <<>> /\ toClient' = Tail(toClient)
    BY <1>4 DEF ReadState
  <2>2. toClient' \in Seq(Packet) /\ Head(toClient) \in Packet
    BY <1>1, <2>1, LaterMade DEF Later
  <2>3. \/ Dropped /\ UNCHANGED toServer
        \/ Signal(TRUE) /\ UNCHANGED <<mine, toServer>>
        \/ DataAsked /\ UNCHANGED <<mine, login>>
        \/ FriendsRead(0)
        \/ RoomReplied(NoRoom, FALSE) /\ UNCHANGED <<mine, login>>
        \/ /\ Head(toClient).type = "room;id;fail"
           /\ RoomReplied(Head(toClient).id, FALSE) /\ UNCHANGED <<mine, login>>
    BY <1>4 DEF ReadState
  <2>4. /\ toServer' \in Seq(Asking)
        /\ mine' \in Mine
        /\ login' \in [pending : BOOLEAN, verdict : {"none", "ok", "fail", "timeout"}]
    <3>1. CASE Dropped /\ UNCHANGED toServer
      BY <1>1, <1>2, <3>1, SignalTyped, MineMade DEF Dropped
    <3>2. CASE Signal(TRUE) /\ UNCHANGED <<mine, toServer>>
      BY <1>1, <1>2, <3>2, SignalTyped
    <3>3. CASE DataAsked /\ UNCHANGED <<mine, login>>
      BY <1>1, <3>3, AnswersTyped
    <3>4. CASE FriendsRead(0)
      <4>1. 0 \in Nat
        OBVIOUS
      <4> QED
        BY <1>1, <3>4, <4>1, FriendsReadMade, FriendsTakenTyped
    <3>5. CASE RoomReplied(NoRoom, FALSE) /\ UNCHANGED <<mine, login>>
      BY <1>1, <1>2, <3>5, AnswersTyped
    <3>6. CASE /\ Head(toClient).type = "room;id;fail"
               /\ RoomReplied(Head(toClient).id, FALSE) /\ UNCHANGED <<mine, login>>
      BY <1>1, <1>2, <2>2, <3>6, PacketShapes, AnswersTyped
    <3> QED
      BY <2>3, <3>1, <3>2, <3>3, <3>4, <3>5, <3>6
  <2>5. UnderWayTyped'
    BY <1>4, <2>2, <2>4 DEF ReadState, UnderWayTyped
  <2>6. ClientTyped'
    BY <1>1, <1>4, <2>4 DEF ReadState, ClientTyped, Mine
  <2>7. HistoryTyped'
    BY <1>4, CountersTyped DEF ReadState, Misreads
  <2> QED
    BY <1>4, <2>5, <2>6, <2>7 DEF ReadState, redis, RedisTyped
<1>5. CASE ReadRoom
  <2>1. toClient # <<>> /\ Head(toClient).type = "room" /\ Taken
    BY <1>5 DEF ReadRoom, Incoming
  <2>2. Head(toClient).id \in Room /\ Head(toClient).amount \in Nat
    BY <1>1, <2>1, LaterMade, PacketShapes
  <2>3. toClient' \in Seq(Packet)
    BY <1>1, <2>1, TakenLater DEF Later
  <2>4. /\ mine' = AddedRoom(Head(toClient).id, Head(toClient).amount)
        /\ RoomReplied(Head(toClient).id, TRUE) \/ UNCHANGED toServer
    BY <1>5 DEF ReadRoom
  <2>5. toServer' \in Seq(Asking)
    BY <1>1, <1>2, <2>2, <2>4, AnswersTyped
  <2>6. UnderWayTyped'
    BY <1>5, <2>3, <2>5 DEF ReadRoom, UnderWayTyped
  <2>7. ClientTyped'
    <3>1. mine' \in Mine
      BY <1>1, <2>2, <2>4, AddedRoomMade
    <3> QED
      BY <1>1, <1>5, <3>1 DEF ReadRoom, ClientTyped, Mine
  <2> QED
    BY <1>5, <2>6, <2>7 DEF ReadRoom, redis, history, RedisTyped, HistoryTyped
<1> QED
  BY <1>3, <1>4, <1>5

\* So do messages, signals, the time-out and the dialog.
LEMMA WaitersTyped ==
  ASSUME TransferTypeOK, ReadMessages \/ SignalMessages \/ TimeOut \/ Dialog
  PROVE  TransferTypeOK'
<1> USE DEF TransferTypeOK
<1>1. /\ mine \in Mine
      /\ reader \in {Reading} \cup [at : {"signal"}, ok : BOOLEAN]
      /\ login \in [pending : BOOLEAN, verdict : {"none", "ok", "fail", "timeout"}]
  BY MineTyped
<1>2. CASE ReadMessages
  <2>1. /\ \E d \in 1..2 : Later(d)
        /\ reader' \in [at : {"signal"}, ok : BOOLEAN]
        /\ Skipped(toClient[1]) \/ Gained(toClient[1]) \/ Grown(toClient[1])
    BY <1>1, <1>2, MessagesRead
  <2>2. mine' \in Mine
    BY <1>1, <2>1 DEF Skipped, Gained, Grown, SameRooms
  <2>3. UnderWayTyped'
    BY <1>2, <2>1 DEF ReadMessages, UnderWayTyped, Later
  <2>4. ClientTyped'
    BY <1>1, <1>2, <2>1, <2>2 DEF ReadMessages, ClientTyped, Mine
  <2> QED
    BY <1>2, <2>3, <2>4 DEF ReadMessages, redis, history, RedisTyped, HistoryTyped
<1>3. CASE SignalMessages
  <2>1. reader.ok \in BOOLEAN
    BY <1>1, <1>3 DEF SignalMessages
  <2>2. login' \in [pending : BOOLEAN, verdict : {"none", "ok", "fail", "timeout"}]
    BY <1>1, <1>3, <2>1, SignalTyped DEF SignalMessages
  <2>3. ClientTyped'
    BY <1>1, <1>3, <2>2 DEF SignalMessages, ClientTyped, Mine
  <2> QED
    BY <1>3, <2>3 DEF SignalMessages, redis, history, UnderWayTyped, RedisTyped, HistoryTyped
<1>4. CASE TimeOut \/ Dialog
  <2>1. \/ login' = [login EXCEPT !.verdict = "timeout"]
        \/ login' = [login EXCEPT !.pending = FALSE]
    BY <1>4 DEF TimeOut, Dialog
  <2>2. login' \in [pending : BOOLEAN, verdict : {"none", "ok", "fail", "timeout"}]
    BY <1>1, <2>1
  <2>3. ClientTyped'
    BY <1>1, <1>4, <2>2 DEF TimeOut, Dialog, ClientTyped, Mine
  <2> QED
    BY <1>4, <2>3 DEF TimeOut, Dialog, redis, history, UnderWayTyped, RedisTyped, HistoryTyped
<1> QED
  BY <1>2, <1>3, <1>4

\* Every step keeps the types.
LEMMA StepTyped == TransferTypeOK /\ [TransferNext]_transferVars => TransferTypeOK'
<1> SUFFICES ASSUME TransferTypeOK, [TransferNext]_transferVars PROVE TransferTypeOK'
  OBVIOUS
<1>1. CASE UNCHANGED transferVars
  BY <1>1 DEF transferVars, redis, client, history, TransferTypeOK, RedisTyped,
              UnderWayTyped, ClientTyped, HistoryTyped
<1>2. CASE Server
  BY <1>2, ServerTyped, RoomsTyped, RepliesTyped DEF Server
<1>3. CASE Reader
  BY <1>3, ReadersTyped, WaitersTyped DEF Reader
<1>4. CASE TimeOut \/ Dialog
  BY <1>4, WaitersTyped
<1>5. CASE Expire \/ OtherDelivers \/ \E r \in Room : OtherSends(r) \/ OtherAccepts(r)
  BY <1>5, OthersTyped
<1> QED
  BY <1>1, <1>2, <1>3, <1>4, <1>5 DEF TransferNext

-----------------------------------------------------------------------------
(* The order of the transfer.                                              *)

\* Every chat has one place in the list.
LEMMA Positions ==
  /\ \A k \in DOMAIN Chats : Pos(Chats[k]) = k /\ Chats[k] \in Range(Chats)
  /\ \A r \in Range(Chats) : Pos(r) \in DOMAIN Chats /\ Chats[Pos(r)] = r /\ r \in Room
<1>1. \A k \in DOMAIN Chats : Pos(Chats[k]) = k
  BY RoomAssumption DEF Pos
<1>2. \A r \in Range(Chats) : \E k \in DOMAIN Chats : r = Chats[k]
  BY DEF Range
<1>3. \A k \in DOMAIN Chats : Chats[k] \in Room
  BY RoomAssumption
<1> QED
  BY <1>1, <1>2, <1>3 DEF Range

\* get_next_room takes the chats one after the other.
LEMMA NextRoomIsNext ==
  ASSUME chats = Chats, NEW id, NextRoom(id) \in Room
  PROVE  /\ id \in Range(Chats)
         /\ NextRoom(id) \in Range(Chats)
         /\ Pos(NextRoom(id)) = Pos(id) + 1
<1> DEFINE at == {i \in DOMAIN chats : chats[i] = id}
           j  == CHOOSE m \in at : \A k \in at : m <= k
<1>1. NoRoom \notin Room /\ NoMore \notin Room
  BY RoomAssumption DEF NoRoom, NoMore
<1>2. NextRoom(id) = IF at = {} THEN NoRoom
                     ELSE IF j = Len(chats) THEN NoMore ELSE chats[j + 1]
  BY DEF NextRoom
<1>3. at # {} /\ j # Len(chats) /\ NextRoom(id) = chats[j + 1]
  BY <1>1, <1>2
<1>4. PICK k \in DOMAIN Chats : Chats[k] = id
  BY <1>3
<1>5. at = {k}
  BY <1>4, RoomAssumption
<1>6. k \in Nat /\ DOMAIN Chats = 1..Len(Chats)
  BY <1>4, RoomAssumption
<1>7. j = k
  BY <1>5, <1>6
<1> HIDE DEF at, j
<1>8. k + 1 \in DOMAIN Chats
  BY <1>3, <1>6, <1>7, RoomAssumption
<1>9. NextRoom(id) = Chats[k + 1] /\ k # Len(Chats)
  BY <1>3, <1>7
<1>10. /\ Pos(id) = k /\ id \in Range(Chats)
       /\ Pos(Chats[k + 1]) = k + 1 /\ Chats[k + 1] \in Range(Chats)
  BY <1>4, <1>8, Positions
<1> QED
  BY <1>9, <1>10

\* Whoever became a friend stays one.
LEMMA ChatsGrow ==
  ASSUME TransferTypeOK, Len(Chats) <= Len(chats), [TransferNext]_transferVars
  PROVE  /\ Len(Chats) <= Len(chats')
         /\ Calm' => Calm /\ UNCHANGED chats /\ \A r \in Room : ~OtherAccepts(r)
<1>1. chats \in Seq(Room) /\ Len(chats) \in Nat /\ Len(Chats) \in Nat
  BY RoomAssumption DEF TransferTypeOK, RedisTyped
<1>2. UNCHANGED chats \/ \E r \in Room : OtherAccepts(r)
  BY DEF TransferNext, transferVars, redis, Server, Reader, Unrecognised, DataRequest, FriendReply,
         Transfer, SendRoom, SendChunk, RoomReply, Expire, OtherSends, OtherDelivers, ReadFriends,
         ReadState, ReadRoom, ReadMessages, SignalMessages, TimeOut, Dialog
<1>3. ASSUME NEW r \in Room, OtherAccepts(r)
      PROVE  chats' # Chats /\ Len(Chats) <= Len(chats')
  <2>1. chats' = Append(chats, r)
    BY <1>3 DEF OtherAccepts
  <2>2. Len(chats') = Len(chats) + 1
    BY <1>1, <2>1
  <2> QED
    BY <1>1, <2>2
<1>4. misread => misread'
  BY DEF TransferNext, transferVars, history, Server, Reader, Unrecognised, DataRequest,
         FriendReply,
         Transfer, SendRoom, SendChunk, RoomReply, Expire, OtherSends, OtherAccepts, OtherDelivers,
         ReadFriends, ReadState, ReadRoom, ReadMessages, SignalMessages, TimeOut, Dialog, Misreads
<1> QED
  BY <1>1, <1>2, <1>3, <1>4 DEF Calm

\* Messages fit anything.
LEMMA MessagesFit ==
  ASSUME NEW m, NEW p, Messages(p)
  PROVE  PacketFits(m, p)
  BY DEF Messages, PacketFits

\* The server answers with one packet, or with none.
LEMMA PacketSent ==
  ASSUME TransferTypeOK, Orderly, Asked,
         toServer' = <<>>, server'.at \notin {"transfer", "room"},
         UNCHANGED <<mine, friends, other>>,
         \/ UNCHANGED toClient
         \/ \E p \in Packet : SendToClient(p) /\ PacketFits(mine, p)
  PROVE  Orderly'
<1>1. \A i \in DOMAIN toClient : Messages(toClient[i])
  BY DEF Orderly, OneAtATime
<1>2. toClient \in Seq(Packet)
  BY DEF TransferTypeOK, UnderWayTyped
<1>3. /\ \A i, j \in DOMAIN toClient' : ~Messages(toClient'[i]) /\ ~Messages(toClient'[j]) => i = j
      /\ \A i \in DOMAIN toClient' : PacketFits(mine, toClient'[i])
  <2>1. CASE UNCHANGED toClient
    BY <1>1, <2>1, MessagesFit
  <2>2. ASSUME NEW p \in Packet, SendToClient(p), PacketFits(mine, p)
        PROVE  <1>3!1 /\ <1>3!2
    <3>1. /\ toClient' \in Seq(Packet)
          /\ Len(toClient') = Len(toClient) + 1
          /\ DOMAIN toClient' = 1..Len(toClient) + 1
          /\ toClient'[Len(toClient) + 1] = p
          /\ \A i \in DOMAIN toClient : toClient'[i] = toClient[i]
      BY <1>2, <2>2 DEF SendToClient
    <3>2. \A i \in DOMAIN toClient' :
             Messages(toClient'[i]) \/ (i = Len(toClient) + 1 /\ toClient'[i] = p)
      BY <1>1, <1>2, <3>1
    <3> QED
      BY <2>2, <3>2, MessagesFit
  <2> QED
    BY <2>1, <2>2
<1>4. ~Asked'
  BY DEF Asked
<1>5. Len(<<>>) = 0 /\ DOMAIN <<>> = {}
  OBVIOUS
<1>6. OneAtATime'
  BY <1>3, <1>4, <1>5 DEF Orderly, OneAtATime
<1>7. InStep'
  BY <1>3, <1>5 DEF InStep, StageFits
<1>8. RoomsInOrder'
  BY DEF Orderly, RoomsInOrder
<1> QED
  BY <1>6, <1>7, <1>8 DEF Orderly

\* The server goes on to the rooms, or to the next one.
LEMMA StageReached ==
  ASSUME TransferTypeOK, Orderly, Asked,
         toServer' = <<>>, StageFits(mine, server'),
         UNCHANGED <<mine, friends, other, toClient>>
  PROVE  Orderly'
<1>1. \A i \in DOMAIN toClient : Messages(toClient[i])
  BY DEF Orderly, OneAtATime
<1>2. Len(<<>>) = 0 /\ DOMAIN <<>> = {}
  OBVIOUS
<1>3. OneAtATime'
  BY <1>1, <1>2 DEF Orderly, OneAtATime
<1>4. InStep'
  BY <1>1, <1>2, MessagesFit DEF InStep
<1>5. RoomsInOrder'
  BY DEF Orderly, RoomsInOrder
<1> QED
  BY <1>3, <1>4, <1>5 DEF Orderly

\* Messages come between the packets of the transfer.
LEMMA MessageSent ==
  ASSUME TransferTypeOK, Orderly,
         UNCHANGED <<mine, friends, toServer>>,
         server' = server \/ (server.at = "messages" /\ server'.at \in {"messages", "idle"}),
         \A i \in DOMAIN other' : Messages(other'[i]),
         \/ UNCHANGED toClient
         \/ \E p \in Packet : SendToClient(p) /\ Messages(p)
  PROVE  Orderly'
<1>1. toClient \in Seq(Packet)
  BY DEF TransferTypeOK, UnderWayTyped
<1>2. \A i \in DOMAIN toClient' :
         \/ i \in DOMAIN toClient /\ toClient'[i] = toClient[i]
         \/ Messages(toClient'[i])
  <2>1. ASSUME NEW p \in Packet, SendToClient(p), Messages(p)
        PROVE  \A i \in DOMAIN toClient' :
                 (i \in DOMAIN toClient /\ toClient'[i] = toClient[i]) \/ toClient'[i] = p
    BY <1>1, <2>1 DEF SendToClient
  <2> QED
    BY <2>1
<1>3. Asked' => Asked
  BY DEF Asked
<1>4. OneAtATime'
  BY <1>2, <1>3 DEF Orderly, OneAtATime
<1>5. StageFits(mine', server')
  BY DEF Orderly, InStep, StageFits
<1>6. InStep'
  BY <1>2, <1>5, MessagesFit DEF Orderly, InStep
<1>7. RoomsInOrder'
  BY DEF Orderly, RoomsInOrder
<1> QED
  BY <1>4, <1>6, <1>7 DEF Orderly

\* The reader takes a packet of the transfer and answers it, or not.
LEMMA Answered ==
  ASSUME TransferTypeOK, Orderly, RoomsInOrder',
         NEW d \in 1..2, Later(d), ~Messages(toClient[1]),
         UNCHANGED <<server, other>>,
         \/ UNCHANGED toServer
         \/ \E a \in Asking : Reply(a) /\ AnswerFits(mine', a)
  PROVE  Orderly'
<1>1. toClient \in Seq(Packet) /\ 1 \in DOMAIN toClient /\ DOMAIN toClient = 1..Len(toClient)
  BY DEF TransferTypeOK, UnderWayTyped, Later
<1>2. \A i \in DOMAIN toClient' : Messages(toClient'[i])
  <2>1. ASSUME NEW i \in DOMAIN toClient' PROVE Messages(toClient'[i])
    <3>1. /\ i \in Nat /\ i >= 1 /\ i + d # 1
          /\ i + d \in DOMAIN toClient /\ toClient'[i] = toClient[i + d]
      BY DEF Later
    <3> QED
      BY <1>1, <3>1 DEF Orderly, OneAtATime
  <2> QED
    BY <2>1
<1>3. ~Asked
  BY <1>1 DEF Orderly, OneAtATime
<1>4. toServer = <<>> /\ server.at \notin {"transfer", "room"}
  BY <1>3 DEF Asked
<1>5. /\ Len(toServer') <= 1
      /\ \A i \in DOMAIN toServer' : AnswerFits(mine', toServer'[i])
  <2>1. CASE UNCHANGED toServer
    BY <1>4, <2>1
  <2>2. ASSUME NEW a \in Asking, Reply(a), AnswerFits(mine', a)
        PROVE  <1>5!1 /\ <1>5!2
    <3>1. toServer' = <<a>>
      BY <1>4, <2>2 DEF Reply
    <3>2. Len(toServer') = 1 /\ DOMAIN toServer' = {1} /\ toServer'[1] = a
      BY <3>1
    <3> QED
      BY <2>2, <3>2
  <2> QED
    BY <2>1, <2>2
<1>6. OneAtATime'
  BY <1>2, <1>4, <1>5 DEF Orderly, OneAtATime
<1>7. InStep'
  BY <1>2, <1>4, <1>5, MessagesFit DEF InStep, StageFits
<1> QED
  BY <1>6, <1>7 DEF Orderly

SameShape(m, k) ==
    /\ m \in Mine /\ k \in Mine
    /\ m.friends = k.friends
    /\ Len(m.rooms) = Len(k.rooms) /\ DOMAIN m.rooms = DOMAIN k.rooms
    /\ \A i \in DOMAIN k.rooms : m.rooms[i].id = k.rooms[i].id

\* Messages do not change what fits.
LEMMA ShapeFits ==
  ASSUME NEW m, NEW k, SameShape(m, k)
  PROVE  /\ \A p : PacketFits(k, p) => PacketFits(m, p)
         /\ \A p : AnswerFits(k, p) => AnswerFits(m, p)
         /\ \A s : StageFits(k, s) => StageFits(m, s)
<1>1. m.rooms \in Seq(RoomKept) /\ k.rooms \in Seq(RoomKept)
  BY DEF SameShape, Mine
<1>2. k.rooms = <<>> => m.rooms = <<>>
  BY <1>1, EmptyIsZero DEF SameShape
<1>3. Len(m.rooms) = Len(k.rooms) /\ m.friends = k.friends
  BY DEF SameShape
<1>4. \A r : (Follows(k, r) => Follows(m, r)) /\ (Confirms(k, r) => Confirms(m, r))
  BY <1>3 DEF Follows, Confirms
<1> QED
  BY <1>2, <1>3, <1>4 DEF PacketFits, AnswerFits, StageFits, NothingYet

\* The reader takes messages.
LEMMA MessageTaken ==
  ASSUME TransferTypeOK, Orderly, SameShape(mine', mine),
         NEW d \in 1..2, Later(d),
         UNCHANGED <<server, other, toServer, friends>>
  PROVE  Orderly'
<1>1. toClient \in Seq(Packet) /\ DOMAIN toClient = 1..Len(toClient)
  BY DEF TransferTypeOK, UnderWayTyped
<1>2. \A i \in DOMAIN toClient' : i + d \in DOMAIN toClient /\ toClient'[i] = toClient[i + d]
  BY DEF Later
<1>3. \A i, j \in DOMAIN toClient' : i + d = j + d => i = j
  BY DEF Later
<1>4. OneAtATime'
  BY <1>2, <1>3 DEF Orderly, OneAtATime, Asked
<1>5. InStep'
  BY <1>2, ShapeFits DEF Orderly, InStep
<1>6. RoomsInOrder'
  BY DEF Orderly, RoomsInOrder, SameShape
<1> QED
  BY <1>4, <1>5, <1>6 DEF Orderly

\* The server's answers keep the order of the transfer.
LEMMA ServerOrderly ==
  ASSUME TransferTypeOK, Calm, Calm', Orderly, Unrecognised \/ DataRequest \/ FriendReply
  PROVE  Orderly'
<1>1. /\ toServer \in Seq(Asking) /\ toServer # <<>> /\ Len(toServer) <= 1
      /\ server = Idle /\ Idle.at = "idle"
      /\ toServer' = Tail(toServer)
  BY StagesMade DEF TransferTypeOK, UnderWayTyped, Orderly, OneAtATime, Unrecognised, DataRequest,
                    FriendReply, Receives
<1>2. toServer' = <<>> /\ Asked /\ Head(toServer) = toServer[1] /\ 1 \in DOMAIN toServer
  BY <1>1, OneElement DEF Asked
<1>3. AnswerFits(mine, Head(toServer)) /\ Head(toServer) \in Asking
  BY <1>1, <1>2 DEF Orderly, InStep
<1>4. friends \in Nat /\ friends = Friends
  BY DEF TransferTypeOK, RedisTyped, Orderly, RoomsInOrder
<1>5. CASE Unrecognised
  <2>1. PICK w \in {"data;fail", "frnd;fail", "room;fail"} :
          SendToClient(State(w)) /\ (w = "data;fail" => Head(toServer).type = "data")
    BY <1>3, <1>5, AskingShapes DEF Unrecognised
  <2>2. State(w) \in Packet /\ State(w).type = w
    BY PacketsMade
  <2>3. PacketFits(mine, State(w))
    BY <1>3, <2>1, <2>2 DEF PacketFits, AnswerFits
  <2>4. UNCHANGED <<mine, friends, other, server>>
    BY <1>5 DEF Unrecognised, redis, client
  <2> QED
    BY <1>1, <1>2, <2>1, <2>2, <2>3, <2>4, PacketSent
<1>6. CASE DataRequest
  <2>1. Head(toServer).type = "data"
    BY <1>6 DEF DataRequest, Receives
  <2>2. NothingYet(mine)
    BY <1>3, <2>1 DEF AnswerFits
  <2>3. SendToClient(Frnd(friends)) \/ SendToClient(State("data;fail")) \/ UNCHANGED toClient
    BY <1>6 DEF DataRequest
  <2>4. /\ Frnd(friends) \in Packet /\ PacketFits(mine, Frnd(friends))
        /\ State("data;fail") \in Packet /\ PacketFits(mine, State("data;fail"))
    BY <1>4, <2>2, PacketsMade DEF PacketFits
  <2>5. UNCHANGED <<mine, friends, other, server>>
    BY <1>6 DEF DataRequest, client
  <2> QED
    BY <1>1, <1>2, <2>3, <2>4, <2>5, PacketSent
<1>7. CASE FriendReply
  <2>1. Head(toServer).type = "frnd"
    BY <1>7 DEF FriendReply, Receives
  <2>2. mine.rooms = <<>> /\ (~Head(toServer).ok => NothingYet(mine))
    BY <1>3, <2>1 DEF AnswerFits, NothingYet
  <2>3. UNCHANGED <<mine, friends, other>>
    BY <1>7 DEF FriendReply, client
  <2>4. CASE server' = [at |-> "transfer"] /\ UNCHANGED toClient
    <3>1. StageFits(mine, server')
      BY <2>2, <2>4 DEF StageFits
    <3> QED
      BY <1>2, <2>3, <2>4, <3>1, StageReached
  <2>5. CASE /\ UNCHANGED server
             /\ ~Head(toServer).ok
             /\ \/ SendToClient(Frnd(friends))
                \/ SendToClient(State("frnd;fail"))
                \/ UNCHANGED toClient
    <3>1. /\ Frnd(friends) \in Packet /\ PacketFits(mine, Frnd(friends))
          /\ State("frnd;fail") \in Packet /\ PacketFits(mine, State("frnd;fail"))
      BY <1>4, <2>2, <2>5, PacketsMade DEF PacketFits
    <3> QED
      BY <1>1, <1>2, <2>3, <2>5, <3>1, PacketSent
  <2> QED
    BY <1>7, <2>4, <2>5 DEF FriendReply
<1> QED
  BY <1>5, <1>6, <1>7

\* The rooms keep the order of the transfer.
LEMMA RoomsOrderly ==
  ASSUME TransferTypeOK, Calm, Calm', Orderly, Transfer \/ SendRoom \/ SendChunk \/ RoomReply
  PROVE  Orderly'
<1>1. chats = Chats /\ toServer \in Seq(Asking) /\ stored \in [Room -> Seq(Text)]
  BY DEF Calm, TransferTypeOK, UnderWayTyped, RedisTyped
<1>2. Idle.at = "idle"
  BY StagesMade
<1>3. CASE Transfer
  <2>1. Asked /\ toServer' = <<>> /\ mine.rooms = <<>>
    BY <1>3 DEF Transfer, Asked, Orderly, OneAtATime, InStep, StageFits
  <2>2. UNCHANGED <<mine, friends, other>>
    BY <1>3 DEF Transfer, client
  <2>3. CASE server' = Idle /\ (SendToClient(State("room;ok")) \/ UNCHANGED toClient)
    <3>1. State("room;ok") \in Packet /\ PacketFits(mine, State("room;ok"))
      BY PacketsMade DEF PacketFits
    <3> QED
      BY <1>2, <2>1, <2>2, <2>3, <3>1, PacketSent
  <2>4. CASE chats # <<>> /\ server' = [at |-> "room", room |-> chats[1]] /\ UNCHANGED toClient
    <3>1. 1 \in DOMAIN Chats
      BY <1>1, <2>4, RoomAssumption
    <3>2. Pos(Chats[1]) = 1 /\ Chats[1] \in Range(Chats) /\ Len(mine.rooms) = 0
      BY <2>1, <3>1, Positions
    <3>3. server'.at = "room" /\ server'.room = Chats[1]
      BY <1>1, <2>4
    <3>4. StageFits(mine, server')
      BY <3>2, <3>3 DEF StageFits, Follows
    <3> QED
      BY <2>1, <2>2, <2>4, <3>4, StageReached
  <2> QED
    BY <1>3, <2>3, <2>4 DEF Transfer
<1>4. CASE SendRoom
  <2> DEFINE r == server.room
  <2>1. server.at = "room" /\ r \in Room /\ Asked /\ toServer' = <<>> /\ Follows(mine, r)
    <3>1. server.at = "room" /\ UNCHANGED toServer
      BY <1>4 DEF SendRoom
    <3>2. r \in Room
      BY <3>1, StageShapes DEF TransferTypeOK, UnderWayTyped
    <3> QED
      BY <3>1, <3>2 DEF Asked, Orderly, OneAtATime, InStep, StageFits
  <2>2. UNCHANGED <<mine, friends, other>>
    BY <1>4 DEF SendRoom, client
  <2>3. server' = Idle \/ server' = [at |-> "messages", left |-> Chunks(r)]
    BY <1>4 DEF SendRoom
  <2>4. server'.at \notin {"transfer", "room"}
    BY <1>2, <2>3
  <2>5. SendToClient(RoomPacket(r)) \/ SendToClient(NoSuch(r))
    BY <1>4 DEF SendRoom
  <2>6. /\ RoomPacket(r) \in Packet /\ PacketFits(mine, RoomPacket(r))
        /\ NoSuch(r) \in Packet /\ PacketFits(mine, NoSuch(r))
    <3>1. /\ RoomPacket(r) \in Packet /\ RoomPacket(r).type = "room" /\ RoomPacket(r).id = r
          /\ NoSuch(r) \in Packet /\ NoSuch(r).type = "room;id;fail"
      BY <1>1, <2>1, RoomPacketMade, PacketsMade
    <3> QED
      BY <2>1, <3>1 DEF PacketFits
  <2> QED
    BY <2>1, <2>2, <2>4, <2>5, <2>6, PacketSent
<1>5. CASE SendChunk
  <2>1. server.at = "messages" /\ server.left \in Seq(RmsgP) /\ server.left # <<>>
    BY <1>5, StageShapes DEF SendChunk, TransferTypeOK, UnderWayTyped
  <2>2. Head(server.left) \in RmsgP
    BY <2>1
  <2>3. /\ Head(server.left) \in Packet /\ Messages(Head(server.left))
        /\ SendToClient(Head(server.left))
    BY <1>5, <2>2, RmsgShapes DEF Messages, SendChunk
  <2>4. server'.at \in {"messages", "idle"}
    <3>1. server' = Idle \/ server' = [server EXCEPT !.left = Tail(server.left)]
      BY <1>5 DEF SendChunk
    <3> QED
      BY <1>2, <2>1, <3>1 DEF TransferTypeOK, UnderWayTyped, Stages
  <2>5. UNCHANGED <<mine, friends, toServer, other>>
    BY <1>5 DEF SendChunk, redis, client
  <2>6. \A i \in DOMAIN other' : Messages(other'[i])
    BY <2>5 DEF Orderly, OneAtATime
  <2> QED
    BY <2>1, <2>3, <2>4, <2>5, <2>6, MessageSent
<1>6. CASE RoomReply
  <2>1. /\ Head(toServer) \in Asking /\ Head(toServer).type = "room"
        /\ toServer # <<>> /\ server = Idle
        /\ Head(toServer) = toServer[1]
        /\ toServer' = Tail(toServer)
    BY <1>6, ReceivesTyped DEF RoomReply, TransferTypeOK
  <2>2. toServer' = <<>> /\ Asked /\ 1 \in DOMAIN toServer
    BY <1>1, <2>1, OneElement DEF Asked, Orderly, OneAtATime
  <2>3. AnswerFits(mine, Head(toServer))
    BY <2>1, <2>2 DEF Orderly, InStep
  <2>4. UNCHANGED <<mine, friends, other>>
    BY <1>6 DEF RoomReply, redis, client
  <2> DEFINE id == Head(toServer).id
  <2>5. id \in Room \cup {NoRoom}
    BY <2>1, AskingShapes
  <2>6. \/ /\ UNCHANGED server
           /\ \/ SendToClient(State("room;fail"))
              \/ SendToClient(NoSuch(id))
              \/ SendToClient(State("room;ok"))
        \/ /\ Head(toServer).ok /\ NextRoom(id) \in Room
           /\ server' = [at |-> "room", room |-> NextRoom(id)] /\ UNCHANGED toClient
    <3>1. PICK n \in Confirmed :
        \/ /\ IF n = Head(toServer).id THEN UNCHANGED <<faults, misread>> ELSE Misreads
           /\ \/ /\ SendToClient(State("room;fail")) /\ UNCHANGED server
              \/ /\ SendToClient(NoSuch(n)) /\ UNCHANGED server
              \/ /\ SendToClient(State("room;ok")) /\ UNCHANGED server
              \/ /\ Head(toServer).ok /\ NextRoom(n) \in Room
                 /\ server' = [at |-> "room", room |-> NextRoom(n)]
                 /\ UNCHANGED toClient
        \/ n = Head(toServer).id /\ SendToClient(NoSuch(n)) /\ UNCHANGED server
      BY <1>6 DEF RoomReply
    <3>2. ~Misreads
      BY DEF Calm, Misreads
    <3>3. n = id
      BY <3>1, <3>2
    <3> QED
      BY <3>1, <3>3
  <2>7. CASE /\ UNCHANGED server
             /\ \/ SendToClient(State("room;fail"))
                \/ SendToClient(NoSuch(id))
                \/ SendToClient(State("room;ok"))
    <3>1. /\ State("room;fail") \in Packet /\ PacketFits(mine, State("room;fail"))
          /\ State("room;ok") \in Packet /\ PacketFits(mine, State("room;ok"))
          /\ NoSuch(id) \in Packet /\ PacketFits(mine, NoSuch(id))
      BY <2>5, PacketsMade DEF PacketFits
    <3> QED
      BY <1>2, <2>1, <2>2, <2>4, <2>7, <3>1, PacketSent
  <2>8. CASE /\ Head(toServer).ok /\ NextRoom(id) \in Room
             /\ server' = [at |-> "room", room |-> NextRoom(id)] /\ UNCHANGED toClient
    <3>1. Confirms(mine, id)
      BY <2>1, <2>3, <2>8 DEF AnswerFits
    <3>2. NextRoom(id) \in Range(Chats) /\ Pos(NextRoom(id)) = Pos(id) + 1
      BY <1>1, <2>8, NextRoomIsNext
    <3>3. Pos(id) \in Nat /\ RoomMax \in Nat
      BY <3>1, Positions, RoomAssumption DEF Confirms
    <3>4. Follows(mine, NextRoom(id))
      BY <3>1, <3>2, <3>3 DEF Confirms, Follows
    <3>5. server'.at = "room" /\ server'.room = NextRoom(id)
      BY <2>8
    <3>6. StageFits(mine, server')
      BY <3>4, <3>5 DEF StageFits
    <3> QED
      BY <2>2, <2>4, <2>8, <3>6, StageReached
  <2> QED
    BY <2>6, <2>7, <2>8
<1> QED
  BY <1>3, <1>4, <1>5, <1>6

\* Friends come before rooms, once.
LEMMA FriendsOrderly ==
  ASSUME TransferTypeOK, Calm, Calm', Orderly, ReadFriends
  PROVE  Orderly'
<1> DEFINE p == toClient[1]
<1>1. /\ toClient \in Seq(Packet) /\ toClient # <<>> /\ mine \in Mine /\ ClientTyped
      /\ toServer \in Seq(Asking)
  BY MineTyped DEF ReadFriends, Incoming, TransferTypeOK, UnderWayTyped
<1>2. p \in Packet /\ 1 \in DOMAIN toClient /\ p.type = "frnd" /\ Taken /\ FriendsRead(p.n)
  BY <1>1, LaterMade DEF ReadFriends, Incoming
<1>3. PICK d \in 1..2 : Later(d)
  BY <1>1, <1>2, TakenLater
<1>4. p.n \in Nat /\ ~Messages(p)
  BY <1>2, PacketShapes DEF Messages
<1>5. NothingYet(mine) /\ p.n = Friends
  BY <1>2 DEF Orderly, InStep, PacketFits
<1>6. FriendsTaken(p.n) /\ mine' \in Mine /\ mine'.rooms = mine.rooms
  BY <1>1, <1>2, <1>4, FriendsReadMade
<1>7. /\ mine' = mine \/ mine'.friends = Friends
      /\ mine'.friends \in {0, Friends}
  <2>1. [mine EXCEPT !.friends = @ + p.n].friends = mine.friends + p.n
    BY <1>1, <1>4, MineMade
  <2>2. mine' = mine \/ mine'.friends = mine.friends + p.n
    BY <1>6, <2>1, Zenon DEF FriendsTaken
  <2>3. mine.friends = 0 /\ Friends \in Nat
    BY <1>5, RoomAssumption DEF NothingYet
  <2> QED
    BY <1>5, <2>2, <2>3
<1>8. UNCHANGED <<friends, server, other>>
  BY DEF ReadFriends, redis
<1>9. RoomsInOrder'
  BY <1>6, <1>7, <1>8 DEF Orderly, RoomsInOrder
<1>10. \/ UNCHANGED toServer
       \/ \E a \in Asking : Reply(a) /\ AnswerFits(mine', a)
  <2>1. mine.keyed \in BOOLEAN /\ TRUE \in BOOLEAN /\ FALSE \in BOOLEAN
    BY <1>1 DEF Mine
  <2> DEFINE a(ok) == [type |-> "frnd", ok |-> ok, keyed |-> mine.keyed]
  <2>2. a(TRUE) \in Asking /\ a(FALSE) \in Asking
    BY <2>1, AnswersMade
  <2>3. mine'.rooms = <<>>
    BY <1>5, <1>6 DEF NothingYet
  <2>4. a(TRUE).type = "frnd" /\ a(TRUE).ok /\ a(FALSE).type = "frnd"
    OBVIOUS
  <2>5. AnswerFits(mine', a(TRUE))
    BY <2>3, <2>4 DEF AnswerFits
  <2>6. mine' = mine => AnswerFits(mine', a(FALSE))
    BY <1>5, <2>3, <2>4 DEF AnswerFits, NothingYet
  <2>7. /\ FriendReplied(TRUE) => Reply(a(TRUE))
        /\ FriendReplied(FALSE) => Reply(a(FALSE))
    BY DEF FriendReplied
  <2>8. UNCHANGED toServer \/ (mine' = mine /\ FriendReplied(FALSE)) \/ FriendReplied(TRUE)
    BY <1>6 DEF FriendsTaken
  <2> HIDE DEF a
  <2> QED
    BY <2>2, <2>5, <2>6, <2>7, <2>8
<1> QED
  BY <1>3, <1>4, <1>8, <1>9, <1>10, Answered

\* A state word drops everything, ends the transfer or asks again.
LEMMA StateOrderly ==
  ASSUME TransferTypeOK, Calm, Calm', Orderly, ReadState
  PROVE  Orderly'
<1> DEFINE p == toClient[1]
<1>1. /\ toClient \in Seq(Packet) /\ toClient # <<>> /\ mine \in Mine
      /\ toServer \in Seq(Asking) /\ toClient' = Tail(toClient)
  BY MineTyped DEF ReadState, TransferTypeOK, UnderWayTyped
<1>2. p \in Packet /\ 1 \in DOMAIN toClient /\ Later(1) /\ p = Head(toClient)
  BY <1>1, LaterMade
<1> 1 \in 1..2
  OBVIOUS
<1>3. ~Misreads
  BY DEF Calm, Misreads
<1>4. \/ p.type \in {"frnd;fail", "room;fail"} /\ Dropped /\ UNCHANGED toServer
      \/ p.type = "room;ok" /\ UNCHANGED <<mine, toServer>>
      \/ p.type = "data;fail" /\ DataAsked /\ UNCHANGED mine
      \/ p.type = "room;id;fail" /\ RoomReplied(p.id, FALSE) /\ UNCHANGED mine
  BY <1>2, <1>3 DEF ReadState
<1>5. ~Messages(p)
  BY <1>4 DEF Messages
<1>6. UNCHANGED <<friends, server, other>>
  BY DEF ReadState, redis
<1>7. mine.keyed \in BOOLEAN /\ FALSE \in BOOLEAN
  BY <1>1 DEF Mine
<1>8. CASE p.type \in {"frnd;fail", "room;fail"} /\ Dropped /\ UNCHANGED toServer
  <2>1. mine'.friends = 0 /\ mine'.rooms = <<>>
    BY <1>8 DEF Dropped, Free
  <2>2. Len(<<>>) = 0 /\ DOMAIN <<>> = {} /\ Len(Chats) \in Nat
    BY RoomAssumption
  <2>3. RoomsInOrder'
    BY <1>6, <2>1, <2>2 DEF Orderly, RoomsInOrder
  <2> QED
    BY <1>2, <1>5, <1>6, <1>8, <2>3, Answered
<1>9. CASE p.type = "room;ok" /\ UNCHANGED <<mine, toServer>>
  <2>1. RoomsInOrder'
    BY <1>6, <1>9 DEF Orderly, RoomsInOrder
  <2> QED
    BY <1>2, <1>5, <1>6, <1>9, <2>1, Answered
<1>10. CASE p.type = "data;fail" /\ DataAsked /\ UNCHANGED mine
  <2>1. RoomsInOrder'
    BY <1>6, <1>10 DEF Orderly, RoomsInOrder
  <2> DEFINE a == [type |-> "data", keyed |-> mine.keyed]
  <2>2. a \in Asking /\ a.type = "data" /\ Reply(a)
    BY <1>7, <1>10, AnswersMade DEF DataAsked
  <2>3. NothingYet(mine)
    BY <1>2, <1>10 DEF Orderly, InStep, PacketFits
  <2> HIDE DEF a
  <2>4. AnswerFits(mine', a)
    BY <1>10, <2>2, <2>3 DEF AnswerFits
  <2> QED
    BY <1>2, <1>5, <1>6, <2>1, <2>2, <2>4, Answered
<1>11. CASE p.type = "room;id;fail" /\ RoomReplied(p.id, FALSE) /\ UNCHANGED mine
  <2>1. RoomsInOrder'
    BY <1>6, <1>11 DEF Orderly, RoomsInOrder
  <2> DEFINE a == [type |-> "room", id |-> p.id, ok |-> FALSE, keyed |-> mine.keyed]
  <2>2. a \in Asking /\ a.type = "room" /\ ~a.ok /\ Reply(a)
    BY <1>2, <1>7, <1>11, PacketShapes, AnswersMade DEF RoomReplied
  <2> HIDE DEF a
  <2>3. AnswerFits(mine', a)
    BY <2>2 DEF AnswerFits
  <2> QED
    BY <1>2, <1>5, <1>6, <2>1, <2>2, <2>3, Answered
<1> QED
  BY <1>4, <1>8, <1>9, <1>10, <1>11

\* A room that is not full of rooms takes the next one at its end.
LEMMA RoomTaken ==
  ASSUME mine \in Mine, NEW p \in Packet, p.type = "room",
         mine' = AddedRoom(p.id, p.amount)
  PROVE  /\ mine' \in Mine
         /\ mine'.friends = mine.friends
         /\ Len(mine.rooms) = RoomMax => mine' = mine
         /\ Len(mine.rooms) # RoomMax =>
              /\ Len(mine'.rooms) = Len(mine.rooms) + 1
              /\ DOMAIN mine'.rooms = 1..Len(mine.rooms) + 1
              /\ mine'.rooms[Len(mine.rooms) + 1].id = p.id
              /\ mine'.rooms[Len(mine.rooms) + 1].msgs = <<>>
              /\ \A i \in DOMAIN mine.rooms : mine'.rooms[i] = mine.rooms[i]
<1>1. p.id \in Room /\ p.amount \in Nat
  BY PacketShapes
<1> DEFINE e == [id |-> p.id, amount |-> p.amount, msgs |-> <<>>]
<1>2. /\ mine' \in Mine
      /\ mine'.friends = mine.friends
      /\ Len(mine.rooms) = RoomMax => mine' = mine
      /\ Len(mine.rooms) # RoomMax => mine'.rooms = Append(mine.rooms, e)
  BY <1>1, AddedRoomMade
<1>3. e.id = p.id /\ e.msgs = <<>> /\ mine.rooms \in Seq(RoomKept)
  BY DEF Mine
<1> HIDE DEF e
<1> QED
  BY <1>2, <1>3

\* A room is the next one.
LEMMA RoomOrderly ==
  ASSUME TransferTypeOK, Calm, Calm', Orderly, ReadRoom
  PROVE  Orderly'
<1> DEFINE p == toClient[1]
<1>1. /\ toClient \in Seq(Packet) /\ toClient # <<>> /\ mine \in Mine
      /\ toServer \in Seq(Asking)
  BY MineTyped DEF ReadRoom, Incoming, TransferTypeOK, UnderWayTyped
<1>2. p \in Packet /\ 1 \in DOMAIN toClient /\ p.type = "room" /\ Taken /\ p = Head(toClient)
  BY <1>1, LaterMade DEF ReadRoom, Incoming
<1>3. PICK d \in 1..2 : Later(d)
  BY <1>1, <1>2, TakenLater
<1>4. ~Messages(p) /\ p.id \in Room
  BY <1>2, PacketShapes DEF Messages
<1>5. Follows(mine, p.id)
  BY <1>2 DEF Orderly, InStep, PacketFits
<1>6. /\ mine' = AddedRoom(p.id, p.amount)
      /\ UNCHANGED toServer \/ RoomReplied(p.id, TRUE)
      /\ UNCHANGED <<friends, server, other>>
  BY <1>2 DEF ReadRoom, redis
<1> DEFINE n == Len(mine.rooms)
<1>7. /\ mine' \in Mine
      /\ mine'.friends = mine.friends
      /\ n = RoomMax => mine' = mine
      /\ n # RoomMax =>
           /\ Len(mine'.rooms) = n + 1
           /\ DOMAIN mine'.rooms = 1..n + 1
           /\ mine'.rooms[n + 1].id = p.id
           /\ \A i \in DOMAIN mine.rooms : mine'.rooms[i] = mine.rooms[i]
  BY <1>1, <1>2, <1>6, RoomTaken
<1>8. n \in Nat /\ DOMAIN mine.rooms = 1..n
  BY <1>1 DEF Mine
<1>9. Pos(p.id) \in DOMAIN Chats /\ Chats[Pos(p.id)] = p.id /\ DOMAIN Chats = 1..Len(Chats)
      /\ p.id \in Range(Chats) /\ Len(Chats) \in Nat /\ RoomMax \in Nat
  BY <1>5, Positions, RoomAssumption DEF Follows
<1>10. RoomsInOrder'
  <2>1. CASE n = RoomMax
    BY <1>6, <1>7, <2>1 DEF Orderly, RoomsInOrder
  <2>2. CASE n # RoomMax
    <3>1. Pos(p.id) = n + 1
      BY <1>5, <2>2 DEF Follows
    <3>2. n + 1 <= Len(Chats)
      BY <1>8, <1>9, <3>1
    <3>3. \A i \in DOMAIN mine'.rooms : mine'.rooms[i].id = Chats[i]
      <4>1. \A i \in DOMAIN mine'.rooms : i \in DOMAIN mine.rooms \/ i = n + 1
        BY <1>7, <1>8, <2>2
      <4>2. \A i \in DOMAIN mine.rooms : mine'.rooms[i].id = Chats[i]
        BY <1>7, <2>2 DEF Orderly, RoomsInOrder
      <4>3. mine'.rooms[n + 1].id = Chats[n + 1]
        BY <1>7, <1>9, <2>2, <3>1
      <4> QED
        BY <4>1, <4>2, <4>3
    <3> QED
      BY <1>6, <1>7, <2>2, <3>2, <3>3 DEF Orderly, RoomsInOrder
  <2> QED
    BY <2>1, <2>2
<1>11. \/ UNCHANGED toServer
       \/ \E a \in Asking : Reply(a) /\ AnswerFits(mine', a)
  <2> DEFINE a == [type |-> "room", id |-> p.id, ok |-> TRUE, keyed |-> mine.keyed]
  <2>1. mine.keyed \in BOOLEAN /\ TRUE \in BOOLEAN
    BY <1>1 DEF Mine
  <2>2. a \in Asking /\ a.type = "room" /\ a.id = p.id
    BY <1>4, <2>1, AnswersMade
  <2>3. RoomReplied(p.id, TRUE) => Reply(a)
    BY DEF RoomReplied
  <2> HIDE DEF a
  <2>4. Confirms(mine', p.id)
    BY <1>5, <1>7, <1>8, <1>9 DEF Follows, Confirms
  <2>5. AnswerFits(mine', a)
    BY <2>2, <2>4 DEF AnswerFits
  <2> QED
    BY <1>6, <2>2, <2>3, <2>5
<1> QED
  BY <1>3, <1>4, <1>6, <1>10, <1>11, Answered

\* Messages change neither the rooms nor their order.
LEMMA ReadKeepsShape ==
  ASSUME mine \in Mine, NEW p, Skipped(p) \/ Gained(p) \/ Grown(p)
  PROVE  SameShape(mine', mine)
<1>1. CASE Skipped(p)
  BY <1>1 DEF Skipped, SameShape
<1>2. CASE Gained(p)
  BY <1>2 DEF Gained, SameRooms, SameShape
<1>3. CASE Grown(p)
  BY <1>3 DEF Grown, SameRooms, SameShape
<1> QED
  BY <1>1, <1>2, <1>3

\* While nobody becomes a friend, every step keeps the order.
LEMMA OrderlyStays ==
  ASSUME TransferTypeOK, Len(Chats) <= Len(chats), [TransferNext]_transferVars, Calm => Orderly
  PROVE  Calm' => Orderly'
<1> SUFFICES ASSUME Calm' PROVE Orderly'
  OBVIOUS
<1>1. Calm /\ Orderly /\ \A r \in Room : ~OtherAccepts(r)
  BY ChatsGrow
<1>2. CASE UNCHANGED <<friends, server, other, toClient, toServer, mine>>
  BY <1>1, <1>2 DEF Orderly, OneAtATime, Asked, InStep, RoomsInOrder
<1>3. CASE Server
  BY <1>1, <1>3, ServerOrderly, RoomsOrderly DEF Server
<1>4. CASE ReadFriends \/ ReadState \/ ReadRoom
  BY <1>1, <1>4, FriendsOrderly, StateOrderly, RoomOrderly
<1>5. CASE ReadMessages
  <2>1. mine \in Mine
    BY MineTyped DEF TransferTypeOK
  <2>2. /\ \E d \in 1..2 : Later(d)
        /\ Skipped(toClient[1]) \/ Gained(toClient[1]) \/ Grown(toClient[1])
    BY <1>5, <2>1, MessagesRead DEF TransferTypeOK
  <2>3. SameShape(mine', mine)
    BY <2>1, <2>2, ReadKeepsShape
  <2>4. UNCHANGED <<server, other, toServer, friends>>
    BY <1>5 DEF ReadMessages, redis
  <2> QED
    BY <1>1, <2>2, <2>3, <2>4, MessageTaken
<1>6. ASSUME NEW r \in Room, OtherSends(r) PROVE Orderly'
  <2>1. other' = <<Rmsg(r, <<[n |-> Len(stored[r]) + 1, split |-> FALSE]>>, TRUE)>>
    BY <1>6 DEF OtherSends
  <2>2. \A i \in DOMAIN other' : Messages(other'[i])
    BY <2>1 DEF Rmsg, Messages
  <2>3. UNCHANGED <<mine, friends, toServer, server, toClient>>
    BY <1>6 DEF OtherSends, client
  <2> QED
    BY <1>1, <2>2, <2>3, MessageSent
<1>7. CASE OtherDelivers
  <2>1. other # <<>> /\ other \in Seq(Packet)
    BY <1>7 DEF OtherDelivers, TransferTypeOK, UnderWayTyped
  <2>2. /\ Head(other) \in Packet /\ Head(other) = other[1] /\ 1 \in DOMAIN other
        /\ Tail(other) \in Seq(Packet)
        /\ \A i \in DOMAIN Tail(other) : Tail(other)[i] = other[i + 1] /\ i + 1 \in DOMAIN other
    BY <2>1
  <2>3. Messages(Head(other)) /\ \A i \in DOMAIN other' : Messages(other'[i])
    BY <1>1, <1>7, <2>2 DEF OtherDelivers, Orderly, OneAtATime
  <2>4. UNCHANGED toClient \/ SendToClient(Head(other))
    BY <1>7 DEF OtherDelivers, SendToClient
  <2>5. UNCHANGED <<mine, friends, toServer, server>>
    BY <1>7 DEF OtherDelivers, redis, client
  <2> QED
    BY <1>1, <2>2, <2>3, <2>4, <2>5, MessageSent
<1>8. ASSUME SignalMessages \/ TimeOut \/ Dialog \/ Expire \/ UNCHANGED transferVars
      PROVE  UNCHANGED <<friends, server, other, toClient, toServer, mine>>
  BY <1>8 DEF SignalMessages, TimeOut, Dialog, Expire, transferVars, redis, client
<1> QED
  BY <1>1, <1>2, <1>3, <1>4, <1>5, <1>6, <1>7, <1>8 DEF TransferNext, Reader

-----------------------------------------------------------------------------
(* Messages, when nobody else does anything.                               *)

\* Taking packets only helps.
LEMMA UpToLater ==
  ASSUME NEW d \in 1..2, Later(d)
  PROVE  \A l, k : UpTo(toClient, l, k) => UpTo(toClient', l, k)
  BY DEF UpTo, Later

\* The packets of the next room.
NewLeft(l) ==
    /\ \A i \in DOMAIN l : Chunk(stored, mine, l[i]) /\ l[i].id = l[1].id
    /\ \A i \in DOMAIN l : l[i].aligned =>
         /\ i = 1
         /\ \A j \in DOMAIN toClient : Messages(toClient[j]) => toClient[j].id # l[1].id

\* A server that is not sending messages has none left.
LEMMA NothingLeft ==
  /\ NewLeft(<<>>)
  /\ server.at # "messages" => LeftOf(server) = <<>>
  BY DEF NewLeft, LeftOf

\* The server sends a packet of the transfer, or goes on.
LEMMA SentRead ==
  ASSUME TransferTypeOK, Orderly, Read, Asked,
         toServer' = <<>>, UNCHANGED <<mine, stored, login, chats, other>>,
         LeftOf(server) = <<>>, NewLeft(LeftOf(server')),
         \/ UNCHANGED toClient
         \/ \E p \in Packet : /\ SendToClient(p) /\ ~Messages(p)
                              /\ Carries(p) => UpTo(toClient, LeftOf(server'), AnswerAt(p)),
         server'.at = "transfer" => UpTo(toClient, <<>>, 0) /\ UNCHANGED toClient,
         server'.at = "room" => UpTo(toClient, <<>>, Pos(server'.room) - 1) /\ UNCHANGED toClient
  PROVE  Read'
<1> DEFINE l == LeftOf(server')
<1>1. /\ toClient \in Seq(Packet) /\ DOMAIN toClient = 1..Len(toClient) /\ Len(toClient) \in Nat
      /\ \A i \in DOMAIN toClient : Messages(toClient[i])
  BY DEF TransferTypeOK, UnderWayTyped, Orderly, OneAtATime
<1>2. /\ DOMAIN toClient \subseteq DOMAIN toClient'
      /\ \A i \in DOMAIN toClient : toClient'[i] = toClient[i]
      /\ \A i \in DOMAIN toClient' : i \in DOMAIN toClient
           \/ /\ ~Messages(toClient'[i])
              /\ Carries(toClient'[i]) => UpTo(toClient, l, AnswerAt(toClient'[i]))
  <2>1. CASE UNCHANGED toClient
    BY <2>1
  <2>2. ASSUME NEW p \in Packet, SendToClient(p), ~Messages(p),
               Carries(p) => UpTo(toClient, LeftOf(server'), AnswerAt(p))
        PROVE  <1>2!1 /\ <1>2!2 /\ <1>2!3
    <3>1. /\ toClient' \in Seq(Packet)
          /\ Len(toClient') = Len(toClient) + 1
          /\ DOMAIN toClient' = 1..Len(toClient) + 1
          /\ toClient'[Len(toClient) + 1] = p
          /\ \A i \in DOMAIN toClient : toClient'[i] = toClient[i]
      <4>1. toClient' = Append(toClient, p) /\ toClient \in Seq(Packet)
        BY <1>1, <2>2 DEF SendToClient
      <4> QED
        BY <4>1
    <3>2. \A i \in DOMAIN toClient' : i \in DOMAIN toClient \/ toClient'[i] = p
      BY <1>1, <3>1
    <3>3. DOMAIN toClient \subseteq DOMAIN toClient'
      BY <1>1, <3>1
    <3> QED
      BY <2>2, <3>1, <3>2, <3>3
  <2> QED
    BY <2>1, <2>2
<1> HIDE DEF l
<1>3. \A i \in DOMAIN toClient' :
         Messages(toClient'[i]) => i \in DOMAIN toClient /\ toClient'[i] = toClient[i]
  BY <1>2
<1>4. \A k : UpTo(toClient, l, k) => UpTo(toClient', l, k)
  BY <1>3 DEF UpTo
<1>5. DOMAIN <<>> = {}
  OBVIOUS
<1>6. ChunksSound'
  BY <1>3 DEF Read, ChunksSound, NewLeft, l
<1>7. FirstComesFirst'
  <2>1. \A i, j \in DOMAIN toClient' :
         i < j /\ Messages(toClient'[i]) /\ Messages(toClient'[j]) /\ toClient'[j].aligned
           => toClient'[i].id # toClient'[j].id
    BY <1>3 DEF Read, FirstComesFirst
  <2>2. \A i \in DOMAIN l :
         /\ l[i].id = l[1].id
         /\ l[i].aligned =>
              /\ i = 1
              /\ \A j \in DOMAIN toClient' : Messages(toClient'[j]) => toClient'[j].id # l[1].id
    BY <1>3 DEF NewLeft, l
  <2> QED
    BY <2>1, <2>2 DEF FirstComesFirst, l
<1>8. RoomsAhead'
  <2>1. \A i \in DOMAIN toClient' :
           Carries(toClient'[i]) => UpTo(toClient', l, AnswerAt(toClient'[i]))
    <3>1. \A i \in DOMAIN toClient' : Carries(toClient'[i]) => ~Messages(toClient'[i])
      BY DEF Carries, Messages
    <3>2. \A i \in DOMAIN toClient' : Carries(toClient'[i]) => i \notin DOMAIN toClient
      BY <1>1, <1>2, <3>1
    <3> QED
      BY <1>2, <1>4, <3>2
  <2> QED
    BY <1>5, <2>1 DEF RoomsAhead, l
<1>9. HistoriesRead' /\ Undisturbed'
  BY DEF Read, HistoriesRead, Undisturbed
<1> QED
  BY <1>6, <1>7, <1>8, <1>9 DEF Read

\* The reader takes a packet of the transfer: it may get a room without
\* messages, and lose all rooms.
LEMMA AnsweredRead ==
  ASSUME TransferTypeOK, Orderly, Read,
         NEW d \in 1..2, Later(d), ~Messages(toClient[1]), mine' \in Mine,
         UNCHANGED <<server, stored, chats, other>>, login'.pending = login.pending,
         \A i \in DOMAIN mine'.rooms :
            \/ mine'.rooms[i].msgs = <<>>
            \/ i \in DOMAIN mine.rooms /\ mine'.rooms[i] = mine.rooms[i],
         \/ UNCHANGED toServer
         \/ \E a \in Asking : /\ Reply(a)
                              /\ Places(a) => UpTo(toClient, LeftOf(server), AnswerAt(a))
  PROVE  Read'
<1> DEFINE l == LeftOf(server)
<1>1. toClient \in Seq(Packet) /\ 1 \in DOMAIN toClient /\ DOMAIN toClient = 1..Len(toClient)
  BY DEF TransferTypeOK, UnderWayTyped, Later
<1>2. \A i \in DOMAIN toClient' : i + d \in DOMAIN toClient /\ toClient'[i] = toClient[i + d]
        /\ i + d # 1 /\ i \in Nat
  BY DEF Later
<1>3. \A i \in DOMAIN toClient' : Messages(toClient'[i])
  BY <1>1, <1>2 DEF Orderly, OneAtATime
<1>4. toServer = <<>> /\ server.at \notin {"transfer", "room"}
  BY <1>1 DEF Orderly, OneAtATime, Asked
<1>5. LeftOf(server') = l
  OBVIOUS
<1> HIDE DEF l
<1>6. \A p : Chunk(stored, mine, p) => Chunk(stored', mine', p)
  BY DEF Chunk
<1>7. ChunksSound'
  BY <1>2, <1>3, <1>5, <1>6 DEF Read, ChunksSound, l
<1>8. FirstComesFirst'
  <2>1. \A i, j \in DOMAIN toClient' :
         i < j /\ Messages(toClient'[i]) /\ Messages(toClient'[j]) /\ toClient'[j].aligned
           => toClient'[i].id # toClient'[j].id
    BY <1>2, <1>3 DEF Read, FirstComesFirst
  <2>2. \A i \in DOMAIN l :
         /\ l[i].id = l[1].id
         /\ l[i].aligned =>
              /\ i = 1
              /\ \A j \in DOMAIN toClient' : Messages(toClient'[j]) => toClient'[j].id # l[1].id
    BY <1>2, <1>3 DEF Read, FirstComesFirst, l
  <2> QED
    BY <1>5, <2>1, <2>2 DEF FirstComesFirst
<1>9. RoomsAhead'
  <2>1. \A i \in DOMAIN toClient' : ~Carries(toClient'[i])
    BY <1>3 DEF Carries, Messages
  <2>2. \A i \in DOMAIN toServer' :
           Places(toServer'[i]) => UpTo(toClient', l, AnswerAt(toServer'[i]))
    <3>1. CASE UNCHANGED toServer
      BY <1>4, <3>1
    <3>2. ASSUME NEW a \in Asking, Reply(a),
                 Places(a) => UpTo(toClient, LeftOf(server), AnswerAt(a))
          PROVE  <2>2
      <4>1. toServer' = <<a>>
        BY <1>4, <3>2 DEF Reply
      <4>2. \A i \in DOMAIN toServer' : toServer'[i] = a
        BY <4>1
      <4>3. Places(a) => UpTo(toClient', l, AnswerAt(a))
        BY <3>2, UpToLater DEF l
      <4> QED
        BY <4>2, <4>3
    <3> QED
      BY <3>1, <3>2
  <2> QED
    BY <1>4, <1>5, <2>1, <2>2 DEF RoomsAhead
<1>10. HistoriesRead'
  <2>1. ASSUME NEW i \in DOMAIN mine'.rooms
        PROVE  \E n \in Nat : /\ Beginning(mine'.rooms[i].msgs, stored'[mine'.rooms[i].id], n)
                              /\ login'.pending => n = Len(mine'.rooms[i].msgs)
    <3>1. CASE i \in DOMAIN mine.rooms /\ mine'.rooms[i] = mine.rooms[i]
      BY <3>1 DEF Read, HistoriesRead
    <3>2. CASE mine'.rooms[i].msgs = <<>>
      <4>1. mine'.rooms[i].id \in Room /\ stored' = stored
        <5>1. mine' \in Mine => mine'.rooms[i] \in RoomKept
          BY DEF Mine
        <5> QED
          BY <5>1 DEF RoomKept
      <4>2. Len(stored[mine'.rooms[i].id]) \in Nat
        BY <4>1 DEF TransferTypeOK, RedisTyped
      <4>3. Len(<<>>) = 0 /\ 1..0 = {} /\ 0 \in 0..0 /\ 0 + 1..0 = {}
        OBVIOUS
      <4>4. Beginning(<<>>, stored[mine'.rooms[i].id], 0)
        BY <4>2, <4>3 DEF Beginning
      <4> QED
        BY <3>2, <4>1, <4>3, <4>4
    <3> QED
      BY <2>1, <3>1, <3>2
  <2> QED
    BY <2>1 DEF HistoriesRead
<1>11. Undisturbed'
  BY DEF Read, Undisturbed
<1> QED
  BY <1>7, <1>8, <1>9, <1>10, <1>11 DEF Read

\* The server hands over one more packet of a room's messages.
LEMMA ChunkRead ==
  ASSUME TransferTypeOK, Orderly, Read, SendChunk
  PROVE  Read'
<1> DEFINE l == server.left
           h == Head(server.left)
<1>1. /\ server.at = "messages" /\ l \in Seq(RmsgP) /\ l # <<>>
      /\ toClient' = Append(toClient, h)
      /\ UNCHANGED <<mine, stored, login, chats, other, toServer>>
  BY StageShapes DEF SendChunk, TransferTypeOK, UnderWayTyped, SendToClient, redis, client
<1>2. h = l[1] /\ 1 \in DOMAIN l /\ h \in RmsgP /\ LeftOf(server) = l
  BY <1>1 DEF LeftOf
<1>3. /\ DOMAIN LeftOf(server') \subseteq {i \in Nat : i + 1 \in DOMAIN l /\ i >= 1}
      /\ \A i \in DOMAIN LeftOf(server') : LeftOf(server')[i] = l[i + 1]
      /\ server'.at \notin {"transfer", "room"}
  <2>1. CASE Len(l) = 1
    <3>1. server' = Idle /\ Idle.at = "idle"
      BY <1>1, <2>1, StagesMade DEF SendChunk
    <3>2. LeftOf(server') = <<>> /\ DOMAIN <<>> = {}
      BY <3>1 DEF LeftOf
    <3> QED
      BY <3>1, <3>2
  <2>2. CASE Len(l) # 1
    <3>1. server' = [server EXCEPT !.left = Tail(l)]
      BY <1>1, <2>2 DEF SendChunk
    <3>2. server'.at = "messages" /\ server'.left = Tail(l)
      BY <1>1, <3>1 DEF TransferTypeOK, UnderWayTyped, Stages
    <3>3. LeftOf(server') = Tail(l)
      BY <3>2 DEF LeftOf
    <3> HIDE DEF l
    <3>4. /\ \A i \in DOMAIN Tail(l) : i \in Nat /\ i >= 1 /\ i + 1 \in DOMAIN l
          /\ \A i \in DOMAIN Tail(l) : Tail(l)[i] = l[i + 1]
      BY <1>1
    <3> QED
      BY <3>2, <3>3, <3>4
  <2> QED
    BY <2>1, <2>2
<1>4. /\ DOMAIN toClient' = 1..Len(toClient) + 1 /\ DOMAIN toClient = 1..Len(toClient)
      /\ Len(toClient) \in Nat
      /\ toClient'[Len(toClient) + 1] = h
      /\ \A i \in DOMAIN toClient : toClient'[i] = toClient[i]
  BY <1>1, <1>2, RmsgShapes DEF TransferTypeOK, UnderWayTyped
<1>5. /\ \A i \in DOMAIN l : Chunk(stored, mine, l[i]) /\ l[i].id = h.id
      /\ \A i \in DOMAIN l : l[i].aligned =>
           /\ i = 1
           /\ \A j \in DOMAIN toClient : Messages(toClient[j]) => toClient[j].id # h.id
  BY <1>2 DEF Read, ChunksSound, FirstComesFirst
<1>6. Messages(h)
  BY <1>2, RmsgShapes DEF Messages
<1> DEFINE k == LeftOf(server')
<1>7. \A i \in DOMAIN k : k[i].id = h.id /\ ~k[i].aligned /\ Chunk(stored, mine, k[i])
  BY <1>3, <1>5
<1> HIDE DEF l, h, k
<1>8. \A i \in DOMAIN toClient' : (i \in DOMAIN toClient /\ toClient'[i] = toClient[i])
                                    \/ (i = Len(toClient) + 1 /\ toClient'[i] = h)
  BY <1>4
<1>9. ChunksSound'
  <2>1. Chunk(stored, mine, h)
    BY <1>2, <1>5
  <2>2. \A i \in DOMAIN toClient' : Messages(toClient'[i]) => Chunk(stored', mine', toClient'[i])
    BY <1>1, <1>8, <2>1 DEF Read, ChunksSound
  <2>3. \A i \in DOMAIN k : Chunk(stored', mine', k[i])
    BY <1>1, <1>7
  <2> QED
    BY <2>2, <2>3 DEF ChunksSound, k
<1>10. FirstComesFirst'
  <2>1. \A i, j \in DOMAIN toClient' :
         i < j /\ Messages(toClient'[i]) /\ Messages(toClient'[j]) /\ toClient'[j].aligned
           => toClient'[i].id # toClient'[j].id
    <3>1. ASSUME NEW i \in DOMAIN toClient', NEW j \in DOMAIN toClient',
                 i < j, Messages(toClient'[i]), Messages(toClient'[j]), toClient'[j].aligned
          PROVE  toClient'[i].id # toClient'[j].id
      <4>1. i \in DOMAIN toClient /\ toClient'[i] = toClient[i]
        BY <1>4, <1>8, <3>1
      <4>2. CASE j \in DOMAIN toClient /\ toClient'[j] = toClient[j]
        BY <3>1, <4>1, <4>2 DEF Read, FirstComesFirst
      <4>3. CASE toClient'[j] = h
        BY <1>2, <1>5, <3>1, <4>1, <4>3
      <4> QED
        BY <1>8, <4>2, <4>3
    <3> QED
      BY <3>1
  <2>2. \A i \in DOMAIN k :
         /\ k[i].id = k[1].id
         /\ k[i].aligned =>
              /\ i = 1
              /\ \A j \in DOMAIN toClient' : Messages(toClient'[j]) => toClient'[j].id # k[1].id
    <3>1. \A i \in DOMAIN k : 1 \in DOMAIN k
      <4>1. LeftOf(server') \in Seq(RmsgP) \/ LeftOf(server') = <<>>
        <5>1. server' \in Stages
          BY RoomsTyped DEF TransferTypeOK, UnderWayTyped
        <5> QED
          BY <5>1 DEF LeftOf, Stages
      <4> QED
        BY <4>1 DEF k
    <3> QED
      BY <1>7, <3>1
  <2> QED
    BY <2>1, <2>2 DEF FirstComesFirst, k
<1>11. \A n : UpTo(toClient, l, n) => UpTo(toClient', k, n)
  <2>1. ASSUME NEW n, UpTo(toClient, l, n)
        PROVE  UpTo(toClient', k, n)
    <3>1. Pos(h.id) <= n
      BY <1>2, <2>1 DEF UpTo
    <3>2. \A i \in DOMAIN toClient' : Messages(toClient'[i]) => Pos(toClient'[i].id) <= n
      BY <1>8, <2>1, <3>1 DEF UpTo
    <3>3. \A i \in DOMAIN k : Pos(k[i].id) <= n
      BY <1>7, <3>1
    <3> QED
      BY <3>2, <3>3 DEF UpTo
  <2> QED
    BY <2>1
<1>12. RoomsAhead'
  <2>1. \A i \in DOMAIN toServer' :
           Places(toServer'[i]) => UpTo(toClient', k, AnswerAt(toServer'[i]))
    BY <1>1, <1>2, <1>11 DEF Read, RoomsAhead
  <2>2. \A i \in DOMAIN toClient' :
           Carries(toClient'[i]) => UpTo(toClient', k, AnswerAt(toClient'[i]))
    <3>1. ~Carries(h)
      BY <1>6 DEF Carries, Messages
    <3> QED
      BY <1>2, <1>8, <1>11, <3>1 DEF Read, RoomsAhead
  <2> QED
    BY <1>3, <2>1, <2>2 DEF RoomsAhead, k
<1>13. HistoriesRead' /\ Undisturbed'
  BY <1>1 DEF Read, HistoriesRead, Undisturbed
<1> QED
  BY <1>9, <1>10, <1>12, <1>13 DEF Read

\* What a packet adds to a room's messages.
LEMMA BeginningGrows ==
  ASSUME NEW msgs \in Seq(Text), NEW all \in Seq(Text)
  PROVE  /\ \A add \in Seq(Text) :
               msgs = <<>> /\ Len(add) <= Len(all) /\ (\A k \in 1..Len(add) : add[k] = all[k])
                 => Beginning(msgs \o add, all, Len(msgs \o add)) /\ Len(msgs \o add) \in Nat
         /\ \A n \in Nat : Beginning(msgs, all, n) => Beginning(Append(msgs, Garbage), all, n)
         /\ msgs = <<>> /\ Len(all) >= 1 => Beginning(Append(msgs, all[1]), all, 1)
<1>1. Garbage \in Text
  BY DEF Garbage, Text
<1>2. ASSUME NEW add \in Seq(Text), msgs = <<>>, Len(add) <= Len(all),
             \A k \in 1..Len(add) : add[k] = all[k]
      PROVE  Beginning(msgs \o add, all, Len(msgs \o add)) /\ Len(msgs \o add) \in Nat
  <2>1. msgs \o add = add
    BY <1>2
  <2>2. Len(add) \in Nat /\ Len(add) \in 0..Len(add) /\ Len(add) + 1..Len(add) = {}
    OBVIOUS
  <2> QED
    BY <1>2, <2>1, <2>2 DEF Beginning
<1>3. ASSUME NEW n \in Nat, Beginning(msgs, all, n)
      PROVE  Beginning(Append(msgs, Garbage), all, n)
  <2> DEFINE s == Append(msgs, Garbage)
             m == Len(msgs)
  <2>1. /\ Len(s) = m + 1 /\ m \in Nat /\ s[m + 1] = Garbage
        /\ \A k \in 1..m : s[k] = msgs[k]
    BY <1>1
  <2>2. n <= m /\ n <= Len(all) /\ (\A k \in 1..n : msgs[k] = all[k])
        /\ \A k \in n + 1..m : msgs[k] = Garbage
    BY <1>3 DEF Beginning
  <2> HIDE DEF s, m
  <2>3. n \in 0..Len(s)
    BY <2>1, <2>2
  <2>4. \A k \in 1..n : s[k] = all[k]
    BY <2>1, <2>2
  <2>5. \A k \in n + 1..Len(s) : s[k] = Garbage
    <3>1. \A k \in n + 1..Len(s) : k \in n + 1..m \/ k = m + 1
      BY <2>1, <2>2
    <3>2. \A k \in n + 1..m : k \in 1..m
      BY <2>1, <2>2
    <3> QED
      BY <2>1, <2>2, <3>1, <3>2
  <2> QED
    BY <2>2, <2>3, <2>4, <2>5 DEF Beginning, s
<1>4. ASSUME msgs = <<>>, Len(all) >= 1
      PROVE  Beginning(Append(msgs, all[1]), all, 1)
  <2>1. Append(msgs, all[1]) = <<all[1]>>
    BY <1>4
  <2>2. Len(<<all[1]>>) = 1 /\ <<all[1]>>[1] = all[1] /\ 1 \in 0..1 /\ 1 + 1..1 = {} /\ 1..1 = {1}
    OBVIOUS
  <2>3. Beginning(<<all[1]>>, all, 1)
    BY <1>4, <2>2 DEF Beginning
  <2> QED
    BY <2>1, <2>3
<1> QED
  BY <1>2, <1>3, <1>4

\* The reader takes messages.
LEMMA MessagesKeepRead ==
  ASSUME TransferTypeOK, Orderly, Read, ReadMessages
  PROVE  Read'
<1> DEFINE p == toClient[1]
           l == LeftOf(server)
<1>1. /\ mine \in Mine /\ toClient \in Seq(Packet) /\ 1 \in DOMAIN toClient
      /\ UNCHANGED <<server, stored, chats, other, toServer, login>>
  <2>1. toClient # <<>> /\ toClient \in Seq(Packet)
    BY DEF ReadMessages, Incoming, TransferTypeOK, UnderWayTyped
  <2>2. 1 \in DOMAIN toClient
    BY <2>1
  <2>3. UNCHANGED <<server, stored, chats, other, toServer, login>>
    BY DEF ReadMessages, redis
  <2> QED
    BY <2>1, <2>2, <2>3, MineTyped DEF TransferTypeOK
<1>2. /\ p \in RmsgP
      /\ \E d \in 1..2 : Later(d)
      /\ Skipped(p) \/ Gained(p) \/ Grown(p)
  BY <1>1, MessagesRead DEF TransferTypeOK
<1>3. PICK d \in 1..2 : Later(d)
  BY <1>2
<1>4. \A i \in DOMAIN toClient' : i + d \in DOMAIN toClient /\ toClient'[i] = toClient[i + d]
        /\ 1 < i + d /\ i \in Nat
  BY <1>3 DEF Later
<1>5. Messages(p) /\ p.id \in Room /\ p.msgs \in Seq(Text) /\ (p.aligned => p.msgs # <<>>)
  BY <1>2, RmsgShapes DEF Messages
<1>6. Chunk(stored, mine, p)
  BY <1>1, <1>5 DEF Read, ChunksSound
<1> HIDE DEF l
\* Only the room of the packet changes.
<1>7. /\ SameShape(mine', mine)
      /\ \A i \in DOMAIN mine.rooms : mine.rooms[i].id # p.id => mine'.rooms[i] = mine.rooms[i]
  <2>1. SameShape(mine', mine)
    BY <1>1, <1>2, ReadKeepsShape
  <2>2. ASSUME NEW r \in RoomsOf(p.id), NEW m, SameRooms(mine', r, m)
        PROVE  \A i \in DOMAIN mine.rooms :
                 mine.rooms[i].id # p.id => mine'.rooms[i] = mine.rooms[i]
    BY <2>2 DEF SameRooms, RoomsOf
  <2>3. CASE Skipped(p)
    BY <2>1, <2>3 DEF Skipped
  <2>4. CASE Gained(p)
    BY <2>1, <2>2, <2>4 DEF Gained
  <2>5. CASE Grown(p)
    BY <2>1, <2>2, <2>5 DEF Grown
  <2> QED
    BY <1>2, <2>3, <2>4, <2>5
<1>8. /\ DOMAIN mine'.rooms = DOMAIN mine.rooms
      /\ \A i \in DOMAIN mine.rooms : mine'.rooms[i].id = mine.rooms[i].id
  BY <1>7 DEF SameShape
<1>9. \A q : Chunk(stored, mine, q) /\ (q.aligned => q.id # p.id) => Chunk(stored', mine', q)
  BY <1>1, <1>7, <1>8 DEF Chunk
<1>10. ChunksSound'
  <2>1. ASSUME NEW i \in DOMAIN toClient', Messages(toClient'[i])
        PROVE  Chunk(stored', mine', toClient'[i])
    <3>1. i + d \in DOMAIN toClient /\ toClient'[i] = toClient[i + d] /\ 1 < i + d
      BY <1>4
    <3>2. toClient'[i].aligned => toClient'[i].id # p.id
      BY <1>1, <1>5, <2>1, <3>1 DEF Read, FirstComesFirst
    <3> QED
      BY <1>9, <2>1, <3>1, <3>2 DEF Read, ChunksSound
  <2>2. ASSUME NEW i \in DOMAIN l
        PROVE  Chunk(stored', mine', l[i])
    <3>1. l[i].aligned => l[i].id # p.id
      BY <1>1, <1>5 DEF Read, FirstComesFirst, l
    <3> QED
      BY <1>9, <3>1 DEF Read, ChunksSound, l
  <2> QED
    BY <1>1, <2>1, <2>2 DEF ChunksSound, l
<1>11. FirstComesFirst'
  <2>1. \A i, j \in DOMAIN toClient' :
         i < j /\ Messages(toClient'[i]) /\ Messages(toClient'[j]) /\ toClient'[j].aligned
           => toClient'[i].id # toClient'[j].id
    <3>1. \A i, j \in DOMAIN toClient' : i < j => i + d < j + d
      BY <1>4
    <3> QED
      BY <1>4, <3>1 DEF Read, FirstComesFirst
  <2>2. \A i \in DOMAIN l :
         /\ l[i].id = l[1].id
         /\ l[i].aligned =>
              /\ i = 1
              /\ \A j \in DOMAIN toClient' : Messages(toClient'[j]) => toClient'[j].id # l[1].id
    BY <1>4 DEF Read, FirstComesFirst, l
  <2> QED
    BY <1>1, <2>1, <2>2 DEF FirstComesFirst, l
<1>12. RoomsAhead'
  <2>1. \A i \in DOMAIN toServer' :
           Places(toServer'[i]) => UpTo(toClient', l, AnswerAt(toServer'[i]))
    BY <1>1, <1>3, UpToLater DEF Read, RoomsAhead, l
  <2>2. \A i \in DOMAIN toClient' :
           Carries(toClient'[i]) => UpTo(toClient', l, AnswerAt(toClient'[i]))
    BY <1>3, <1>4, UpToLater DEF Read, RoomsAhead, l
  <2>3. /\ server'.at = "transfer" => UpTo(toClient', <<>>, 0)
        /\ server'.at = "room" => UpTo(toClient', <<>>, Pos(server'.room) - 1)
    BY <1>1, <1>3, UpToLater DEF Read, RoomsAhead
  <2> QED
    BY <1>1, <2>1, <2>2, <2>3 DEF RoomsAhead, l
<1>13. ASSUME NEW i \in DOMAIN mine.rooms
       PROVE  \E n \in Nat : /\ Beginning(mine'.rooms[i].msgs, stored[mine.rooms[i].id], n)
                             /\ login.pending => n = Len(mine'.rooms[i].msgs)
  <2> DEFINE msgs == mine.rooms[i].msgs
             all  == stored[p.id]
  <2>1. msgs \in Seq(Text) /\ all \in Seq(Text)
    <3>1. mine.rooms[i] \in RoomKept
      BY <1>1, <1>13 DEF Mine
    <3> QED
      BY <1>5, <3>1 DEF RoomKept, TransferTypeOK, RedisTyped
  <2>2. PICK n \in Nat : /\ Beginning(msgs, stored[mine.rooms[i].id], n)
                         /\ login.pending => n = Len(msgs)
    BY <1>13 DEF Read, HistoriesRead
  <2>3. CASE mine'.rooms[i] = mine.rooms[i]
    BY <2>2, <2>3
  <2>4. CASE mine'.rooms[i] # mine.rooms[i] /\ login.pending
    <3>1. Gained(p) /\ mine.rooms[i].id = p.id
      BY <1>2, <1>7, <1>13, <2>4 DEF Skipped, Grown
    <3>2. PICK r \in RoomsOf(p.id), add \in Seq(Text) :
            /\ SameRooms(mine', r, mine.rooms[r].msgs \o add)
            /\ Len(add) <= Len(p.msgs)
            /\ \A k \in 1..Len(add) : add[k] = p.msgs[k]
      BY <3>1 DEF Gained
    <3>3. r = i
      BY <1>13, <2>4, <3>2 DEF SameRooms
    <3>4. mine'.rooms[i].msgs = msgs \o add
      BY <3>2, <3>3 DEF SameRooms
    <3>5. msgs = <<>> /\ Len(p.msgs) <= Len(all) /\ \A k \in DOMAIN p.msgs : p.msgs[k] = all[k]
      BY <1>6, <1>13, <3>1 DEF Chunk, Gained
    <3>6. Len(add) <= Len(all) /\ \A k \in 1..Len(add) : add[k] = all[k]
      <4>1. Len(add) \in Nat /\ Len(p.msgs) \in Nat /\ Len(all) \in Nat
            /\ DOMAIN p.msgs = 1..Len(p.msgs)
        BY <1>5, <2>1
      <4> HIDE DEF all, p
      <4>2. Len(add) <= Len(all)
        BY <3>2, <3>5, <4>1
      <4>3. \A k \in 1..Len(add) : k \in DOMAIN p.msgs
        BY <3>2, <4>1
      <4> QED
        BY <3>2, <3>5, <4>2, <4>3
    <3> HIDE DEF msgs, all
    <3>7. Beginning(msgs \o add, all, Len(msgs \o add)) /\ Len(msgs \o add) \in Nat
      BY <2>1, <3>5, <3>6, BeginningGrows
    <3> QED
      BY <3>1, <3>4, <3>7 DEF all
  <2>5. CASE mine'.rooms[i] # mine.rooms[i] /\ ~login.pending
    <3>1. Grown(p) /\ mine.rooms[i].id = p.id
      BY <1>2, <1>7, <1>13, <2>5 DEF Skipped, Gained
    <3>2. PICK r \in RoomsOf(p.id) :
            /\ p.aligned => SameRooms(mine', r, Append(mine.rooms[r].msgs, p.msgs[1]))
            /\ ~p.aligned => SameRooms(mine', r, Append(mine.rooms[r].msgs, Garbage))
      BY <3>1 DEF Grown
    <3>3. r = i
      BY <1>13, <2>5, <3>2 DEF SameRooms
    <3>4. CASE p.aligned
      <4>1. mine'.rooms[i].msgs = Append(msgs, p.msgs[1])
        BY <3>2, <3>3, <3>4 DEF SameRooms
      <4>2. msgs = <<>> /\ Len(p.msgs) <= Len(all) /\ \A k \in DOMAIN p.msgs : p.msgs[k] = all[k]
        BY <1>6, <1>13, <3>1, <3>4 DEF Chunk
      <4>3. Len(p.msgs) # 0 /\ Len(p.msgs) \in Nat /\ DOMAIN p.msgs = 1..Len(p.msgs)
        BY <1>5, <3>4, EmptyIsZero, Zenon
      <4>4. Len(all) >= 1 /\ p.msgs[1] = all[1]
        <5>1. Len(all) \in Nat
          BY <2>1
        <5> HIDE DEF all, p
        <5>2. 1 \in DOMAIN p.msgs
          BY <4>3
        <5> QED
          BY <4>2, <4>3, <5>1, <5>2
      <4> HIDE DEF msgs, all
      <4>5. Beginning(Append(msgs, all[1]), all, 1)
        BY <2>1, <4>2, <4>4, BeginningGrows
      <4> QED
        BY <2>5, <3>1, <4>1, <4>4, <4>5 DEF all
    <3>5. CASE ~p.aligned
      <4>1. mine'.rooms[i].msgs = Append(msgs, Garbage)
        BY <3>2, <3>3, <3>5 DEF SameRooms
      <4>2. Beginning(msgs, all, n)
        BY <2>2, <3>1
      <4> HIDE DEF msgs, all
      <4>3. Beginning(Append(msgs, Garbage), all, n)
        BY <2>1, <4>2, BeginningGrows
      <4> QED
        BY <2>5, <3>1, <4>1, <4>3 DEF all
    <3> QED
      BY <3>4, <3>5
  <2> QED
    BY <2>3, <2>4, <2>5
<1>14. HistoriesRead'
  BY <1>1, <1>8, <1>13 DEF HistoriesRead
<1>15. Undisturbed'
  BY <1>1 DEF Read, Undisturbed
<1> QED
  BY <1>10, <1>11, <1>12, <1>14, <1>15 DEF Read

\* The server takes an answer, or goes on with the rooms.
LEMMA ServerRead ==
  ASSUME TransferTypeOK, Calm, Orderly, Read, Unrecognised \/ DataRequest \/ FriendReply
  PROVE  Read'
<1> DEFINE a == Head(toServer)
<1>1. /\ toServer \in Seq(Asking) /\ toServer # <<>> /\ Len(toServer) <= 1
      /\ server = Idle /\ Idle.at = "idle"
      /\ toServer' = Tail(toServer)
  BY StagesMade DEF TransferTypeOK, UnderWayTyped, Orderly, OneAtATime, Unrecognised, DataRequest,
                    FriendReply, Receives
<1>2. /\ toServer' = <<>> /\ Asked /\ a = toServer[1] /\ 1 \in DOMAIN toServer /\ a \in Asking
      /\ LeftOf(server) = <<>>
  BY <1>1, OneElement DEF Asked, LeftOf
<1>3. a.type \in {"data", "frnd"} => UpTo(toClient, <<>>, 0)
  BY <1>2 DEF Read, RoomsAhead, Places, AnswerAt
<1>4. UNCHANGED <<mine, stored, login, chats, other>>
  BY DEF Unrecognised, DataRequest, FriendReply, redis, client
<1>5. friends \in Nat
  BY DEF TransferTypeOK, RedisTyped
<1>6. CASE Unrecognised
  <2>1. PICK w \in {"data;fail", "frnd;fail", "room;fail"} :
          SendToClient(State(w)) /\ (w = "data;fail" => a.type = "data")
    BY <1>2, <1>6, AskingShapes DEF Unrecognised
  <2>2. State(w) \in Packet /\ State(w).type = w
    BY PacketsMade
  <2>3. UNCHANGED server
    BY <1>6 DEF Unrecognised
  <2>4. ~Messages(State(w)) /\ (Carries(State(w)) => UpTo(toClient, <<>>, AnswerAt(State(w))))
    BY <1>3, <2>1, <2>2 DEF Messages, Carries, AnswerAt
  <2>5. LeftOf(server') = <<>> /\ server'.at \notin {"transfer", "room"}
    BY <1>1, <1>2, <2>3
  <2> QED
    BY <1>2, <1>4, <2>1, <2>2, <2>4, <2>5, NothingLeft, SentRead
<1>7. CASE DataRequest \/ (FriendReply /\ UNCHANGED server)
  <2>1. UpTo(toClient, <<>>, 0)
    BY <1>3, <1>7 DEF DataRequest, FriendReply, Receives
  <2>2. \/ UNCHANGED toClient
        \/ \E p \in {Frnd(friends), State("data;fail"), State("frnd;fail")} : SendToClient(p)
    BY <1>7 DEF DataRequest, FriendReply
  <2>3. \A p \in {Frnd(friends), State("data;fail"), State("frnd;fail")} :
           p \in Packet /\ p.type \in {"frnd", "data;fail", "frnd;fail"}
    BY <1>5, PacketsMade
  <2>4. \A p \in {Frnd(friends), State("data;fail"), State("frnd;fail")} :
           p \in Packet /\ ~Messages(p) /\ (Carries(p) => UpTo(toClient, <<>>, AnswerAt(p)))
    BY <2>1, <2>3 DEF Messages, AnswerAt
  <2>5. LeftOf(server') = <<>> /\ server'.at \notin {"transfer", "room"}
    BY <1>1, <1>2, <1>7 DEF DataRequest
  <2> QED
    BY <1>2, <1>4, <2>2, <2>4, <2>5, NothingLeft, SentRead
<1>8. CASE FriendReply /\ ~UNCHANGED server
  <2>1. UpTo(toClient, <<>>, 0)
    BY <1>3, <1>8 DEF FriendReply, Receives
  <2>2. server' = [at |-> "transfer"] /\ UNCHANGED toClient
    BY <1>8 DEF FriendReply
  <2>3. LeftOf(server') = <<>> /\ server'.at = "transfer"
    BY <2>2 DEF LeftOf
  <2> QED
    BY <1>2, <1>4, <2>1, <2>2, <2>3, NothingLeft, SentRead
<1> QED
  BY <1>6, <1>7, <1>8

\* The server starts the rooms, sends one, or goes on to the next.
LEMMA RoomsRead ==
  ASSUME TransferTypeOK, Calm, Calm', Orderly, Read, Transfer \/ SendRoom \/ RoomReply
  PROVE  Read'
<1>1. chats = Chats /\ toServer \in Seq(Asking) /\ stored \in [Room -> Seq(Text)]
  BY DEF Calm, TransferTypeOK, UnderWayTyped, RedisTyped
<1>2. UNCHANGED <<mine, stored, login, chats, other>>
  BY DEF Transfer, SendRoom, RoomReply, redis, client
<1>3. Idle.at = "idle" /\ LeftOf(Idle) = <<>>
  BY StagesMade DEF LeftOf
<1>4. CASE Transfer
  <2>1. Asked /\ toServer' = <<>> /\ LeftOf(server) = <<>> /\ UpTo(toClient, <<>>, 0)
    BY <1>4 DEF Transfer, Asked, Orderly, OneAtATime, LeftOf, Read, RoomsAhead
  <2>2. CASE server' = Idle /\ (SendToClient(State("room;ok")) \/ UNCHANGED toClient)
    <3>1. State("room;ok") \in Packet /\ ~Messages(State("room;ok")) /\ ~Carries(State("room;ok"))
      BY PacketsMade DEF Messages, Carries
    <3> QED
      BY <1>2, <1>3, <2>1, <2>2, <3>1, NothingLeft, SentRead
  <2>3. CASE chats # <<>> /\ server' = [at |-> "room", room |-> chats[1]] /\ UNCHANGED toClient
    <3>1. 1 \in DOMAIN Chats
      BY <1>1, <2>3, RoomAssumption
    <3>2. server'.at = "room" /\ Pos(server'.room) = 1 /\ LeftOf(server') = <<>>
      BY <1>1, <2>3, <3>1, Positions DEF LeftOf
    <3>3. UpTo(toClient, <<>>, Pos(server'.room) - 1)
      BY <2>1, <3>2
    <3> QED
      BY <1>2, <2>1, <2>3, <3>2, <3>3, NothingLeft, SentRead
  <2> QED
    BY <1>4, <2>2, <2>3 DEF Transfer
<1>5. CASE SendRoom
  <2> DEFINE r == server.room
  <2>1. /\ server.at = "room" /\ r \in Room /\ Asked /\ toServer' = <<>> /\ Follows(mine, r)
        /\ LeftOf(server) = <<>> /\ UpTo(toClient, <<>>, Pos(r) - 1)
    <3>1. server.at = "room" /\ UNCHANGED toServer
      BY <1>5 DEF SendRoom
    <3>2. r \in Room
      BY <3>1, StageShapes DEF TransferTypeOK, UnderWayTyped
    <3> QED
      BY <3>1, <3>2 DEF Asked, Orderly, OneAtATime, InStep, StageFits, LeftOf, Read, RoomsAhead
  <2>2. r \in Range(Chats) /\ Pos(r) \in Nat /\ Pos(r) > Len(mine.rooms)
    <3>1. r \in Range(Chats)
      BY <2>1 DEF Follows
    <3>2. Pos(r) \in Nat
      BY <3>1, Positions, RoomAssumption
    <3>3. Len(mine.rooms) \in Nat
      BY MineTyped DEF TransferTypeOK, Mine
    <3> QED
      BY <2>1, <3>1, <3>2, <3>3, RoomAssumption DEF Follows
  <2>3. CASE /\ SendToClient(NoSuch(r)) /\ server' = Idle
    <3>1. NoSuch(r) \in Packet /\ NoSuch(r).type = "room;id;fail"
      BY <2>1, PacketsMade
    <3>2. ~Messages(NoSuch(r)) /\ ~Carries(NoSuch(r))
      BY <3>1 DEF Messages, Carries
    <3> QED
      BY <1>2, <1>3, <2>1, <2>3, <3>1, <3>2, NothingLeft, SentRead
  <2>4. CASE SendToClient(RoomPacket(r))
    <3> DEFINE p == RoomPacket(r)
               l == LeftOf(server')
    <3>1. p \in Packet /\ p.type = "room" /\ p.id = r
      BY <1>1, <2>1, RoomPacketMade
    <3>2. \/ server' = Idle
          \/ stored[r] # <<>> /\ server' = [at |-> "messages", left |-> Chunks(r)]
      BY <1>5 DEF SendRoom
    <3>3. /\ server'.at \notin {"transfer", "room"}
          /\ l = <<>> \/ (stored[r] # <<>> /\ l = Chunks(r))
      BY <1>3, <3>2 DEF LeftOf
    <3>4. \A j \in DOMAIN toClient : Messages(toClient[j]) => toClient[j].id # r
      BY <2>1, <2>2 DEF UpTo
    <3>5. \A i \in DOMAIN mine.rooms : mine.rooms[i].id # r
      <4>1. ASSUME NEW i \in DOMAIN mine.rooms
            PROVE  mine.rooms[i].id # r
        <5>1. i \in 1..Len(mine.rooms) /\ Len(mine.rooms) \in Nat /\ Len(mine.rooms) <= Len(Chats)
          BY MineTyped DEF TransferTypeOK, Mine, Orderly, RoomsInOrder
        <5>2. i \in DOMAIN Chats /\ i < Pos(r)
          BY <2>2, <5>1, RoomAssumption
        <5>3. mine.rooms[i].id = Chats[i] /\ Pos(Chats[i]) = i
          BY <5>2, Positions DEF Orderly, RoomsInOrder
        <5>4. i # Pos(r)
          <6> HIDE DEF r
          <6> QED
            BY <2>2, <5>1, <5>2
        <5> HIDE DEF r
        <5> QED
          BY <5>3, <5>4
      <4> QED
        BY <4>1
    <3>6. NewLeft(l) /\ \A i \in DOMAIN l : l[i].id = r
      <4>1. CASE l = <<>>
        BY <4>1, NothingLeft
      <4>2. CASE stored[r] # <<>> /\ l = Chunks(r)
        <5>1. /\ l \in Seq(RmsgP)
              /\ l # <<>>
              /\ \A i \in DOMAIN l : l[i].id = r /\ (l[i].aligned <=> i = 1)
              /\ Len(l[1].msgs) <= Len(stored[r])
              /\ \A k \in DOMAIN l[1].msgs : l[1].msgs[k] = stored[r][k]
          BY <1>1, <2>1, <4>2, ChunksMade
        <5> HIDE DEF l
        <5>2. 1 \in DOMAIN l
          BY <5>1
        <5>3. \A i \in DOMAIN l : Chunk(stored, mine, l[i])
          BY <2>2, <3>5, <5>1 DEF Chunk
        <5> QED
          BY <3>4, <5>1, <5>2, <5>3 DEF NewLeft
      <4> QED
        BY <3>3, <4>1, <4>2
    <3> HIDE DEF l
    <3>7. UpTo(toClient, l, Pos(r))
      <4>1. \A i \in DOMAIN toClient : Messages(toClient[i]) => Pos(toClient[i].id) <= Pos(r)
        <5>1. ASSUME NEW i \in DOMAIN toClient, Messages(toClient[i])
              PROVE  Pos(toClient[i].id) <= Pos(r)
          <6>1. Chunk(stored, mine, toClient[i])
            BY <5>1 DEF Read, ChunksSound
          <6>2. Pos(toClient[i].id) \in Nat /\ Pos(toClient[i].id) <= Pos(r) - 1
            BY <2>1, <5>1, <6>1, Positions, RoomAssumption DEF Chunk, UpTo
          <6> QED
            BY <2>2, <6>2
        <5> QED
          BY <5>1
      <4>2. \A i \in DOMAIN l : Pos(l[i].id) <= Pos(r)
        BY <2>2, <3>6
      <4> QED
        BY <4>1, <4>2 DEF UpTo
    <3>8. ~Messages(p) /\ AnswerAt(p) = Pos(r)
      BY <3>1 DEF Messages, AnswerAt
    <3> HIDE DEF p
    <3>9. SendToClient(p)
      BY <2>4 DEF p
    <3>10. LeftOf(server') = l
      BY DEF l
    <3> QED
      BY <1>2, <2>1, <3>1, <3>3, <3>6, <3>7, <3>8, <3>9, <3>10, SentRead
  <2> QED
    BY <1>5, <2>3, <2>4 DEF SendRoom
<1>6. CASE RoomReply
  <2> DEFINE a  == Head(toServer)
             id == Head(toServer).id
  <2>1. /\ a \in Asking /\ a.type = "room"
        /\ toServer # <<>> /\ server = Idle
        /\ toServer' = Tail(toServer)
    BY <1>6, ReceivesTyped DEF RoomReply, TransferTypeOK
  <2>2. /\ toServer' = <<>> /\ Asked /\ 1 \in DOMAIN toServer /\ a = toServer[1]
        /\ LeftOf(server) = <<>>
    BY <1>1, <1>3, <2>1, OneElement DEF Asked, Orderly, OneAtATime
  <2>3. id \in Room \cup {NoRoom}
    BY <2>1, AskingShapes
  <2>4. \/ /\ UNCHANGED server
           /\ \/ SendToClient(State("room;fail"))
              \/ SendToClient(NoSuch(id))
              \/ SendToClient(State("room;ok"))
        \/ /\ a.ok /\ NextRoom(id) \in Room
           /\ server' = [at |-> "room", room |-> NextRoom(id)] /\ UNCHANGED toClient
    <3>1. PICK n \in Confirmed :
        \/ /\ IF n = Head(toServer).id THEN UNCHANGED <<faults, misread>> ELSE Misreads
           /\ \/ /\ SendToClient(State("room;fail")) /\ UNCHANGED server
              \/ /\ SendToClient(NoSuch(n)) /\ UNCHANGED server
              \/ /\ SendToClient(State("room;ok")) /\ UNCHANGED server
              \/ /\ Head(toServer).ok /\ NextRoom(n) \in Room
                 /\ server' = [at |-> "room", room |-> NextRoom(n)]
                 /\ UNCHANGED toClient
        \/ n = Head(toServer).id /\ SendToClient(NoSuch(n)) /\ UNCHANGED server
      BY <1>6 DEF RoomReply
    <3>2. ~Misreads
      BY DEF Calm, Misreads
    <3>3. n = id
      BY <3>1, <3>2
    <3> QED
      BY <3>1, <3>3
  <2>5. CASE /\ UNCHANGED server
             /\ \/ SendToClient(State("room;fail"))
                \/ SendToClient(NoSuch(id))
                \/ SendToClient(State("room;ok"))
    <3>1. \A p \in {State("room;fail"), State("room;ok"), NoSuch(id)} :
            p \in Packet /\ p.type \in {"room;fail", "room;ok", "room;id;fail"}
      BY <2>3, PacketsMade
    <3>2. \A p \in {State("room;fail"), State("room;ok"), NoSuch(id)} :
            p \in Packet /\ ~Messages(p) /\ ~Carries(p)
      BY <3>1 DEF Messages, Carries
    <3>3. \E p \in {State("room;fail"), State("room;ok"), NoSuch(id)} : SendToClient(p)
      BY <2>5
    <3>4. LeftOf(server') = <<>> /\ server'.at \notin {"transfer", "room"}
      BY <1>3, <2>1, <2>5
    <3> QED
      BY <1>2, <2>2, <3>2, <3>3, <3>4, NothingLeft, SentRead
  <2>6. CASE /\ a.ok /\ NextRoom(id) \in Room
             /\ server' = [at |-> "room", room |-> NextRoom(id)] /\ UNCHANGED toClient
    <3>1. id \in Range(Chats) /\ Pos(NextRoom(id)) = Pos(id) + 1
      BY <1>1, <2>6, NextRoomIsNext
    <3>2. Pos(id) \in Nat
      BY <3>1, Positions, RoomAssumption
    <3>3. UpTo(toClient, <<>>, Pos(id))
      BY <2>1, <2>2, <2>6 DEF Read, RoomsAhead, Places, AnswerAt
    <3>4. server'.at = "room" /\ server'.room = NextRoom(id) /\ LeftOf(server') = <<>>
      BY <2>6 DEF LeftOf
    <3>5. UpTo(toClient, <<>>, Pos(server'.room) - 1)
      BY <3>1, <3>2, <3>3, <3>4
    <3> QED
      BY <1>2, <2>2, <2>6, <3>4, <3>5, NothingLeft, SentRead
  <2> QED
    BY <2>4, <2>5, <2>6
<1> QED
  BY <1>4, <1>5, <1>6

\* A sequence that agrees with a longer one is its prefix.
LEMMA PrefixMade ==
  ASSUME NEW S, NEW T, NEW s \in Seq(S), NEW t \in Seq(T), Len(s) <= Len(t),
         \A i \in 1..Len(s) : s[i] = t[i]
  PROVE  IsPrefix(s, t)
<1>1. Len(s) \in Nat /\ Len(t) \in Nat
  OBVIOUS
<1>2. SubSeq(s, 1, Len(s)) = SubSeq(t, 1, Len(s))
  <2>1. /\ SubSeq(s, 1, Len(s)) = [i \in 1..Len(s) |-> s[i]]
        /\ SubSeq(t, 1, Len(s)) = [i \in 1..Len(s) |-> t[i]]
    BY <1>1
  <2> QED
    BY <2>1
<1> QED
  BY <1>1, <1>2 DEF IsPrefix

\* The reader takes friends, a word or a room, and answers.
LEMMA FriendsKeepRead ==
  ASSUME TransferTypeOK, Calm, Calm', Orderly, Read, ReadFriends
  PROVE  Read'
<1> DEFINE p == toClient[1]
           l == LeftOf(server)
<1>1. /\ toClient \in Seq(Packet) /\ toClient # <<>> /\ mine \in Mine /\ ClientTyped
      /\ toServer \in Seq(Asking)
  BY MineTyped DEF ReadFriends, Incoming, TransferTypeOK, UnderWayTyped
<1>2. p \in Packet /\ 1 \in DOMAIN toClient /\ p.type = "frnd" /\ Taken /\ FriendsRead(p.n)
  BY <1>1, LaterMade DEF ReadFriends, Incoming
<1>3. PICK d \in 1..2 : Later(d)
  BY <1>1, <1>2, TakenLater
<1>4. p.n \in Nat /\ ~Messages(p)
  BY <1>2, PacketShapes DEF Messages
<1>5. /\ FriendsTaken(p.n) /\ mine' \in Mine /\ mine'.rooms = mine.rooms
      /\ login'.pending = login.pending
  BY <1>1, <1>2, <1>4, FriendsReadMade
<1>6. UNCHANGED <<server, stored, chats, other>>
  BY DEF ReadFriends, redis
<1>7. UpTo(toClient, l, 0)
  BY <1>2 DEF Read, RoomsAhead, Carries, AnswerAt
<1>8. mine.keyed \in BOOLEAN /\ TRUE \in BOOLEAN /\ FALSE \in BOOLEAN
  BY <1>1 DEF Mine
<1> DEFINE a(ok) == [type |-> "frnd", ok |-> ok, keyed |-> mine.keyed]
<1>9. \A ok \in BOOLEAN : a(ok) \in Asking /\ AnswerAt(a(ok)) = 0
  BY <1>8, AnswersMade DEF AnswerAt
<1>10. \A ok \in BOOLEAN : FriendReplied(ok) => Reply(a(ok))
  BY DEF FriendReplied
<1>11. UNCHANGED toServer \/ \E ok \in BOOLEAN : FriendReplied(ok)
  BY <1>5, <1>8 DEF FriendsTaken
<1> HIDE DEF a, l
<1>12. \/ UNCHANGED toServer
       \/ \E q \in Asking : Reply(q) /\ (Places(q) => UpTo(toClient, LeftOf(server), AnswerAt(q)))
  BY <1>7, <1>9, <1>10, <1>11 DEF l
<1> QED
  BY <1>3, <1>4, <1>5, <1>6, <1>12, AnsweredRead

\* A state word places nothing that messages on their way could precede.
LEMMA StateKeepsRead ==
  ASSUME TransferTypeOK, Calm, Calm', Orderly, Read, ReadState
  PROVE  Read'
<1> DEFINE p == toClient[1]
<1>1. /\ toClient \in Seq(Packet) /\ toClient # <<>> /\ mine \in Mine
      /\ login \in [pending : BOOLEAN, verdict : {"none", "ok", "fail", "timeout"}]
      /\ toClient' = Tail(toClient)
  BY MineTyped DEF ReadState, TransferTypeOK, UnderWayTyped
<1>2. p \in Packet /\ 1 \in DOMAIN toClient /\ Later(1) /\ p = Head(toClient)
  BY <1>1, LaterMade
<1> 1 \in 1..2
  OBVIOUS
<1>3. ~Misreads
  BY DEF Calm, Misreads
<1>4. \/ p.type \in {"frnd;fail", "room;fail"} /\ Dropped /\ UNCHANGED toServer
      \/ p.type = "room;ok" /\ Signal(TRUE) /\ UNCHANGED <<mine, toServer>>
      \/ p.type = "data;fail" /\ DataAsked /\ UNCHANGED <<mine, login>>
      \/ p.type = "room;id;fail" /\ RoomReplied(p.id, FALSE) /\ UNCHANGED <<mine, login>>
  BY <1>2, <1>3 DEF ReadState
<1>5. ~Messages(p)
  BY <1>4 DEF Messages
<1>6. UNCHANGED <<server, stored, chats, other>>
  BY DEF ReadState, redis
<1>7. mine.keyed \in BOOLEAN /\ FALSE \in BOOLEAN /\ TRUE \in BOOLEAN
  BY <1>1 DEF Mine
<1>8. CASE p.type \in {"frnd;fail", "room;fail"} /\ Dropped /\ UNCHANGED toServer
  <2>1. mine' = Free /\ Signal(FALSE)
    BY <1>8 DEF Dropped
  <2>2. mine' \in Mine /\ mine'.rooms = <<>> /\ DOMAIN <<>> = {}
    <3>1. Free.rooms = <<>>
      BY DEF Free
    <3> QED
      BY <2>1, <3>1, MineMade
  <2>3. login'.pending = login.pending
    BY <1>1, <1>7, <2>1, SignalTyped
  <2> QED
    BY <1>2, <1>5, <1>6, <1>8, <2>2, <2>3, AnsweredRead
<1>9. CASE p.type = "room;ok" /\ Signal(TRUE) /\ UNCHANGED <<mine, toServer>>
  <2>1. login'.pending = login.pending
    BY <1>1, <1>7, <1>9, SignalTyped
  <2> QED
    BY <1>1, <1>2, <1>5, <1>6, <1>9, <2>1, AnsweredRead
<1>10. CASE p.type = "data;fail" /\ DataAsked /\ UNCHANGED <<mine, login>>
  <2> DEFINE a == [type |-> "data", keyed |-> mine.keyed]
  <2>1. a \in Asking /\ AnswerAt(a) = 0 /\ Reply(a)
    BY <1>7, <1>10, AnswersMade DEF DataAsked, AnswerAt
  <2>2. UpTo(toClient, LeftOf(server), 0)
    BY <1>2, <1>10 DEF Read, RoomsAhead, Carries, AnswerAt
  <2> HIDE DEF a
  <2> QED
    BY <1>1, <1>2, <1>5, <1>6, <1>10, <2>1, <2>2, AnsweredRead
<1>11. CASE p.type = "room;id;fail" /\ RoomReplied(p.id, FALSE) /\ UNCHANGED <<mine, login>>
  <2> DEFINE a == [type |-> "room", id |-> p.id, ok |-> FALSE, keyed |-> mine.keyed]
  <2>1. p.id \in Room \cup {NoRoom}
    BY <1>2, <1>11, PacketShapes
  <2>2. a \in Asking /\ a.type = "room" /\ ~a.ok /\ Reply(a)
    BY <1>7, <1>11, <2>1, AnswersMade DEF RoomReplied
  <2> HIDE DEF a
  <2>3. ~Places(a)
    BY <2>2 DEF Places
  <2> QED
    BY <1>1, <1>2, <1>5, <1>6, <1>11, <2>2, <2>3, AnsweredRead
<1> QED
  BY <1>4, <1>8, <1>9, <1>10, <1>11

\* A new room has no messages, and none of a later room are on their way.
LEMMA RoomKeepsRead ==
  ASSUME TransferTypeOK, Orderly, Read, ReadRoom
  PROVE  Read'
<1> DEFINE p == toClient[1]
<1>1. /\ toClient \in Seq(Packet) /\ toClient # <<>> /\ mine \in Mine
  BY MineTyped DEF ReadRoom, Incoming, TransferTypeOK, UnderWayTyped
<1>2. p \in Packet /\ 1 \in DOMAIN toClient /\ p.type = "room" /\ Taken /\ p = Head(toClient)
  BY <1>1, LaterMade DEF ReadRoom, Incoming
<1>3. PICK d \in 1..2 : Later(d)
  BY <1>1, <1>2, TakenLater
<1>4. ~Messages(p) /\ p.id \in Room
  BY <1>2, PacketShapes DEF Messages
<1>5. /\ mine' = AddedRoom(p.id, p.amount)
      /\ UNCHANGED toServer \/ RoomReplied(p.id, TRUE)
      /\ UNCHANGED <<server, stored, chats, other, login>>
  BY <1>2 DEF ReadRoom, redis
<1> DEFINE n == Len(mine.rooms)
<1>6. n \in Nat /\ DOMAIN mine.rooms = 1..n
  BY <1>1 DEF Mine
<1>7. /\ mine' \in Mine
      /\ \A i \in DOMAIN mine'.rooms :
            \/ mine'.rooms[i].msgs = <<>>
            \/ i \in DOMAIN mine.rooms /\ mine'.rooms[i] = mine.rooms[i]
  <2>1. /\ mine' \in Mine
        /\ n = RoomMax => mine' = mine
        /\ n # RoomMax =>
             /\ DOMAIN mine'.rooms = 1..n + 1
             /\ mine'.rooms[n + 1].msgs = <<>>
             /\ \A i \in DOMAIN mine.rooms : mine'.rooms[i] = mine.rooms[i]
    BY <1>1, <1>2, <1>5, RoomTaken
  <2>2. n # RoomMax => \A i \in DOMAIN mine'.rooms : i \in DOMAIN mine.rooms \/ i = n + 1
    BY <1>6, <2>1
  <2> QED
    BY <2>1, <2>2
<1>8. \/ UNCHANGED toServer
      \/ \E a \in Asking : Reply(a) /\ (Places(a) => UpTo(toClient, LeftOf(server), AnswerAt(a)))
  <2> DEFINE a == [type |-> "room", id |-> p.id, ok |-> TRUE, keyed |-> mine.keyed]
  <2>1. mine.keyed \in BOOLEAN /\ TRUE \in BOOLEAN
    BY <1>1 DEF Mine
  <2>2. a \in Asking /\ AnswerAt(a) = Pos(p.id)
    BY <1>4, <2>1, AnswersMade DEF AnswerAt
  <2>3. RoomReplied(p.id, TRUE) => Reply(a)
    BY DEF RoomReplied
  <2>4. UpTo(toClient, LeftOf(server), Pos(p.id))
    BY <1>2 DEF Read, RoomsAhead, Carries, AnswerAt
  <2> HIDE DEF a
  <2> QED
    BY <1>5, <2>2, <2>3, <2>4
<1> QED
  BY <1>3, <1>4, <1>5, <1>7, <1>8, AnsweredRead

\* Steps that move nothing: the log-in may have ended.
LEMMA WaitersKeepRead ==
  ASSUME TransferTypeOK, Read,
         SignalMessages \/ TimeOut \/ Dialog \/ Expire \/ UNCHANGED transferVars
  PROVE  Read'
<1>1. UNCHANGED <<server, stored, chats, other, toClient, toServer, mine>>
  BY DEF SignalMessages, TimeOut, Dialog, Expire, transferVars, redis, client
<1>2. login'.pending => login.pending
  <2>1. login \in [pending : BOOLEAN, verdict : {"none", "ok", "fail", "timeout"}]
        /\ reader \in {Reading} \cup [at : {"signal"}, ok : BOOLEAN]
    BY MineTyped DEF TransferTypeOK
  <2>2. CASE SignalMessages
    <3>1. reader # Reading /\ Signal(reader.ok)
      BY <2>2 DEF SignalMessages
    <3>2. reader.ok \in BOOLEAN
      BY <2>1, <3>1
    <3> QED
      BY <2>1, <3>1, <3>2, SignalTyped
  <2>3. CASE TimeOut
    BY <2>3 DEF TimeOut
  <2>4. CASE Dialog
    BY <2>1, <2>4 DEF Dialog
  <2>5. CASE Expire \/ UNCHANGED transferVars
    BY <2>5 DEF Expire, transferVars, client
  <2> QED
    BY <2>2, <2>3, <2>4, <2>5
<1>3. HistoriesRead'
  BY <1>1, <1>2 DEF Read, HistoriesRead
<1> QED
  BY <1>1, <1>3 DEF Read, Undisturbed, ChunksSound, FirstComesFirst, RoomsAhead

\* While no other user does anything, every step keeps the histories readable.
LEMMA ReadStays ==
  ASSUME TransferTypeOK, Len(Chats) <= Len(chats), [TransferNext]_transferVars,
         Calm => Orderly, Alone => Read
  PROVE  Alone' => Read'
<1> SUFFICES ASSUME Alone' PROVE Read'
  OBVIOUS
<1>1. pushes \in Nat /\ misread \in BOOLEAN
  BY DEF TransferTypeOK, HistoryTyped
<1>2. Alone /\ \A r \in Room : ~OtherSends(r) /\ ~OtherAccepts(r)
  <2>1. pushes' = 0 /\ ~misread'
    BY DEF Alone
  <2>2. \A r \in Room : OtherSends(r) \/ OtherAccepts(r) => pushes' = pushes + 1
    BY DEF OtherSends, OtherAccepts
  <2>3. \A r \in Room : ~OtherSends(r) /\ ~OtherAccepts(r)
    BY <1>1, <2>1, <2>2
  <2>4. UNCHANGED pushes
    BY <2>3 DEF TransferNext, transferVars, history, Server, Reader, Unrecognised, DataRequest,
           FriendReply, Transfer, SendRoom, SendChunk, RoomReply, Expire, OtherDelivers,
           ReadFriends, ReadState, ReadRoom, ReadMessages, SignalMessages, TimeOut, Dialog
  <2>5. misread => misread'
    BY <2>3 DEF TransferNext, transferVars, history, Server, Reader, Unrecognised, DataRequest,
           FriendReply, Transfer, SendRoom, SendChunk, RoomReply, Expire, OtherDelivers,
           ReadFriends, ReadState, ReadRoom, ReadMessages, SignalMessages, TimeOut, Dialog, Misreads
  <2> QED
    BY <2>1, <2>3, <2>4, <2>5 DEF Alone
<1>3. Read /\ other = <<>> /\ Calm /\ Orderly
  BY <1>2 DEF Alone, Read, Undisturbed, Calm
<1>4. UNCHANGED chats
  BY <1>2 DEF TransferNext, transferVars, redis, Server, Reader, Unrecognised, DataRequest,
         FriendReply, Transfer, SendRoom, SendChunk, RoomReply, Expire, OtherDelivers,
         ReadFriends, ReadState, ReadRoom, ReadMessages, SignalMessages, TimeOut, Dialog
<1>5. Calm'
  BY <1>3, <1>4 DEF Calm, Alone
<1>6. ~OtherDelivers
  BY <1>3 DEF OtherDelivers
<1>7. CASE Server
  <2>1. CASE Unrecognised \/ DataRequest \/ FriendReply
    BY <1>3, <2>1, ServerRead
  <2>2. CASE Transfer \/ SendRoom \/ RoomReply
    BY <1>3, <1>5, <2>2, RoomsRead
  <2>3. CASE SendChunk
    BY <1>3, <2>3, ChunkRead
  <2> QED
    BY <1>7, <2>1, <2>2, <2>3 DEF Server
<1>8. CASE ReadFriends \/ ReadState \/ ReadRoom \/ ReadMessages
  BY <1>3, <1>5, <1>8, FriendsKeepRead, StateKeepsRead, RoomKeepsRead, MessagesKeepRead
<1>9. CASE SignalMessages \/ TimeOut \/ Dialog \/ Expire \/ UNCHANGED transferVars
  BY <1>3, <1>9, WaitersKeepRead
<1> QED
  BY <1>2, <1>6, <1>7, <1>8, <1>9 DEF TransferNext, Reader

\* At log-in only the request for data is on its way.
LEMMA TransferInitInv == TransferInit => TransferInv
<1> SUFFICES ASSUME TransferInit PROVE TransferInv
  OBVIOUS
<1>1. TransferTypeOK
  BY InitTyped
<1>2. /\ chats = Chats /\ other = <<>> /\ toClient = <<>> /\ server = Idle
      /\ toServer = <<[type |-> "data", keyed |-> TRUE]>>
      /\ friends = Friends
      /\ mine.friends = 0 /\ mine.rooms = <<>>
      /\ Idle.at = "idle"
  BY StagesMade DEF TransferInit, Free
<1> DEFINE a == [type |-> "data", keyed |-> TRUE]
<1>3. /\ Len(toServer) = 1 /\ DOMAIN toServer = {1} /\ toServer[1].type = "data"
  BY <1>2
<1>4. DOMAIN <<>> = {} /\ Len(<<>>) = 0 /\ Len(Chats) \in Nat
  BY RoomAssumption
<1>5. OneAtATime
  BY <1>2, <1>3, <1>4 DEF OneAtATime
<1>6. InStep
  BY <1>2, <1>3, <1>4 DEF InStep, AnswerFits, StageFits, NothingYet
<1>7. RoomsInOrder
  BY <1>2, <1>4 DEF RoomsInOrder
<1>8. LeftOf(server) = <<>>
  BY <1>2 DEF LeftOf
<1>9. Read
  BY <1>2, <1>4, <1>8 DEF Read, Undisturbed, ChunksSound, FirstComesFirst, RoomsAhead, UpTo,
                          HistoriesRead
<1> QED
  BY <1>1, <1>2, <1>4, <1>5, <1>6, <1>7, <1>9 DEF TransferInv, Orderly

-----------------------------------------------------------------------------
(* The theorems.                                                           *)

\* The invariant of the transfer.
THEOREM TransferInvariance == TransferSpec => []TransferInv
<1>1. TransferInit => TransferInv
  BY TransferInitInv
<1>2. TransferInv /\ [TransferNext]_transferVars => TransferInv'
  <2> SUFFICES ASSUME TransferInv, [TransferNext]_transferVars PROVE TransferInv'
    OBVIOUS
  <2>1. TransferTypeOK'
    BY StepTyped DEF TransferInv
  <2>2. Len(Chats) <= Len(chats')
    BY ChatsGrow DEF TransferInv
  <2>3. Calm' => Orderly'
    BY OrderlyStays DEF TransferInv
  <2>4. Alone' => Read'
    BY ReadStays DEF TransferInv
  <2> QED
    BY <2>1, <2>2, <2>3, <2>4 DEF TransferInv
<1> QED
  BY <1>1, <1>2, PTL DEF TransferSpec

\* Without a new friend a client has the first chats of its user, each once and
\* in order, and his friends once, whatever fails and is tried again
\* (process_data_response, process_friend_data, process_room_data).
THEOREM DataComesOnce == TransferSpec => []DataOnce
<1>1. TransferInv => DataOnce
  <2> SUFFICES ASSUME TransferInv, Calm
               PROVE  IsPrefix(Ids(mine.rooms), Chats) /\ mine.friends \in {0, Friends}
    BY DEF DataOnce, Calm
  <2>1. RoomsInOrder /\ mine \in Mine
    BY MineTyped DEF TransferInv, Orderly, TransferTypeOK
  <2>2. mine.rooms \in Seq(RoomKept) /\ Chats \in Seq(Room)
    BY <2>1, RoomAssumption DEF Mine
  <2> DEFINE s == Ids(mine.rooms)
  <2>3. /\ s \in Seq(Room)
        /\ Len(s) = Len(mine.rooms)
        /\ \A i \in 1..Len(s) : s[i] = Chats[i]
    <3>1. \A i \in 1..Len(mine.rooms) : mine.rooms[i].id \in Room
      <4>1. \A i \in 1..Len(mine.rooms) : mine.rooms[i] \in RoomKept
        BY <2>2
      <4> QED
        BY <4>1 DEF RoomKept
    <3>2. s = [i \in 1..Len(mine.rooms) |-> mine.rooms[i].id] /\ Len(mine.rooms) \in Nat
      BY <2>2 DEF Ids
    <3>3. s \in Seq(Room) /\ Len(s) = Len(mine.rooms)
      BY <3>1, <3>2
    <3>4. \A i \in 1..Len(s) : s[i] = mine.rooms[i].id /\ i \in DOMAIN mine.rooms
      BY <2>2, <3>2, <3>3
    <3> QED
      BY <2>1, <3>3, <3>4 DEF RoomsInOrder
  <2> HIDE DEF s
  <2>4. Len(s) <= Len(Chats)
    BY <2>1, <2>3 DEF RoomsInOrder
  <2>5. IsPrefix(s, Chats)
    BY <2>2, <2>3, <2>4, PrefixMade
  <2> QED
    BY <2>1, <2>5 DEF RoomsInOrder, s
<1> QED
  BY <1>1, TransferInvariance, PTL

\* What the client has of a room, when no other user does anything, is the
\* beginning of its messages, and garbage only after the log-in
\* (extract_rmsg, add_messages_data, get_room_message_packets).
THEOREM HistoriesArePrefixes == TransferSpec => []HistoryIsPrefix
<1>1. TransferInv => HistoryIsPrefix
  <2> SUFFICES ASSUME TransferInv, Alone, NEW i \in DOMAIN mine.rooms
               PROVE  LET msgs == mine.rooms[i].msgs
                      IN \E n \in 0..Len(msgs) :
                            /\ IsPrefix(SubSeq(msgs, 1, n), stored[mine.rooms[i].id])
                            /\ \A k \in n + 1..Len(msgs) : msgs[k] = Garbage
                            /\ login.pending => n = Len(msgs)
    BY DEF HistoryIsPrefix, Alone
  <2> DEFINE msgs == mine.rooms[i].msgs
             all  == stored[mine.rooms[i].id]
  <2>1. PICK n \in Nat : Beginning(msgs, all, n) /\ (login.pending => n = Len(msgs))
    BY DEF TransferInv, Read, HistoriesRead
  <2>2. msgs \in Seq(Text) /\ all \in Seq(Text)
    <3>1. mine \in Mine /\ stored \in [Room -> Seq(Text)]
      BY MineTyped DEF TransferInv, TransferTypeOK, RedisTyped
    <3>2. mine.rooms[i] \in RoomKept
      BY <3>1 DEF Mine
    <3> QED
      BY <3>1, <3>2 DEF RoomKept
  <2> HIDE DEF msgs, all
  <2>3. /\ n \in 0..Len(msgs) /\ n <= Len(all)
        /\ \A k \in 1..n : msgs[k] = all[k]
        /\ \A k \in n + 1..Len(msgs) : msgs[k] = Garbage
    BY <2>1 DEF Beginning
  <2> DEFINE s == SubSeq(msgs, 1, n)
  <2>4. s \in Seq(Text) /\ Len(s) = n /\ \A k \in 1..n : s[k] = msgs[k]
    <3>1. n \in Nat /\ n <= Len(msgs) /\ Len(msgs) \in Nat
      BY <2>2, <2>3
    <3> QED
      BY <2>2, <3>1
  <2> HIDE DEF s
  <2>5. IsPrefix(s, all)
    BY <2>2, <2>3, <2>4, PrefixMade
  <2>6. \E k \in 0..Len(msgs) : /\ IsPrefix(SubSeq(msgs, 1, k), all)
                                /\ \A j \in k + 1..Len(msgs) : msgs[j] = Garbage
                                /\ login.pending => k = Len(msgs)
    BY <2>1, <2>3, <2>5 DEF s
  <2> QED
    BY <2>6 DEF msgs, all
<1> QED
  BY <1>1, TransferInvariance, PTL
=============================================================================
