------------------------- MODULE RoomMessagesProofs -------------------------
(***************************************************************************)
(* Theorems about RoomMessages, for any number of members, any of them     *)
(* connected, and any number of packets: what the threads do to the room   *)
(* while their MULTIs, EXECs and other commands mix on one connection.     *)
(***************************************************************************)
EXTENDS RoomMessages, SequenceTheorems, FiniteSetTheorems, TLAPS

\* The ids that are or will be in the list: a pending RPUSH is as good as done.
Stored == room.list \o pending.list
Hashed == room.hash \cup pending.hash

\* Outside of a transaction nothing is queued.
QueueIsInside == ~multi => pending = Nothing

\* Drawn and not yet pushed: the id belongs to the thread alone.
Draws(u) == pc[u] \in {"multi", "rpush"}

IdsDrawnOnce ==
    /\ \A i, j \in DOMAIN Stored : Stored[i] = Stored[j] => i = j
    /\ \A i \in DOMAIN Stored : Stored[i] \in 1..room.amount
    /\ \A u \in Connected : Draws(u) =>
          /\ mid[u] \in 1..room.amount
          /\ \A i \in DOMAIN Stored : Stored[i] # mid[u]
    /\ \A u, v \in Connected : Draws(u) /\ Draws(v) /\ mid[u] = mid[v] => u = v

InList(m, list) == \E i \in DOMAIN list : list[i] = m
InHash(m, hash) == \E a \in 0..NumUsers : <<m, a>> \in hash

\* How far a thread has come with storing its message.
MessageOnItsWay ==
    \A u \in Connected :
        /\ author[u] \in 0..NumUsers
        /\ pc[u] \in {"hset", "exec"} => \E i \in DOMAIN Stored : Stored[i] = mid[u]
        /\ pc[u] = "exec" => InHash(mid[u], Hashed)
        /\ pc[u] = "deliver" => InList(mid[u], room.list) /\ InHash(mid[u], room.hash)
        /\ \A m \in inbox[u] : InList(m, room.list) /\ InHash(m, room.hash)

IInv == TypeOK /\ QueueIsInside /\ IdsDrawnOnce /\ MessageOnItsWay /\ ViewIsPrefix

-----------------------------------------------------------------------------
(* The operators on the room's data.                                       *)

\* A command that writes the list, or the hash, adds one element to it.
LEMMA Appended ==
    ASSUME NEW data \in Data, NEW m \in Nat, NEW a \in Nat
    PROVE  /\ Append1(data, "list", m) = [data EXCEPT !.list = Append(data.list, m)]
           /\ Append1(data, "list", m) \in Data
           /\ Append1(data, "hash", <<m, a>>) = [data EXCEPT !.hash = data.hash \cup {<<m, a>>}]
           /\ Append1(data, "hash", <<m, a>>) \in Data
<1>1. Append1(data, "list", m) = [data EXCEPT !.list = Append(data.list, m)]
  BY DEF Append1
<1>2. Append1(data, "hash", <<m, a>>) = [data EXCEPT !.hash = data.hash \cup {<<m, a>>}]
  BY DEF Append1
<1>3. Append(data.list, m) \in Seq(Nat) /\ data.hash \cup {<<m, a>>} \in SUBSET (Nat \X Nat)
  BY DEF Data
<1> QED
  BY <1>1, <1>2, <1>3 DEF Data

\* HINCRBY changes the counter only.
LEMMA IncrementedData ==
    ASSUME NEW data \in Data
    PROVE  /\ Incremented(data) \in Data
           /\ Incremented(data).amount = data.amount + 1
           /\ Incremented(data).list = data.list
           /\ Incremented(data).hash = data.hash
<1>1. data.amount \in Nat /\ data.amount + 1 \in Nat
  BY DEF Data
<1> QED
  BY <1>1 DEF Incremented, Data

\* EXEC keeps the list and puts what is queued behind it.
LEMMA FlushedData ==
    ASSUME room \in Data, pending \in Data
    PROVE  /\ Flushed \in Data
           /\ Flushed.list = Stored
           /\ Flushed.hash = Hashed
           /\ Flushed.amount >= room.amount
<1>1. Stored \in Seq(Nat)
  BY ConcatProperties DEF Data, Stored
<1> QED
  BY <1>1 DEF Flushed, Data, Stored, Hashed

\* What LRANGE returns to a reader is a prefix of the list.
LEMMA ReadablePrefix ==
    ASSUME TypeOK, NEW u \in Connected
    PROVE  /\ Readable(u) \in Seq(Nat)
           /\ Len(Readable(u)) <= view[u].amount
           /\ Len(Readable(u)) <= Len(room.list)
           /\ \A i \in 1..Len(Readable(u)) : Readable(u)[i] = room.list[i]
<1> DEFINE n == Least(view[u].amount, Len(room.list))
<1>1. room.list \in Seq(Nat) /\ Len(room.list) \in Nat /\ view[u].amount \in Nat
  BY DEF TypeOK, Data
<1>2. n \in Nat /\ n <= view[u].amount /\ n <= Len(room.list)
  BY <1>1 DEF Least
<1>3. \A i \in 1..n : room.list[i] \in Nat
  BY <1>1, <1>2
<1> HIDE DEF n
<1>4. /\ SubSeq(room.list, 1, n) \in Seq(Nat)
      /\ Len(SubSeq(room.list, 1, n)) = n
      /\ \A i \in 1..n : SubSeq(room.list, 1, n)[i] = room.list[i]
  <2>1. 1 \in Int /\ n \in Int
    BY <1>2
  <2>2. /\ SubSeq(room.list, 1, n) \in Seq(Nat)
        /\ Len(SubSeq(room.list, 1, n)) = IF 1 <= n THEN n - 1 + 1 ELSE 0
        /\ \A i \in 1..n - 1 + 1 : SubSeq(room.list, 1, n)[i] = room.list[1 + i - 1]
    BY <1>3, <2>1, SubSeqProperties
  <2> QED
    BY <1>2, <2>2
<1> QED
  BY <1>2, <1>4 DEF Readable, n

-----------------------------------------------------------------------------
(* Types.                                                                  *)

\* What RPUSH and HSET do to the room and to the queue.
LEMMA StoreTypes ==
    ASSUME TypeOK, NEW u \in Connected,
           Store("list", mid[u]) \/ Store("hash", <<mid[u], author[u]>>)
    PROVE  room' \in Data /\ pending' \in Data
<1>1. room \in Data /\ pending \in Data /\ mid[u] \in Nat /\ author[u] \in Nat
  BY DEF TypeOK
<1>2. /\ Append1(room, "list", mid[u]) \in Data
      /\ Append1(room, "hash", <<mid[u], author[u]>>) \in Data
      /\ Append1(pending, "list", mid[u]) \in Data
      /\ Append1(pending, "hash", <<mid[u], author[u]>>) \in Data
  BY <1>1, Appended
<1> QED
  BY <1>1, <1>2 DEF Store

\* The types of what every action may change, but for overlap.
LEMMA WorkTypes ==
    ASSUME TypeOK, NEW u \in Connected, Receive(u) \/ Work(u), overlap' \in BOOLEAN
    PROVE  TypeOK'
<1> USE DEF redis, locals, Goto, At, Steps
<1>a. room \in Data /\ pending \in Data /\ room.amount \in Nat
  BY DEF TypeOK, Data
<1>b. Connected \subseteq Nat
  BY UsersAssumption DEF User
<1>1. CASE Receive(u)
  <2>1. NoView \in [amount : Nat, ids : Seq(Nat)]
    BY DEF NoView
  <2>2. /\ packets' \in [Connected -> 0..MaxPackets]
        /\ op' \in [Connected -> {"smsg", "room"}]
        /\ next' \in [Connected -> 1..(NumUsers + 1)]
    BY SMTT(30), <1>1, UsersAssumption DEF Receive, TypeOK
  <2> QED
    BY <1>1, <2>1, <2>2 DEF Receive, TypeOK
<1>2. CASE Check(u)
  BY <1>2 DEF Check, TypeOK
<1>3. CASE ReadSession(u)
  <2>1. author' \in [Connected -> Nat]
    <3>1. u \in Nat /\ SessionUser(u) \in Nat
      BY <1>b DEF SessionUser
    <3>2. \/ author' = author
          \/ author' = [author EXCEPT ![u] = 0]
          \/ author' = [author EXCEPT ![u] = SessionUser(u)]
      BY <1>3 DEF ReadSession
    <3>3. author \in [Connected -> Nat]
      BY DEF TypeOK
    <3> QED
      BY <3>1, <3>2, <3>3
  <2> QED
    BY <1>3, <2>1 DEF ReadSession, TypeOK
<1>4. CASE ReadAmounts(u)
  <2>1. [amount |-> room.amount, ids |-> <<>>] \in [amount : Nat, ids : Seq(Nat)]
    BY <1>a
  <2> QED
    BY <1>4, <2>1 DEF ReadAmounts, TypeOK
<1>5. CASE ReadUsers(u)
  BY <1>5 DEF ReadUsers, TypeOK
<1>6. CASE ReadMessages(u)
  <2>1. [view[u] EXCEPT !.ids = Readable(u)] \in [amount : Nat, ids : Seq(Nat)]
    BY ReadablePrefix DEF TypeOK
  <2> QED
    BY ZenonT(30), <1>6, <2>1 DEF ReadMessages, TypeOK
<1>7. CASE NextMessage(u)
  <2>1. Incremented(room) \in Data /\ Incremented(pending) \in Data
    BY <1>a, IncrementedData
  <2>2. mid' \in [Connected -> Nat]
    <3>1. room.amount + 1 \in Nat
      BY <1>a
    <3>2. mid' = mid \/ mid' = [mid EXCEPT ![u] = room.amount + 1]
      BY <1>7 DEF NextMessage
    <3> QED
      BY <3>1, <3>2 DEF TypeOK
  <2> QED
    BY <1>7, <2>1, <2>2 DEF NextMessage, TypeOK
<1>8. CASE Multi(u)
  BY <1>8 DEF Multi, TypeOK
<1>9. CASE Rpush(u)
  BY <1>9, StoreTypes DEF Rpush, TypeOK
<1>10. CASE Hset(u)
  BY <1>10, StoreTypes DEF Hset, TypeOK
<1>11. CASE Exec(u)
  <2>1. Nothing \in Data
    BY DEF Nothing, Data
  <2>2. room' \in Data
    BY <1>11, <1>a, FlushedData DEF Exec
  <2>3. next' \in [Connected -> 1..(NumUsers + 1)]
    BY <1>11, UsersAssumption DEF Exec, TypeOK
  <2> QED
    BY <1>11, <2>1, <2>2, <2>3 DEF Exec, TypeOK
<1>12. CASE Deliver(u)
  <2>1. next' \in [Connected -> 1..(NumUsers + 1)]
    <3>1. next[u] \in 1..(NumUsers + 1) /\ next[u] <= NumUsers
      BY <1>12 DEF Deliver, InLoop, TypeOK
    <3>2. next[u] + 1 \in 1..(NumUsers + 1)
      BY <3>1, UsersAssumption
    <3> QED
      BY <1>12, <3>2 DEF Deliver, NextMember, TypeOK
  <2>2. inbox' \in [Connected -> SUBSET Nat]
    BY <1>12 DEF Deliver, TypeOK
  <2> QED
    BY <1>12, <2>1, <2>2 DEF Deliver, TypeOK
<1>13. CASE Finish(u)
  BY <1>13 DEF Finish, TypeOK
<1> QED
  BY <1>1, <1>2, <1>3, <1>4, <1>5, <1>6, <1>7, <1>8, <1>9, <1>10, <1>11, <1>12, <1>13
  DEF Work

\* Every step keeps the types.
LEMMA TypeStep == TypeOK /\ [Next]_vars => TypeOK'
<1> SUFFICES ASSUME TypeOK, [Next]_vars PROVE TypeOK'
  OBVIOUS
<1>1. CASE Next
  <2>1. PICK u \in Connected : (Receive(u) \/ Work(u)) /\ Noted(u)
    BY <1>1 DEF Next, Serve
  <2>2. overlap' \in BOOLEAN
    BY <2>1 DEF Noted
  <2> QED
    BY <2>1, <2>2, WorkTypes
<1>2. CASE UNCHANGED vars
  BY <1>2 DEF vars, redis, locals, TypeOK
<1> QED
  BY <1>1, <1>2

-----------------------------------------------------------------------------
(* How a step changes the room.                                            *)

\* t begins with s.
Begins(s, t) == Len(s) <= Len(t) /\ \A i \in 1..Len(s) : t[i] = s[i]

\* Appending one element or another sequence only adds to a list.
LEMMA LongerBegins ==
    ASSUME NEW s \in Seq(Nat), NEW t \in Seq(Nat), NEW m \in Nat
    PROVE  Begins(s, s) /\ Begins(s, s \o t) /\ Begins(s, Append(s, m))
<1>1. Len(s) \in Nat /\ Len(t) \in Nat
  OBVIOUS
<1>2. Begins(s, s \o t)
  BY <1>1, ConcatProperties DEF Begins
<1> QED
  BY <1>1, <1>2 DEF Begins

\* What begins the beginning begins the whole.
LEMMA BeginsOn ==
    ASSUME NEW r \in Seq(Nat), NEW s \in Seq(Nat), NEW t \in Seq(Nat),
           Begins(r, s), Begins(s, t)
    PROVE  Begins(r, t)
<1>1. Len(r) \in Nat /\ Len(s) \in Nat /\ Len(t) \in Nat
  OBVIOUS
<1> QED
  BY <1>1 DEF Begins

\* What begins a list is still in it.
LEMMA StillIn ==
    ASSUME NEW s \in Seq(Nat), NEW t \in Seq(Nat), Begins(s, t), NEW i \in DOMAIN s
    PROVE  i \in DOMAIN t /\ t[i] = s[i]
  BY DEF Begins

\* Types of what is stored.
LEMMA StoredTypes ==
    ASSUME TypeOK
    PROVE  /\ room \in Data /\ room.amount \in Nat /\ room.list \in Seq(Nat)
           /\ pending \in Data /\ pending.list \in Seq(Nat) /\ Stored \in Seq(Nat)
<1>1. /\ room \in Data /\ room.amount \in Nat /\ room.list \in Seq(Nat)
      /\ pending \in Data /\ pending.list \in Seq(Nat)
  BY DEF TypeOK, Data
<1> QED
  BY <1>1, ConcatProperties DEF Stored

\* Without a transaction the list is all there is.
LEMMA NothingQueued ==
    ASSUME TypeOK, pending = Nothing
    PROVE  Stored = room.list /\ Hashed = room.hash
  BY StoredTypes, ConcatEmptySeq DEF Stored, Hashed, Nothing

\* To append to what is queued is to append to what is stored.
LEMMA AppendBehind ==
    ASSUME NEW s \in Seq(Nat), NEW t \in Seq(Nat), NEW m \in Nat
    PROVE  s \o Append(t, m) = Append(s \o t, m)
<1>1. Append(t, m) \in Seq(Nat) /\ s \o t \in Seq(Nat) /\ <<m>> \in Seq(Nat)
  BY ConcatProperties, AppendProperties
<1>2. Append(t, m) = t \o <<m>>
  BY AppendIsConcat
<1>3. Append(s \o t, m) = (s \o t) \o <<m>>
  BY <1>1, AppendIsConcat
<1>4. (s \o t) \o <<m>> = s \o (t \o <<m>>)
  BY <1>1, ConcatAssociative
<1> QED
  BY <1>2, <1>3, <1>4

\* RPUSH appends the thread's id, in the list or in the queue.
LEMMA RpushData ==
    ASSUME TypeOK, QueueIsInside, NEW u \in Connected, Rpush(u)
    PROVE  /\ QueueIsInside'
           /\ Stored' = Append(Stored, mid[u])
           /\ room'.amount = room.amount
           /\ Hashed' = Hashed /\ room'.hash = room.hash
           /\ Begins(room.list, room'.list)
<1>1. mid[u] \in Nat
  BY DEF TypeOK
<1>2. CASE multi
  <2>1. room' = room /\ multi' = multi
        /\ pending' = [pending EXCEPT !.list = Append(pending.list, mid[u])]
    BY <1>1, <1>2, Appended, StoredTypes DEF Rpush, Store
  <2>2. pending'.list = Append(pending.list, mid[u]) /\ pending'.hash = pending.hash
    BY <2>1, StoredTypes DEF Data
  <2>3. Stored' = room.list \o Append(pending.list, mid[u])
    BY <2>1, <2>2 DEF Stored
  <2>4. room.list \o Append(pending.list, mid[u]) = Append(room.list \o pending.list, mid[u])
    BY <1>1, StoredTypes, AppendBehind
  <2> QED
    BY <1>1, <1>2, <2>1, <2>2, <2>3, <2>4, LongerBegins, StoredTypes
    DEF Stored, Hashed, QueueIsInside
<1>3. CASE ~multi
  <2>1. pending' = pending /\ multi' = multi
        /\ room' = [room EXCEPT !.list = Append(room.list, mid[u])]
    BY <1>1, <1>3, Appended, StoredTypes DEF Rpush, Store
  <2>2. /\ room'.list = Append(room.list, mid[u]) /\ room'.hash = room.hash
        /\ room'.amount = room.amount
    BY <2>1, StoredTypes DEF Data
  <2>3. pending = Nothing
    BY <1>3 DEF QueueIsInside
  <2>4. Append(room.list, mid[u]) \in Seq(Nat)
    BY <1>1, StoredTypes
  <2>5. Stored' = Append(room.list, mid[u])
    BY <2>1, <2>2, <2>3, <2>4, ConcatEmptySeq DEF Stored, Nothing
  <2> QED
    BY <1>1, <2>1, <2>2, <2>3, <2>5, NothingQueued, LongerBegins, StoredTypes
    DEF Hashed, QueueIsInside
<1> QED
  BY <1>2, <1>3

\* HSET adds the hash, in the room or in the queue.
LEMMA HsetData ==
    ASSUME TypeOK, QueueIsInside, NEW u \in Connected, Hset(u)
    PROVE  /\ QueueIsInside'
           /\ Stored' = Stored
           /\ room'.amount = room.amount /\ room'.list = room.list
           /\ Hashed' = Hashed \cup {<<mid[u], author[u]>>}
           /\ room.hash \subseteq room'.hash
<1>1. mid[u] \in Nat /\ author[u] \in Nat
  BY DEF TypeOK
<1> DEFINE h == <<mid[u], author[u]>>
<1>h. /\ Append1(room, "hash", h) = [room EXCEPT !.hash = room.hash \cup {h}]
      /\ Append1(pending, "hash", h) = [pending EXCEPT !.hash = pending.hash \cup {h}]
  BY DEF Append1
<1>2. CASE multi
  <2>1. room' = room /\ multi' = multi
        /\ pending' = [pending EXCEPT !.hash = pending.hash \cup {h}]
    BY <1>h, <1>2 DEF Hset, Store
  <2>2. pending'.list = pending.list /\ pending'.hash = pending.hash \cup {h}
    BY <2>1, StoredTypes DEF Data
  <2> QED
    BY <1>2, <2>1, <2>2 DEF Stored, Hashed, QueueIsInside
<1>3. CASE ~multi
  <2>1. pending' = pending /\ multi' = multi
        /\ room' = [room EXCEPT !.hash = room.hash \cup {h}]
    BY <1>h, <1>3 DEF Hset, Store
  <2>2. room'.list = room.list /\ room'.hash = room.hash \cup {h}
        /\ room'.amount = room.amount
    BY <2>1, StoredTypes DEF Data
  <2> QED
    BY <2>1, <2>2 DEF Stored, Hashed, QueueIsInside
<1> QED
  BY <1>2, <1>3

\* EXEC makes what is stored the list, whoever queued it.
LEMMA ExecData ==
    ASSUME TypeOK, QueueIsInside, NEW u \in Connected, Exec(u)
    PROVE  /\ QueueIsInside'
           /\ Stored' = Stored /\ Hashed' = Hashed
           /\ room'.list = Stored /\ room'.hash = Hashed
           /\ room'.amount >= room.amount
           /\ Begins(room.list, room'.list)
<1>1. pending' = Nothing
  BY DEF Exec
<1>2. /\ room'.list = Stored /\ room'.hash = Hashed
      /\ room'.amount >= room.amount
  <2>1. CASE multi
    BY <2>1, FlushedData, StoredTypes DEF Exec
  <2>2. CASE ~multi
    BY <2>2, NothingQueued, StoredTypes DEF Exec, QueueIsInside
  <2> QED
    BY <2>1, <2>2
<1>3. Stored' = Stored /\ Hashed' = Hashed
  <2>1. Stored' = Stored \o <<>>
    BY <1>1, <1>2 DEF Stored, Nothing
  <2>2. Stored \o <<>> = Stored
    BY StoredTypes, ConcatEmptySeq
  <2> QED
    BY <1>1, <1>2, <2>1, <2>2 DEF Hashed, Nothing
<1>4. Begins(room.list, Stored)
  BY LongerBegins, StoredTypes DEF Stored
<1> QED
  BY <1>1, <1>2, <1>3, <1>4 DEF QueueIsInside

\* HINCRBY draws the next id, or is queued and draws none.
LEMMA NextData ==
    ASSUME TypeOK, QueueIsInside, NEW u \in Connected, NextMessage(u)
    PROVE  /\ QueueIsInside'
           /\ Stored' = Stored /\ Hashed' = Hashed
           /\ room'.list = room.list /\ room'.hash = room.hash
           /\ room'.amount >= room.amount
           /\ pc'[u] = "multi" => mid'[u] = room.amount + 1 /\ room'.amount = room.amount + 1
<1>1. CASE multi
  <2>1. room' = room /\ pending' = Incremented(pending) /\ multi' = multi
        /\ pc' = [pc EXCEPT ![u] = "idle"]
    BY <1>1 DEF NextMessage, Goto
  <2>2. pending'.list = pending.list /\ pending'.hash = pending.hash
    BY <2>1, IncrementedData, StoredTypes
  <2>3. pc'[u] # "multi"
    BY <2>1 DEF TypeOK
  <2> QED
    BY <1>1, <2>1, <2>2, <2>3, StoredTypes DEF Stored, Hashed, QueueIsInside
<1>2. CASE ~multi
  <2>1. room' = Incremented(room) /\ pending' = pending /\ multi' = multi
        /\ mid' = [mid EXCEPT ![u] = room.amount + 1]
    BY <1>2 DEF NextMessage
  <2>2. room'.list = room.list /\ room'.hash = room.hash /\ room'.amount = room.amount + 1
    BY <2>1, IncrementedData, StoredTypes
  <2>3. mid'[u] = room.amount + 1
    BY <2>1 DEF TypeOK
  <2> QED
    BY <2>1, <2>2, <2>3, StoredTypes DEF Stored, Hashed, QueueIsInside
<1> QED
  BY <1>1, <1>2

\* All other steps leave the room and the queue alone.
Reads(u) ==
    \/ Receive(u) \/ Check(u) \/ ReadSession(u) \/ ReadAmounts(u) \/ ReadUsers(u)
    \/ ReadMessages(u) \/ Multi(u) \/ Deliver(u) \/ Finish(u)

\* They add nothing to what is stored and draw no id.
LEMMA ReadsData ==
    ASSUME TypeOK, QueueIsInside, NEW u \in Connected, Reads(u)
    PROVE  /\ QueueIsInside'
           /\ room' = room /\ Stored' = Stored /\ Hashed' = Hashed
<1>1. room' = room /\ pending' = pending /\ (multi' = multi \/ multi')
  BY DEF Reads, Receive, Check, ReadSession, ReadAmounts, ReadUsers, ReadMessages,
         Multi, Deliver, Finish, redis
<1> QED
  BY <1>1 DEF QueueIsInside, Stored, Hashed

\* Whatever a thread does, nothing is taken away from the room or the queue.
LEMMA RoomGrows ==
    ASSUME TypeOK, QueueIsInside, NEW u \in Connected, Receive(u) \/ Work(u)
    PROVE  /\ QueueIsInside'
           /\ room'.amount >= room.amount
           /\ room.hash \subseteq room'.hash /\ Hashed \subseteq Hashed'
           /\ Begins(room.list, room'.list) /\ Begins(Stored, Stored')
<1>0. Begins(room.list, room.list) /\ Begins(Stored, Stored)
  BY StoredTypes DEF Begins
<1>1. CASE Reads(u)
  BY <1>0, <1>1, ReadsData, StoredTypes
<1>2. CASE NextMessage(u)
  BY <1>0, <1>2, NextData
<1>3. CASE Rpush(u)
  <2>1. mid[u] \in Nat
    BY DEF TypeOK
  <2>2. Begins(Stored, Append(Stored, mid[u]))
    BY <2>1, StoredTypes, LongerBegins
  <2>3. /\ QueueIsInside' /\ room'.amount = room.amount
        /\ Stored' = Append(Stored, mid[u])
        /\ Hashed' = Hashed /\ room'.hash = room.hash
        /\ Begins(room.list, room'.list)
    BY <1>3, RpushData
  <2>4. Begins(Stored, Stored')
    BY <2>2, <2>3
  <2> QED
    BY <2>3, <2>4, StoredTypes
<1>4. CASE Hset(u)
  BY <1>0, <1>4, HsetData, StoredTypes
<1>5. CASE Exec(u)
  BY <1>0, <1>5, ExecData DEF Hashed
<1> QED
  BY <1>1, <1>2, <1>3, <1>4, <1>5 DEF Work, Reads

-----------------------------------------------------------------------------
(* The invariant.                                                          *)

\* What a step of u changes in the other threads, and in u.
LEMMA ThreadStep ==
    ASSUME TypeOK, NEW u \in Connected, Receive(u) \/ Work(u), NEW v \in Connected
    PROVE  /\ v # u => pc'[v] = pc[v] /\ mid'[v] = mid[v] /\ author'[v] = author[v]
           /\ pc'[v] = "rpush" => v # u \/ Multi(u)
           /\ pc'[v] = "multi" => v # u \/ NextMessage(u)
           /\ pc'[v] = "hset" => v # u \/ Rpush(u)
           /\ pc'[v] = "exec" => v # u \/ Hset(u)
           /\ pc'[v] = "deliver" => v # u \/ Exec(u) \/ Deliver(u)
           /\ ~Receive(u) /\ ~NextMessage(u) => mid' = mid
           /\ ~Receive(u) /\ ~ReadSession(u) => author' = author
<1> USE DEF redis, locals, Goto, At, TypeOK
<1>1. CASE Receive(u)
  BY <1>1 DEF Receive
<1>2. CASE Check(u) \/ ReadSession(u)
  BY <1>2 DEF Check, ReadSession
<1>3. CASE ReadAmounts(u) \/ ReadUsers(u) \/ ReadMessages(u)
  BY <1>3 DEF ReadAmounts, ReadUsers, ReadMessages
<1>4. CASE NextMessage(u)
  BY <1>4 DEF NextMessage
<1>5. CASE Multi(u) \/ Rpush(u) \/ Hset(u)
  BY <1>5 DEF Multi, Rpush, Hset
<1>6. CASE Exec(u) \/ Deliver(u) \/ Finish(u)
  BY <1>6 DEF Exec, Deliver, Finish
<1> QED
  BY <1>1, <1>2, <1>3, <1>4, <1>5, <1>6 DEF Work

\* A step that stores and draws nothing.
LEMMA IdsKept ==
    ASSUME TypeOK, IdsDrawnOnce, Stored' = Stored, room'.amount >= room.amount,
           room'.amount \in Nat,
           \A v \in Connected : Draws(v)' => Draws(v) /\ mid'[v] = mid[v]
    PROVE  IdsDrawnOnce'
<1>1. /\ \A i, j \in DOMAIN Stored' : Stored'[i] = Stored'[j] => i = j
      /\ \A i \in DOMAIN Stored' : Stored'[i] \in 1..room'.amount
  BY StoredTypes DEF IdsDrawnOnce
<1>2. \A v \in Connected : Draws(v)' =>
          mid'[v] \in 1..room'.amount /\ \A i \in DOMAIN Stored' : Stored'[i] # mid'[v]
  <2> SUFFICES ASSUME NEW v \in Connected, Draws(v)'
               PROVE  mid'[v] \in 1..room'.amount
                      /\ \A i \in DOMAIN Stored' : Stored'[i] # mid'[v]
    OBVIOUS
  <2>1. mid'[v] = mid[v] /\ mid[v] \in 1..room.amount
        /\ \A i \in DOMAIN Stored : Stored[i] # mid[v]
    BY DEF IdsDrawnOnce
  <2> QED
    BY <2>1, StoredTypes
<1>3. \A v, w \in Connected : Draws(v)' /\ Draws(w)' /\ mid'[v] = mid'[w] => v = w
  BY DEF IdsDrawnOnce
<1> QED
  BY <1>1, <1>2, <1>3 DEF IdsDrawnOnce

\* Ids are drawn once and pushed once, in any interleaving.
LEMMA IdsStep ==
    ASSUME TypeOK, TypeOK', QueueIsInside, IdsDrawnOnce,
           NEW u \in Connected, Receive(u) \/ Work(u)
    PROVE  IdsDrawnOnce'
<1>0. room.amount \in Nat /\ room'.amount \in Nat /\ room'.amount >= room.amount
  BY StoredTypes, RoomGrows DEF TypeOK, Data
<1>1. CASE Rpush(u)
  <2>1. Stored' = Append(Stored, mid[u]) /\ mid' = mid
    BY <1>1, RpushData DEF Rpush, locals
  <2>2. Draws(u) /\ ~Draws(u)' /\ \A v \in Connected \ {u} : Draws(v)' => Draws(v)
    BY <1>1 DEF Rpush, Draws, At, Goto, TypeOK
  <2>3. /\ DOMAIN Stored = 1..Len(Stored) /\ Len(Stored) \in Nat
        /\ DOMAIN Stored' = 1..(Len(Stored) + 1)
        /\ \A i \in 1..Len(Stored) : Stored'[i] = Stored[i]
        /\ Stored'[Len(Stored) + 1] = mid[u]
    <3>1. mid[u] \in Nat /\ Stored \in Seq(Nat)
      BY StoredTypes DEF TypeOK
    <3> HIDE DEF Stored
    <3> QED
      BY <2>1, <3>1, AppendProperties, LenProperties
  <2>4. mid[u] \in 1..room.amount /\ \A i \in DOMAIN Stored : Stored[i] # mid[u]
    BY <2>2 DEF IdsDrawnOnce
  <2>5. \A i, j \in DOMAIN Stored' : Stored'[i] = Stored'[j] => i = j
    BY <2>3, <2>4 DEF IdsDrawnOnce
  <2>6. \A i \in DOMAIN Stored' : Stored'[i] \in 1..room'.amount
    BY <1>0, <2>3, <2>4 DEF IdsDrawnOnce
  <2>7. \A v \in Connected : Draws(v)' =>
            mid'[v] \in 1..room'.amount /\ \A i \in DOMAIN Stored' : Stored'[i] # mid'[v]
    <3> SUFFICES ASSUME NEW v \in Connected, Draws(v)'
                 PROVE  mid'[v] \in 1..room'.amount
                        /\ \A i \in DOMAIN Stored' : Stored'[i] # mid'[v]
      OBVIOUS
    <3>1. v # u /\ Draws(v)
      BY <2>2
    <3>2. mid[v] # mid[u] /\ mid[v] \in 1..room.amount
          /\ \A i \in DOMAIN Stored : Stored[i] # mid[v]
      BY <2>2, <3>1 DEF IdsDrawnOnce
    <3> QED
      BY <1>0, <2>1, <2>3, <3>2
  <2>8. \A v, w \in Connected : Draws(v)' /\ Draws(w)' /\ mid'[v] = mid'[w] => v = w
    BY <2>1, <2>2 DEF IdsDrawnOnce
  <2> QED
    BY <2>5, <2>6, <2>7, <2>8 DEF IdsDrawnOnce
<1>2. CASE NextMessage(u)
  <2>1. Stored' = Stored
    BY <1>2, NextData
  <2>2. ~Draws(u)
    BY <1>2 DEF NextMessage, At, Draws
  <2>3. \A v \in Connected \ {u} : mid'[v] = mid[v] /\ (Draws(v)' => Draws(v))
    BY ThreadStep DEF Draws
  <2>4. CASE Draws(u)'
    <3>1. mid'[u] = room.amount + 1 /\ room'.amount = room.amount + 1
      <4>1. pc'[u] = "multi"
        BY <1>2, <2>4 DEF NextMessage, Goto, Draws, TypeOK
      <4> QED
        BY <1>2, <4>1, NextData
    <3>2. \A v \in Connected : Draws(v)' =>
              /\ mid'[v] \in 1..room'.amount
              /\ \A i \in DOMAIN Stored' : Stored'[i] # mid'[v]
      BY <1>0, <2>1, <2>3, <3>1 DEF IdsDrawnOnce
    <3>3. \A v \in Connected \ {u} : Draws(v)' => mid'[v] # mid'[u]
      BY <1>0, <2>3, <3>1 DEF IdsDrawnOnce
    <3>4. \A v, w \in Connected : Draws(v)' /\ Draws(w)' /\ mid'[v] = mid'[w] => v = w
      BY <2>3, <3>3 DEF IdsDrawnOnce
    <3>5. /\ \A i, j \in DOMAIN Stored' : Stored'[i] = Stored'[j] => i = j
          /\ \A i \in DOMAIN Stored' : Stored'[i] \in 1..room'.amount
      BY <1>0, <2>1 DEF IdsDrawnOnce
    <3> QED
      BY <3>2, <3>4, <3>5 DEF IdsDrawnOnce
  <2>5. CASE ~Draws(u)'
    BY <1>0, <2>1, <2>3, <2>5, IdsKept
  <2> QED
    BY <2>4, <2>5
<1>3. CASE ~Rpush(u) /\ ~NextMessage(u)
  <2>1. Stored' = Stored
    BY <1>3, ReadsData, HsetData, ExecData DEF Work, Reads
  <2>2. \A v \in Connected : Draws(v)' => Draws(v) /\ mid'[v] = mid[v]
    <3> SUFFICES ASSUME NEW v \in Connected, Draws(v)'
                 PROVE  Draws(v) /\ mid'[v] = mid[v]
      OBVIOUS
    <3>1. CASE v # u
      BY <3>1, ThreadStep DEF Draws
    <3>2. CASE v = u
      <4>1. Multi(u)
        BY <1>3, <3>2, ThreadStep DEF Draws
      <4> QED
        BY <3>2, <4>1 DEF Multi, At, Draws, locals
    <3> QED
      BY <3>1, <3>2
  <2> QED
    BY <1>0, <2>1, <2>2, IdsKept
<1> QED
  BY <1>1, <1>2, <1>3

\* What is stored, listed or hashed stays so.
LEMMA Persists ==
    ASSUME TypeOK, TypeOK', QueueIsInside,
           NEW u \in Connected, Receive(u) \/ Work(u), NEW m
    PROVE  /\ (\E i \in DOMAIN Stored : Stored[i] = m) => \E i \in DOMAIN Stored' : Stored'[i] = m
           /\ InList(m, room.list) => InList(m, room'.list)
           /\ InHash(m, room.hash) => InHash(m, room'.hash)
           /\ InHash(m, Hashed) => InHash(m, Hashed')
<1>1. /\ room.list \in Seq(Nat) /\ room'.list \in Seq(Nat)
      /\ Stored \in Seq(Nat) /\ Stored' \in Seq(Nat)
  <2>1. room'.list \in Seq(Nat) /\ pending'.list \in Seq(Nat)
    BY DEF TypeOK, Data
  <2> QED
    BY <2>1, StoredTypes, ConcatProperties DEF Stored
<1>2. /\ Begins(room.list, room'.list) /\ Begins(Stored, Stored')
      /\ room.hash \subseteq room'.hash /\ Hashed \subseteq Hashed'
  BY RoomGrows
<1>3. (\E i \in DOMAIN Stored : Stored[i] = m) => \E i \in DOMAIN Stored' : Stored'[i] = m
  BY <1>1, <1>2, StillIn
<1>4. InList(m, room.list) => InList(m, room'.list)
  BY <1>1, <1>2, StillIn DEF InList
<1> QED
  BY <1>2, <1>3, <1>4 DEF InHash

\* Only EXEC and the delivery loop put a message into an inbox, and it is the
\* thread's own.
LEMMA InboxStep ==
    ASSUME TypeOK, NEW u \in Connected, Receive(u) \/ Work(u),
           NEW v \in Connected, NEW m \in inbox'[v]
    PROVE  m \in inbox[v] \/ (m = mid[u] /\ mid' = mid /\ (Exec(u) \/ Deliver(u)))
<1> USE DEF redis, locals, TypeOK
<1>1. CASE Exec(u)
  BY <1>1 DEF Exec
<1>2. CASE Deliver(u)
  BY <1>2 DEF Deliver
<1>3. CASE ~Exec(u) /\ ~Deliver(u)
  BY <1>3 DEF Work, Receive, Check, ReadSession, ReadAmounts, ReadUsers, ReadMessages,
              NextMessage, Multi, Rpush, Hset, Finish
<1> QED
  BY <1>1, <1>2, <1>3

\* A message is pushed, then hashed, then sent.
LEMMA MessageStep ==
    ASSUME TypeOK, TypeOK', QueueIsInside, MessageOnItsWay,
           NEW u \in Connected, Receive(u) \/ Work(u)
    PROVE  MessageOnItsWay'
<1>1. ASSUME NEW v \in Connected PROVE author'[v] \in 0..NumUsers
  <2>1. CASE author'[v] = author[v]
    BY <2>1 DEF MessageOnItsWay
  <2>2. CASE v = u /\ (Receive(u) \/ ReadSession(u))
    BY SMTT(30), <2>2, UsersAssumption
       DEF Receive, ReadSession, SessionUser, MessageOnItsWay, TypeOK, locals
  <2> QED
    BY <2>1, <2>2, ThreadStep
<1>2. ASSUME NEW v \in Connected, pc'[v] \in {"hset", "exec"}
      PROVE  \E i \in DOMAIN Stored' : Stored'[i] = mid'[v]
  <2>1. CASE v # u
    <3>1. pc'[v] = pc[v] /\ mid'[v] = mid[v]
      BY <2>1, ThreadStep
    <3> QED
      BY <1>2, <3>1, Persists DEF MessageOnItsWay
  <2>2. CASE v = u /\ Rpush(u)
    <3>1. Stored' = Append(Stored, mid[u]) /\ mid' = mid
      BY <2>2, RpushData DEF Rpush, locals
    <3>2. mid[u] \in Nat /\ Stored \in Seq(Nat)
      BY StoredTypes DEF TypeOK
    <3> HIDE DEF Stored
    <3>3. Len(Stored) + 1 \in DOMAIN Stored' /\ Stored'[Len(Stored) + 1] = mid[u]
      BY <3>1, <3>2, AppendProperties, LenProperties
    <3> QED
      BY <2>2, <3>1, <3>3
  <2>3. CASE v = u /\ Hset(u)
    <3>1. pc[u] = "hset" /\ mid' = mid
      BY <2>3 DEF Hset, At, locals
    <3> QED
      BY <2>3, <3>1, Persists DEF MessageOnItsWay
  <2> QED
    BY <1>2, <2>1, <2>2, <2>3, ThreadStep
<1>3. ASSUME NEW v \in Connected, pc'[v] = "exec"
      PROVE  InHash(mid'[v], Hashed')
  <2>1. CASE v # u
    <3>1. pc'[v] = pc[v] /\ mid'[v] = mid[v]
      BY <2>1, ThreadStep
    <3> QED
      BY <1>3, <3>1, Persists DEF MessageOnItsWay
  <2>2. CASE v = u /\ Hset(u)
    <3>1. Hashed' = Hashed \cup {<<mid[u], author[u]>>} /\ mid' = mid
      BY <2>2, HsetData DEF Hset, locals
    <3>2. author[u] \in 0..NumUsers
      BY DEF MessageOnItsWay
    <3> QED
      BY <2>2, <3>1, <3>2 DEF InHash
  <2> QED
    BY <1>3, <2>1, <2>2, ThreadStep
<1>4. ASSUME Exec(u)
      PROVE  InList(mid[u], room'.list) /\ InHash(mid[u], room'.hash) /\ mid' = mid
  <2>1. pc[u] = "exec" /\ mid' = mid
    BY <1>4 DEF Exec, At
  <2>2. room'.list = Stored /\ room'.hash = Hashed
    BY <1>4, ExecData
  <2> QED
    BY <2>1, <2>2 DEF MessageOnItsWay, InList, InHash
<1>5. ASSUME Deliver(u)
      PROVE  InList(mid[u], room'.list) /\ InHash(mid[u], room'.hash) /\ mid' = mid
  <2>1. pc[u] = "deliver" /\ mid' = mid
    BY <1>5 DEF Deliver, At
  <2> QED
    BY <2>1, Persists DEF MessageOnItsWay
<1>6. ASSUME NEW v \in Connected, pc'[v] = "deliver"
      PROVE  InList(mid'[v], room'.list) /\ InHash(mid'[v], room'.hash)
  <2>1. CASE v # u
    <3>1. pc'[v] = pc[v] /\ mid'[v] = mid[v]
      BY <2>1, ThreadStep
    <3>2. InList(mid[v], room.list) /\ InHash(mid[v], room.hash)
      BY <1>6, <3>1 DEF MessageOnItsWay
    <3> QED
      BY <3>1, <3>2, Persists DEF InList
  <2>2. CASE v = u
    BY <1>4, <1>5, <1>6, <2>2, ThreadStep DEF InList
  <2> QED
    BY <2>1, <2>2
<1>7. ASSUME NEW v \in Connected, NEW m \in inbox'[v]
      PROVE  InList(m, room'.list) /\ InHash(m, room'.hash)
  <2>1. CASE m \in inbox[v]
    BY <2>1, Persists DEF MessageOnItsWay
  <2>2. CASE m = mid[u] /\ (Exec(u) \/ Deliver(u))
    BY <1>4, <1>5, <2>2 DEF InList
  <2> QED
    BY <2>1, <2>2, InboxStep
<1> QED
  BY <1>1, <1>2, <1>3, <1>6, <1>7 DEF MessageOnItsWay, InList

\* A reader's view begins the list, which only grows at its end.
LEMMA ViewStep ==
    ASSUME TypeOK, TypeOK', QueueIsInside, ViewIsPrefix,
           NEW u \in Connected, Receive(u) \/ Work(u)
    PROVE  ViewIsPrefix'
<1>1. Begins(room.list, room'.list)
  BY RoomGrows
<1>2. room.list \in Seq(Nat) /\ room'.list \in Seq(Nat) /\ room.amount \in Nat
  BY DEF TypeOK, Data
<1> SUFFICES ASSUME NEW v \in Connected
             PROVE  /\ Len(view'[v].ids) <= view'[v].amount
                    /\ Begins(view'[v].ids, room'.list)
  BY DEF ViewIsPrefix, Begins
<1>3. \/ view'[v] = view[v]
      \/ view'[v].ids = <<>> /\ view'[v].amount \in Nat
      \/ view'[v].ids = Readable(v) /\ view'[v].amount = view[v].amount
  <2> USE DEF redis, locals, TypeOK
  <2>1. CASE Receive(u)
    <3>1. view' = [view EXCEPT ![u] = NoView] /\ NoView.ids = <<>> /\ NoView.amount = 0
      BY <2>1 DEF Receive, NoView
    <3> QED
      BY <3>1
  <2>4. CASE ReadAmounts(u)
    <3> DEFINE w == [amount |-> room.amount, ids |-> <<>>]
    <3>1. w.ids = <<>> /\ w.amount = room.amount
      OBVIOUS
    <3>2. view' = view \/ view' = [view EXCEPT ![u] = w]
      BY <2>4 DEF ReadAmounts
    <3> HIDE DEF w
    <3>3. view'[v] = view[v] \/ view'[v] = w
      BY <3>2
    <3> QED
      BY <1>2, <3>1, <3>3
  <2>2. CASE ReadMessages(u)
    BY SMTT(30), <2>2 DEF ReadMessages
  <2>3. CASE ~(Receive(u) \/ ReadAmounts(u) \/ ReadMessages(u))
    BY <2>3 DEF Work, Check, ReadSession, ReadUsers, NextMessage, Multi, Rpush, Hset,
                Exec, Deliver, Finish
  <2> QED
    BY <2>1, <2>2, <2>3, <2>4
<1>4. view[v].ids \in Seq(Nat) /\ view[v].amount \in Nat
  BY DEF TypeOK
<1>5. CASE view'[v] = view[v]
  <2>1. /\ Len(view[v].ids) <= view[v].amount
        /\ Begins(view[v].ids, room.list)
    BY DEF ViewIsPrefix, Begins
  <2>2. Begins(view[v].ids, room'.list)
    BY <1>1, <1>2, <1>4, <2>1, BeginsOn
  <2> QED
    BY <1>5, <2>1, <2>2
<1>6. CASE view'[v].ids = <<>> /\ view'[v].amount \in Nat
  <2>1. <<>> \in Seq(Nat) /\ Len(<<>>) = 0 /\ Len(room'.list) \in Nat
    BY <1>2
  <2> QED
    BY <1>6, <2>1 DEF Begins
<1>7. CASE view'[v].ids = Readable(v) /\ view'[v].amount = view[v].amount
  <2>1. /\ Begins(Readable(v), room.list) /\ Len(Readable(v)) <= view[v].amount
        /\ Readable(v) \in Seq(Nat)
    BY ReadablePrefix DEF Begins
  <2>2. Begins(Readable(v), room'.list)
    BY <1>1, <1>2, <2>1, BeginsOn
  <2> QED
    BY <1>7, <2>1, <2>2
<1> QED
  BY <1>3, <1>5, <1>6, <1>7

-----------------------------------------------------------------------------
(* The theorems.                                                           *)

\* An empty room and idle threads satisfy the invariant.
LEMMA InitInvariant == Init => IInv
<1> SUFFICES ASSUME Init PROVE IInv
  OBVIOUS
<1>1. /\ Nothing \in Data /\ NoView \in [amount : Nat, ids : Seq(Nat)]
      /\ Nothing.list = <<>> /\ NoView.ids = <<>> /\ NoView.amount = 0
  BY DEF Nothing, NoView, Data
<1>2. TypeOK
  <2>1. /\ room \in Data /\ pending \in Data
        /\ multi \in BOOLEAN /\ alive \in BOOLEAN /\ overlap \in BOOLEAN
    BY <1>1 DEF Init
  <2>2. /\ pc \in [Connected -> Steps] /\ op \in [Connected -> {"smsg", "room"}]
        /\ inbox \in [Connected -> SUBSET Nat]
    BY DEF Init, Steps
  <2>3. view \in [Connected -> [amount : Nat, ids : Seq(Nat)]]
    BY <1>1 DEF Init
  <2>4. /\ packets \in [Connected -> 0..MaxPackets]
        /\ author \in [Connected -> Nat] /\ mid \in [Connected -> Nat]
        /\ next \in [Connected -> 1..(NumUsers + 1)]
    BY UsersAssumption DEF Init
  <2> QED
    BY <2>1, <2>2, <2>3, <2>4 DEF TypeOK
<1>3. QueueIsInside
  BY DEF Init, QueueIsInside
<1>4. Stored = <<>>
  BY <1>1, <1>2, NothingQueued DEF Init
<1>5. IdsDrawnOnce
  BY <1>4 DEF Init, IdsDrawnOnce, Draws
<1>6. MessageOnItsWay
  BY UsersAssumption DEF Init, MessageOnItsWay
<1>7. ViewIsPrefix
  BY <1>1, <1>2 DEF Init, ViewIsPrefix, TypeOK, Data
<1> QED
  BY <1>2, <1>3, <1>5, <1>6, <1>7 DEF IInv

\* Every step of every thread keeps the invariant.
LEMMA NextInvariant == IInv /\ [Next]_vars => IInv'
<1> SUFFICES ASSUME IInv, [Next]_vars PROVE IInv'
  OBVIOUS
<1>1. TypeOK'
  BY TypeStep DEF IInv
<1>2. CASE Next
  <2>1. PICK u \in Connected : Receive(u) \/ Work(u)
    BY <1>2 DEF Next, Serve
  <2> QED
    BY <1>1, <2>1, RoomGrows, IdsStep, MessageStep, ViewStep DEF IInv
<1>3. CASE UNCHANGED vars
  <2>1. Stored' = Stored /\ Hashed' = Hashed
    BY <1>3 DEF vars, redis, Stored, Hashed
  <2> QED
    BY <1>1, <1>3, <2>1 DEF IInv, vars, redis, locals, QueueIsInside, IdsDrawnOnce, Draws,
                            MessageOnItsWay, InList, InHash, ViewIsPrefix
<1> QED
  BY <1>2, <1>3

\* The invariant holds, for any room and any threads.
THEOREM Invariance == Spec => []IInv
  BY InitInvariant, NextInvariant, PTL DEF Spec

\* Type correctness.
THEOREM TypeCorrect == Spec => []TypeOK
<1>1. IInv => TypeOK
  BY DEF IInv
<1> QED
  BY <1>1, Invariance, PTL

\* A list without repetitions of numbers up to n has at most n elements.
LEMMA Bounded ==
    ASSUME NEW s \in Seq(Nat), NEW n \in Nat,
           \A i \in 1..Len(s) : s[i] \in 1..n,
           \A i, j \in 1..Len(s) : s[i] = s[j] => i = j
    PROVE  Len(s) <= n
<1>1. s \in Injection(1..Len(s), 1..n)
  <2>1. s \in [1..Len(s) -> 1..n]
    OBVIOUS
  <2> QED
    BY <2>1 DEF Injection, IsInjective
<1>2. /\ IsFiniteSet(1..n) /\ Cardinality(1..n) = n
      /\ Cardinality(1..Len(s)) = Len(s)
  <2>1. 1 \in Int /\ n \in Int /\ Len(s) \in Int /\ n >= 0 /\ Len(s) >= 0
    OBVIOUS
  <2>2. /\ IsFiniteSet(1..n) /\ Cardinality(1..n) = IF 1 > n THEN 0 ELSE n - 1 + 1
        /\ Cardinality(1..Len(s)) = IF 1 > Len(s) THEN 0 ELSE Len(s) - 1 + 1
    BY <2>1, FS_Interval
  <2> QED
    BY <2>1, <2>2
<1>3. Cardinality(1..Len(s)) <= Cardinality(1..n)
  BY <1>1, <1>2, FS_Injection
<1> QED
  BY <1>2, <1>3

\* No message id is listed twice, and the list is never longer than
\* message_amount, whatever the threads do to each other's transactions.
THEOREM IdsListedOnce == Spec => []ListedOnce
<1>1. IInv => ListedOnce
  <2> SUFFICES ASSUME IInv PROVE ListedOnce
    OBVIOUS
  <2>1. /\ room.list \in Seq(Nat) /\ Stored \in Seq(Nat) /\ room.amount \in Nat
        /\ Begins(room.list, Stored)
    BY StoredTypes, LongerBegins DEF IInv, Stored
  <2>2. \A i \in DOMAIN room.list : i \in DOMAIN Stored /\ Stored[i] = room.list[i]
    BY <2>1, StillIn
  <2>3. /\ \A i \in DOMAIN room.list : room.list[i] \in 1..room.amount
        /\ \A i, j \in DOMAIN room.list : room.list[i] = room.list[j] => i = j
    BY <2>2 DEF IInv, IdsDrawnOnce
  <2>4. Len(room.list) <= room.amount
    <3>1. DOMAIN room.list = 1..Len(room.list)
      BY <2>1
    <3> QED
      BY <2>1, <2>3, <3>1, Bounded
  <2> QED
    BY <2>3, <2>4 DEF ListedOnce, Listed
<1> QED
  BY <1>1, Invariance, PTL

\* What any client was sent is in the room with its hash.
THEOREM SentMessagesAreStored == Spec => []SentIsStored
<1>1. IInv => SentIsStored
  BY DEF IInv, MessageOnItsWay, InList, InHash, SentIsStored, Listed
<1> QED
  BY <1>1, Invariance, PTL

\* A reader of the room gets a prefix of its list.
THEOREM ViewsArePrefixes == Spec => []ViewIsPrefix
<1>1. IInv => ViewIsPrefix
  BY DEF IInv
<1> QED
  BY <1>1, Invariance, PTL

\* The room only grows at its end.
THEOREM RoomIsAppendOnly == Spec => AppendOnly
<1> DEFINE Grows ==
        /\ room.amount <= room'.amount
        /\ room.hash \subseteq room'.hash
        /\ Len(room.list) <= Len(room'.list)
        /\ SubSeq(room'.list, 1, Len(room.list)) = room.list
<1>1. IInv /\ [Next]_vars => [Grows]_vars
  <2> SUFFICES ASSUME IInv, Next PROVE Grows
    OBVIOUS
  <2>1. PICK u \in Connected : Receive(u) \/ Work(u)
    BY DEF Next, Serve
  <2>2. /\ room'.amount >= room.amount
        /\ room.hash \subseteq room'.hash
        /\ Begins(room.list, room'.list)
    BY <2>1, RoomGrows DEF IInv
  <2>3. TypeOK'
    BY TypeStep DEF IInv
  <2>4. /\ room.list \in Seq(Nat) /\ room'.list \in Seq(Nat)
        /\ room.amount \in Nat /\ room'.amount \in Nat
    BY <2>3 DEF IInv, TypeOK, Data
  <2>5. SubSeq(room'.list, 1, Len(room.list)) = room.list
    BY <2>2, <2>4 DEF Begins
  <2> QED
    BY <2>2, <2>4, <2>5 DEF Begins
<1> QED
  BY <1>1, Invariance, PTL DEF Spec, AppendOnly

-----------------------------------------------------------------------------
(* One packet at a time.                                                   *)

\* As long as no two packets have been served at once, one thread at most is
\* serving, and a transaction is its own: no command of the delivery loop is
\* queued.
OneServes ==
    ~overlap => \A u, v \in Connected : u # v /\ pc[u] # "idle" => pc[v] = "idle"

InsideOwn ==
    ~overlap /\ multi => \E u \in Connected : pc[u] \in {"rpush", "hset", "exec"}

\* The loop skips the author, who has the message already, or nobody.
SenderHasIt ==
    \A u \in Connected :
        /\ author[u] \in {0, u}
        /\ pc[u] = "deliver" => mid[u] \in inbox[u]

\* The members that the loop has passed have the message.
PassedHaveIt ==
    ~overlap => \A u, v \in Connected :
        pc[u] = "deliver" /\ next[u] > v => mid[u] \in inbox[v]

Delivers == OneServes /\ InsideOwn /\ SenderHasIt /\ PassedHaveIt

\* A step that is noted as alone: all other threads are idle.
LEMMA AloneStep ==
    ASSUME TypeOK, NEW u \in Connected, Receive(u) \/ Work(u), Noted(u), ~overlap'
    PROVE  ~overlap /\ \A v \in Connected \ {u} : pc[v] = "idle" /\ pc'[v] = "idle"
<1>1. ~overlap /\ \A v \in Connected \ {u} : pc[v] = "idle"
  BY DEF Noted
<1> QED
  BY <1>1, ThreadStep

LEMMA OneServesKept ==
    ASSUME TypeOK, NEW u \in Connected, Receive(u) \/ Work(u), Noted(u)
    PROVE  OneServes'
<1> SUFFICES ASSUME ~overlap', NEW v \in Connected, NEW w \in Connected, v # w, pc'[v] # "idle"
             PROVE  pc'[w] = "idle"
  BY DEF OneServes
<1>1. \A x \in Connected \ {u} : pc'[x] = "idle"
  BY AloneStep
<1> QED
  BY <1>1

\* What a step does to the transaction and to the thread that opened it.
LEMMA TransactionStep ==
    ASSUME TypeOK, NEW u \in Connected, Receive(u) \/ Work(u)
    PROVE  /\ Multi(u) => pc'[u] = "rpush"
           /\ Exec(u) => ~multi'
           /\ pc[u] = "rpush" => pc'[u] = "hset"
           /\ pc[u] = "hset" => pc'[u] = "exec"
           /\ pc[u] = "exec" => ~multi'
           /\ ~Multi(u) /\ ~Exec(u) => multi' = multi
<1> USE DEF redis, locals, Goto, At, TypeOK
<1>1. CASE Receive(u)
  BY <1>1 DEF Receive, Multi, Exec
<1>2. CASE Check(u) \/ ReadSession(u)
  BY <1>2 DEF Check, ReadSession, Multi, Exec
<1>3. CASE ReadAmounts(u) \/ ReadUsers(u) \/ ReadMessages(u)
  BY <1>3 DEF ReadAmounts, ReadUsers, ReadMessages, Multi, Exec
<1>4. CASE NextMessage(u)
  BY <1>4 DEF NextMessage, Multi, Exec
<1>5. CASE Multi(u) \/ Rpush(u) \/ Hset(u)
  BY <1>5 DEF Multi, Rpush, Hset, Exec
<1>6. CASE Exec(u) \/ Deliver(u) \/ Finish(u)
  BY <1>6 DEF Exec, Deliver, Finish, Multi
<1> QED
  BY <1>1, <1>2, <1>3, <1>4, <1>5, <1>6 DEF Work

LEMMA InsideOwnKept ==
    ASSUME TypeOK, InsideOwn, NEW u \in Connected, Receive(u) \/ Work(u), Noted(u)
    PROVE  InsideOwn'
<1> SUFFICES ASSUME ~overlap', multi'
             PROVE  pc'[u] \in {"rpush", "hset", "exec"}
  BY DEF InsideOwn
<1>1. ~overlap /\ \A v \in Connected \ {u} : pc[v] = "idle"
  BY AloneStep
<1>2. CASE Multi(u)
  BY <1>2, TransactionStep
<1>3. CASE ~Multi(u)
  <2>1. multi
    BY <1>3, TransactionStep
  <2>2. pc[u] \in {"rpush", "hset", "exec"}
    BY <1>1, <2>1 DEF InsideOwn
  <2> QED
    BY <2>2, TransactionStep
<1> QED
  BY <1>2, <1>3

\* No step takes a message back.
LEMMA InboxGrows ==
    ASSUME TypeOK, NEW u \in Connected, Receive(u) \/ Work(u), NEW v \in Connected
    PROVE  /\ inbox[v] \subseteq inbox'[v]
           /\ Exec(u) => mid'[u] \in inbox'[u] /\ next'[u] = 1
           /\ v # u => next'[v] = next[v]
<1> USE DEF redis, locals, TypeOK
<1>1. CASE Exec(u)
  BY <1>1 DEF Exec
<1>2. CASE Deliver(u)
  BY <1>2 DEF Deliver, Exec, At
<1>3. CASE ~Exec(u) /\ ~Deliver(u)
  BY <1>3 DEF Work, Receive, Check, ReadSession, ReadAmounts, ReadUsers, ReadMessages,
              NextMessage, Multi, Rpush, Hset, Finish
<1> QED
  BY <1>1, <1>2, <1>3

LEMMA SenderHasItKept ==
    ASSUME TypeOK, SenderHasIt, NEW u \in Connected, Receive(u) \/ Work(u)
    PROVE  SenderHasIt'
<1> SUFFICES ASSUME NEW v \in Connected
             PROVE  /\ author'[v] \in {0, v}
                    /\ pc'[v] = "deliver" => mid'[v] \in inbox'[v]
  BY DEF SenderHasIt
<1>1. author'[v] \in {0, v}
  <2>1. CASE author'[v] = author[v]
    BY <2>1 DEF SenderHasIt
  <2>2. CASE v = u /\ Receive(u)
    BY <2>2 DEF Receive, TypeOK
  <2>3. CASE v = u /\ ReadSession(u)
    BY <2>3 DEF ReadSession, SessionUser, SenderHasIt, TypeOK
  <2> QED
    BY <2>1, <2>2, <2>3, ThreadStep
<1>2. ASSUME pc'[v] = "deliver" PROVE mid'[v] \in inbox'[v]
  <2>1. CASE v # u
    BY <1>2, <2>1, ThreadStep, InboxGrows DEF SenderHasIt
  <2>2. CASE v = u /\ Exec(u)
    BY <2>2, InboxGrows
  <2>3. CASE v = u /\ Deliver(u)
    <3>1. pc[u] = "deliver" /\ mid' = mid
      BY <2>3 DEF Deliver, At
    <3> QED
      BY <2>3, <3>1, InboxGrows DEF SenderHasIt
  <2> QED
    BY <1>2, <2>1, <2>2, <2>3, ThreadStep
<1> QED
  BY <1>1, <1>2

\* One turn of the loop: the member it is at gets the message, or sent it.
LEMMA DeliverTurn ==
    ASSUME TypeOK, SenderHasIt, NEW u \in Connected, Deliver(u), ~multi,
           next[u] \in Connected
    PROVE  mid[u] \in inbox'[next[u]]
<1>1. pc[u] = "deliver"
  BY DEF Deliver, At
<1>2. CASE next[u] = author[u]
  <2>1. next[u] = u
    BY <1>2, UsersAssumption DEF SenderHasIt
  <2>2. inbox[u] \subseteq inbox'[u]
    BY InboxGrows DEF Work
  <2> QED
    BY <1>1, <2>1, <2>2 DEF SenderHasIt
<1>3. CASE next[u] # author[u]
  BY <1>3 DEF Deliver, TypeOK
<1> QED
  BY <1>2, <1>3

LEMMA PassedHaveItKept ==
    ASSUME TypeOK, OneServes, InsideOwn, SenderHasIt, PassedHaveIt,
           NEW u \in Connected, Receive(u) \/ Work(u), Noted(u)
    PROVE  PassedHaveIt'
<1> SUFFICES ASSUME ~overlap', NEW w \in Connected, NEW v \in Connected,
                    pc'[w] = "deliver", next'[w] > v
             PROVE  mid'[w] \in inbox'[v]
  BY DEF PassedHaveIt
<1>1. ~overlap /\ \A x \in Connected \ {u} : pc[x] = "idle" /\ pc'[x] = "idle"
  BY AloneStep
<1>2. w = u /\ v \in 1..NumUsers
  BY <1>1, UsersAssumption
<1>3. CASE Exec(u)
  <2>1. next'[u] = 1
    BY <1>3, InboxGrows
  <2> QED
    BY <1>2, <2>1
<1>4. CASE Deliver(u)
  <2>1. /\ pc[u] = "deliver" /\ mid' = mid /\ next'[u] = next[u] + 1
        /\ next[u] \in Nat
    <3>0. next[u] \in 1..(NumUsers + 1)
      BY DEF TypeOK
    <3>1. next[u] \in Nat
      BY <3>0, UsersAssumption
    <3>2. pc[u] = "deliver" /\ mid' = mid /\ next' = [next EXCEPT ![u] = next[u] + 1]
      BY <1>4 DEF Deliver, At, NextMember
    <3> QED
      BY <3>1, <3>2 DEF TypeOK
  <2>2. CASE v = next[u]
    <3>1. ~multi
      BY <1>1, <2>1 DEF InsideOwn
    <3> QED
      BY <1>2, <1>4, <2>1, <2>2, <3>1, DeliverTurn
  <2>3. CASE v # next[u]
    <3>1. next[u] > v
      BY <1>2, <2>1, <2>3
    <3>2. inbox[v] \subseteq inbox'[v]
      BY InboxGrows
    <3> QED
      BY <1>1, <1>2, <2>1, <3>1, <3>2 DEF PassedHaveIt
  <2> QED
    BY <2>2, <2>3
<1> QED
  BY <1>2, <1>3, <1>4, ThreadStep

LEMMA DeliversStep == TypeOK /\ Delivers /\ [Next]_vars => Delivers'
<1> SUFFICES ASSUME TypeOK, Delivers, [Next]_vars PROVE Delivers'
  OBVIOUS
<1>1. CASE Next
  <2>1. PICK u \in Connected : (Receive(u) \/ Work(u)) /\ Noted(u)
    BY <1>1 DEF Next, Serve
  <2> QED
    BY <2>1, OneServesKept, InsideOwnKept, SenderHasItKept, PassedHaveItKept DEF Delivers
<1>2. CASE UNCHANGED vars
  BY <1>2 DEF vars, redis, locals, Delivers, OneServes, InsideOwn, SenderHasIt, PassedHaveIt
<1> QED
  BY <1>1, <1>2

\* As long as no two packets have been served at once, every member that is on
\* line and that the delivery loop has passed has the message.
THEOREM OnlineMembersAreSentIt == Spec => []OnlineMembersGetItAlone
<1>1. Init => Delivers
  BY DEF Init, Delivers, OneServes, InsideOwn, SenderHasIt, PassedHaveIt
<1>2. Delivers => OnlineMembersGetItAlone
  BY DEF Delivers, PassedHaveIt, OnlineMembersGetItAlone, At
<1>3. Spec => []Delivers
  BY <1>1, DeliversStep, TypeCorrect, PTL DEF Spec
<1> QED
  BY <1>2, <1>3, PTL
=============================================================================
