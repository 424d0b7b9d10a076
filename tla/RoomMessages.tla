---------------------------- MODULE RoomMessages ----------------------------
(***************************************************************************)
(* The messages of one room in Redis: sending one (on_message_request) and *)
(* reading the room to transfer it to a client (redis_room_read, called by *)
(* send_room_packet).  Each connected user has a server thread that serves *)
(* one packet at a time.  All threads send their commands over the ONE     *)
(* connection that redis_get() returns, so the MULTI of one thread also    *)
(* queues the commands of the others until some thread's EXEC: a queued    *)
(* command is answered with the status "QUEUED", whatever its reader       *)
(* expected.  A step is one command, or a run of reading commands that     *)
(* all fail alike when they are queued.                                    *)
(***************************************************************************)
EXTENDS Integers, Sequences, FiniteSets

CONSTANTS NumUsers,   \* members of the room, whose ids are 1..NumUsers
          Connected,  \* the members that are online and have a socket
          MaxPackets  \* bound: packets one client sends

ASSUME UsersAssumption ==
    /\ NumUsers \in Nat
    /\ Connected \subseteq 1..NumUsers
    /\ MaxPackets \in Nat

User == 1..NumUsers

VARIABLES
    room,     \* room:<id>: message_amount, the list of ids, the id -> author hashes
    pending,  \* what the commands queued since MULTI will add to room
    multi,    \* the connection is inside MULTI ... EXEC
    alive,    \* the main server process has not crashed
    pc,       \* the next step of each thread
    op,       \* what each thread serves: "smsg" or "room"
    packets,  \* packets each client has sent
    author,   \* user_id in on_message_request
    mid,      \* msg.msg_id
    next,     \* the index of the delivery loop over room.users
    view,     \* what redis_room_read returned: message_amount and the ids read
    inbox,    \* the ids of the messages each client was sent
    overlap   \* history: two packets have been served at the same time

redis  == <<room, pending, multi>>
locals == <<author, mid, next, view>>
vars   == <<redis, alive, pc, op, packets, locals, inbox, overlap>>

Steps == {"idle", "check", "session", "amounts", "users", "messages",
          "next", "multi", "rpush", "hset", "exec", "deliver"}

\* "amount" is also the number of HINCRBYs that are queued in pending.
Data    == [amount : Nat, list : Seq(Nat), hash : SUBSET (Nat \X Nat)]
Nothing == [amount |-> 0, list |-> <<>>, hash |-> {}]
NoView  == [amount |-> 0, ids |-> <<>>]

Init ==
    /\ room    = Nothing
    /\ pending = Nothing
    /\ multi   = FALSE
    /\ alive   = TRUE
    /\ pc      = [u \in Connected |-> "idle"]
    /\ op      = [u \in Connected |-> "smsg"]
    /\ packets = [u \in Connected |-> 0]
    /\ author  = [u \in Connected |-> 0]
    /\ mid     = [u \in Connected |-> 0]
    /\ next    = [u \in Connected |-> 1]
    /\ view    = [u \in Connected |-> NoView]
    /\ inbox   = [u \in Connected |-> {}]
    /\ overlap = FALSE

At(u, step)   == alive /\ pc[u] = step
Goto(u, step) == pc' = [pc EXCEPT ![u] = step]

\* A write goes to the room or, inside a transaction, to the queue.
Append1(data, field, x) ==
    CASE field = "list" -> [data EXCEPT !.list = Append(@, x)]
      [] field = "hash" -> [data EXCEPT !.hash = @ \cup {x}]

Store(field, x) ==
    IF multi
    THEN pending' = Append1(pending, field, x) /\ UNCHANGED room
    ELSE room'    = Append1(room, field, x)    /\ UNCHANGED pending

-----------------------------------------------------------------------------
Receive(u) ==
    /\ At(u, "idle")
    /\ packets[u] < MaxPackets
    /\ packets' = [packets EXCEPT ![u] = @ + 1]
    /\ \E o \in {"smsg", "room"} : op' = [op EXCEPT ![u] = o]
    /\ author' = [author EXCEPT ![u] = 0]     \* the handler's locals are new
    /\ mid'    = [mid EXCEPT ![u] = 0]
    /\ next'   = [next EXCEPT ![u] = 1]
    /\ view'   = [view EXCEPT ![u] = NoView]
    /\ Goto(u, "check")
    /\ UNCHANGED <<redis, alive, inbox>>

\* redis_room_exist and redis_room_belongs_to_user.  The integer of a queued
\* EXISTS is 0 and a queued HMGET is no array: either way the packet fails.
\* When redis_user_read fails, redis_room_belongs_to_user frees the pointers
\* of a user_t that was never filled in, which may abort the process.
Check(u) ==
    /\ At(u, "check")
    /\ \/ /\ multi
          /\ alive' \in BOOLEAN
          /\ Goto(u, "idle")
       \/ /\ ~multi
          /\ Goto(u, IF op[u] = "smsg" THEN "session" ELSE "amounts")
          /\ UNCHANGED alive
    /\ UNCHANGED <<redis, op, packets, locals, inbox>>

\* redis_session_write stored the user's id under the key the client got.
SessionUser(u) == u

\* redis_session_read: a queued HEXISTS fails the packet, but a queued HGET
\* makes the user id atoi("QUEUED").
ReadSession(u) ==
    /\ At(u, "session")
    /\ \/ multi  /\ Goto(u, "idle")    /\ UNCHANGED author
       \/ multi  /\ Goto(u, "amounts") /\ author' = [author EXCEPT ![u] = 0]
       \/ ~multi /\ Goto(u, "amounts") /\ author' = [author EXCEPT ![u] = SessionUser(u)]
    /\ UNCHANGED <<redis, alive, op, packets, mid, next, view, inbox>>

\* redis_room_read, first HMGET.
ReadAmounts(u) ==
    /\ At(u, "amounts")
    /\ Goto(u, IF multi THEN "idle" ELSE "users")
    /\ view' = IF multi THEN view
               ELSE [view EXCEPT ![u] = [amount |-> room.amount, ids |-> <<>>]]
    /\ UNCHANGED <<redis, alive, op, packets, author, mid, next, inbox>>

\* redis_room_read, LRANGE of the users: the loop over user_amount reads
\* r->element[0], which is a null pointer in a status reply.
ReadUsers(u) ==
    /\ At(u, "users")
    /\ alive' = ~multi
    /\ Goto(u, "messages")
    /\ UNCHANGED <<redis, op, packets, locals, inbox>>

Least(a, b) == IF a <= b THEN a ELSE b

\* Fault: LRANGE 0 -1, whatever message_amount was.
ReadableAll(u) == room.list

\* redis_room_messages_read: the first message_amount ids of the list, as
\* many as there are.
Readable(u) == SubSeq(room.list, 1, Least(view[u].amount, Len(room.list)))

ReadMessages(u) ==
    /\ At(u, "messages")
    /\ IF multi
       THEN Goto(u, "idle") /\ UNCHANGED view
       ELSE /\ view' = [view EXCEPT ![u].ids = Readable(u)]
            /\ Goto(u, IF op[u] = "smsg" THEN "next" ELSE "idle")
    /\ UNCHANGED <<redis, alive, op, packets, author, mid, next, inbox>>

Incremented(data) == [data EXCEPT !.amount = @ + 1]

\* redis_room_message_next: HINCRBY message_amount.  Queued, its reply is no
\* integer and the packet fails, but the increment stays in the queue.
NextMessage(u) ==
    /\ At(u, "next")
    /\ IF multi
       THEN /\ pending' = Incremented(pending)
            /\ Goto(u, "idle")
            /\ UNCHANGED <<room, mid>>
       ELSE /\ room' = Incremented(room)
            /\ mid' = [mid EXCEPT ![u] = room.amount + 1]
            /\ Goto(u, "multi")
            /\ UNCHANGED pending
    /\ UNCHANGED <<multi, alive, op, packets, author, next, view, inbox>>

\* redis_room_message_write.  A MULTI inside MULTI is an error reply, which
\* the code does not look at.
Multi(u) ==
    /\ At(u, "multi")
    /\ multi' = TRUE
    /\ Goto(u, "rpush")
    /\ UNCHANGED <<room, pending, alive, op, packets, locals, inbox>>

Rpush(u) ==
    /\ At(u, "rpush")
    /\ Store("list", mid[u])
    /\ Goto(u, "hset")
    /\ UNCHANGED <<multi, alive, op, packets, locals, inbox>>

\* Faults: the hash is not written; EXEC is left out.
HsetForgotten(u) ==
    /\ At(u, "hset")
    /\ Goto(u, "exec")
    /\ UNCHANGED <<redis, alive, op, packets, locals, inbox>>

HsetThenDeliver(u) ==
    /\ At(u, "hset")
    /\ Store("hash", <<mid[u], author[u]>>)
    /\ Goto(u, "deliver")
    /\ UNCHANGED <<multi, alive, op, packets, locals, inbox>>

Hset(u) ==
    /\ At(u, "hset")
    /\ Store("hash", <<mid[u], author[u]>>)
    /\ Goto(u, "exec")
    /\ UNCHANGED <<multi, alive, op, packets, locals, inbox>>

\* EXEC runs everything in the queue, whoever queued it; without MULTI it is
\* an error reply that is not looked at.  Then the message goes back to its
\* sender.
\* Faults: LPUSH instead of RPUSH; DISCARD instead of EXEC.
FlushedFront == [amount |-> room.amount + pending.amount,
                 list   |-> pending.list \o room.list,
                 hash   |-> room.hash \cup pending.hash]

Flushed == [amount |-> room.amount + pending.amount,
            list   |-> room.list \o pending.list,
            hash   |-> room.hash \cup pending.hash]

Exec(u) ==
    /\ At(u, "exec")
    /\ multi' = FALSE
    /\ room' = IF multi THEN Flushed ELSE room
    /\ pending' = Nothing
    /\ inbox' = [inbox EXCEPT ![u] = @ \cup {mid[u]}]
    /\ next' = [next EXCEPT ![u] = 1]
    /\ Goto(u, "deliver")
    /\ UNCHANGED <<alive, op, packets, author, mid, view>>

StopAtAuthor(u)  == IF next[u] = author[u] THEN NumUsers + 1 ELSE next[u] + 1

InLoop(u)     == next[u] <= NumUsers
NextMember(u) == next[u] + 1

\* One turn of the loop over room.users: a queued SISMEMBER reads as "not
\* online", a queued HGET as socket 0.
Deliver(u) ==
    /\ At(u, "deliver")
    /\ InLoop(u)
    /\ next' = [next EXCEPT ![u] = NextMember(u)]
    /\ LET v == next[u] IN
       inbox' = IF v # author[u] /\ v \in Connected /\ ~multi
                THEN [inbox EXCEPT ![v] = @ \cup {mid[u]}]
                ELSE inbox
    /\ UNCHANGED <<redis, alive, pc, op, packets, author, mid, view>>

Finish(u) ==
    /\ At(u, "deliver")
    /\ ~InLoop(u)
    /\ Goto(u, "idle")
    /\ UNCHANGED <<redis, alive, op, packets, locals, inbox>>

Noted(u) == overlap' = (overlap \/ \E v \in Connected \ {u} : pc[v] # "idle")

Work(u) ==
    \/ Check(u) \/ ReadSession(u) \/ ReadAmounts(u) \/ ReadUsers(u)
    \/ ReadMessages(u) \/ NextMessage(u) \/ Multi(u) \/ Rpush(u) \/ Hset(u)
    \/ Exec(u) \/ Deliver(u) \/ Finish(u)

Serve(u) == Work(u) /\ Noted(u)

Next == \E u \in Connected : (Receive(u) /\ Noted(u)) \/ Serve(u)

\* The scheduler runs every thread; nothing makes a client send a packet.
Spec == Init /\ [][Next]_vars /\ \A u \in Connected : WF_vars(Serve(u))

-----------------------------------------------------------------------------
(* Properties *)

TypeOK ==
    /\ room \in Data
    /\ pending \in Data
    /\ multi \in BOOLEAN
    /\ alive \in BOOLEAN
    /\ pc \in [Connected -> Steps]
    /\ op \in [Connected -> {"smsg", "room"}]
    /\ packets \in [Connected -> 0..MaxPackets]
    /\ author \in [Connected -> Nat]
    /\ mid \in [Connected -> Nat]
    /\ next \in [Connected -> 1..(NumUsers + 1)]
    /\ view \in [Connected -> [amount : Nat, ids : Seq(Nat)]]
    /\ inbox \in [Connected -> SUBSET Nat]
    /\ overlap \in BOOLEAN

Listed == {room.list[i] : i \in DOMAIN room.list}

\* No message id is in the list twice and the list is never longer than
\* message_amount, which redis_room_read allocates for: however HINCRBY, MULTI
\* and EXEC of several threads interleave, ids are drawn and stored once.
ListedOnce ==
    /\ \A i, j \in DOMAIN room.list : room.list[i] = room.list[j] => i = j
    /\ Listed \subseteq 1..room.amount
    /\ Len(room.list) <= room.amount

\* A message that any client was sent, its sender included, is in Redis with
\* its hash: on_message_request sends only after EXEC, and an EXEC leaves
\* nothing of its thread in the queue, even when the MULTI was another's.
SentIsStored ==
    \A u \in Connected : \A m \in inbox[u] :
        m \in Listed /\ \E a \in 0..NumUsers : <<m, a>> \in room.hash

\* What a reader got is the beginning of the room's list, no matter how much
\* is appended between its HMGET and its LRANGE.
ViewIsPrefix ==
    \A u \in Connected :
        /\ Len(view[u].ids) <= view[u].amount
        /\ Len(view[u].ids) <= Len(room.list)
        /\ \A i \in 1..Len(view[u].ids) : view[u].ids[i] = room.list[i]

\* Messages are appended, never dropped, reordered or re-attributed, and the
\* counter never goes back (next ids come from it).
AppendOnly ==
    [][/\ room.amount <= room'.amount
       /\ room.hash \subseteq room'.hash
       /\ Len(room.list) <= Len(room'.list)
       /\ SubSeq(room'.list, 1, Len(room.list)) = room.list]_vars

\* A transaction that was opened is executed, so no thread's commands stay
\* queued for ever, unless the process dies.
TransactionEnds == multi ~> (~multi \/ ~alive)

\* "check if any user of chat_id is online / if yes then sends packet to them
\* directly" (event_handler.c:506): after the loop everyone online has the
\* message, as long as no two packets have been served at once.
OnlineMembersGetItAlone ==
    overlap \/ \A u, v \in Connected :
        At(u, "deliver") /\ next[u] > v => mid[u] \in inbox[v]

=============================================================================
