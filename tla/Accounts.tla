------------------------------ MODULE Accounts ------------------------------
(***************************************************************************)
(* The login process (server/modules/login.c): account creation, log-in    *)
(* and session keys.  Every connection to the login port is served by a    *)
(* thread of its own that reads one packet.  A step of a thread is one     *)
(* command it gives to MongoDB or Redis, or one use of the process-wide    *)
(* random number generator; the threads take no lock, so their steps       *)
(* interleave freely.                                                      *)
(***************************************************************************)
EXTENDS Integers, Sequences, FiniteSets

CONSTANTS Conn,      \* connections accepted on the login port
          Name,      \* user names of a legal length
          Password,  \* passwords of a legal length
          MaxClock,  \* bound: the last second of the run
          Faults     \* whether commands to the stores may fail

ASSUME ClockAssumption == MaxClock \in Nat
ASSUME FaultsAssumption == Faults \in BOOLEAN

VARIABLES
    users,     \* collection USER in its natural (insertion) order
    seq,       \* COUNTERS.USER_id.seq
    sessions,  \* the Redis hashes session:<key>, as a function key -> id
    online,    \* the Redis set "online"
    clock,     \* time(NULL)
    rng,       \* <<second it was seeded in, keys drawn since>>, one per process
    pc,        \* the next step of each thread
    req,       \* the packet each client sends
    uid,       \* "id" of the thread: the new user's or the authenticated one's
    key,       \* session_key of the thread
    reply      \* what the client was sent: "none", "fail", "ok" or "key"

stores == <<users, seq, sessions, online>>
host   == <<clock, rng>>
vars   == <<stores, host, pc, req, uid, key, reply>>

Request == [op : {"accc", "logi", "junk"}, name : Name, password : Password]
User    == [id : Nat, name : Name, password : Password]
Key     == Nat \X Nat
NoKey   == <<>>
Steps   == {"recv", "checkName", "nextId", "exist", "insert", "replace",
            "getId", "read", "seed", "draw", "hset", "online", "done"}

Put(f, k, v) == [x \in DOMAIN f \cup {k} |-> IF x = k THEN v ELSE f[x]]

Goto(c, step)   == pc' = [pc EXCEPT ![c] = step]
Answer(c, what) == /\ reply' = [reply EXCEPT ![c] = what]
                   /\ Goto(c, "done")

-----------------------------------------------------------------------------
(* mongodb_get_doc: find returns the first matching document.              *)

Named(n)      == {i \in DOMAIN users : users[i].name = n}
FirstNamed(n) == CHOOSE i \in Named(n) : \A j \in Named(n) : i <= j
Known(n)      == Named(n) # {}

Init ==
    /\ users    = <<>>
    /\ seq      = 1                       \* counter_init's $setOnInsert
    /\ sessions = <<>>
    /\ online   = {}
    /\ clock    = 0
    /\ rng      = <<0, 0>>
    /\ pc       = [c \in Conn |-> "recv"]
    /\ req      \in [Conn -> Request]     \* what each client sends
    /\ uid      = [c \in Conn |-> 0]
    /\ key      = [c \in Conn |-> NoKey]
    /\ reply    = [c \in Conn |-> "none"]

\* login_thread reads its packet and recognize_login_packet picks the
\* handler; "junk" is a packet with an unknown id or bad credentials.
Receive(c) ==
    /\ pc[c] = "recv"
    /\ \/ req[c].op = "accc" /\ Goto(c, "checkName") /\ UNCHANGED reply
       \/ req[c].op = "logi" /\ Goto(c, "getId")     /\ UNCHANGED reply
       \/ req[c].op = "junk" /\ Answer(c, "fail")
    /\ UNCHANGED <<stores, host, req, uid, key>>

-----------------------------------------------------------------------------
(* account_creation *)

\* mongodb_user_get_id(name) > 0 refuses a name that is taken.
CheckName(c) ==
    /\ pc[c] = "checkName"
    /\ IF Known(req[c].name) THEN Answer(c, "fail")
                             ELSE Goto(c, "nextId") /\ UNCHANGED reply
    /\ UNCHANGED <<stores, host, req, uid, key>>

\* Fault: ids from the number of documents.
CountedId == Len(users) + 1

\* get_next_id: one find-and-modify that returns the incremented counter.
NewId == seq + 1

NextId(c) ==
    /\ pc[c] = "nextId"
    /\ seq' = NewId
    /\ uid' = [uid EXCEPT ![c] = NewId]
    /\ Goto(c, "exist")
    /\ UNCHANGED <<users, sessions, online, host, req, key, reply>>

Exists(i) == \E d \in DOMAIN users : users[d].id = i

\* mongodb_insert asks first whether a document has the id ...
Exist(c) ==
    /\ pc[c] = "exist"
    /\ Goto(c, IF Exists(uid[c]) THEN "replace" ELSE "insert")
    /\ UNCHANGED <<stores, host, req, uid, key, reply>>

\* Fault: the id in the document is the counter's value when it is written.
LateDocument(c) ==
    [id |-> seq, name |-> req[c].name, password |-> req[c].password]

\* ... and replaces that document or inserts a new one.
Document(c) ==
    [id |-> uid[c], name |-> req[c].name, password |-> req[c].password]

Written(c) ==
    IF pc[c] = "insert"
    THEN Append(users, Document(c))
    ELSE LET same  == {d \in DOMAIN users : users[d].id = uid[c]}
             first == CHOOSE d \in same : \A e \in same : d <= e
         IN  [d \in DOMAIN users |->
                IF same # {} /\ d = first THEN Document(c) ELSE users[d]]

Write(c) ==
    /\ pc[c] \in {"insert", "replace"}
    /\ users' = Written(c)
    /\ Answer(c, "ok")
    /\ UNCHANGED <<seq, sessions, online, host, req, uid, key>>

-----------------------------------------------------------------------------
(* auth *)

GetId(c) ==
    /\ pc[c] = "getId"
    /\ IF Known(req[c].name) THEN Goto(c, "read") /\ UNCHANGED reply
                             ELSE Answer(c, "fail")
    /\ UNCHANGED <<stores, host, req, uid, key>>

\* Fault: the password is not compared.
MatchesAny(c) == TRUE

Matches(c) == users[FirstNamed(req[c].name)].password = req[c].password

\* mongodb_user_read and strcmp of the passwords.
Authenticate(c) ==
    /\ pc[c] = "read"
    /\ IF Known(req[c].name) /\ Matches(c)
       THEN /\ uid' = [uid EXCEPT ![c] = users[FirstNamed(req[c].name)].id]
            /\ Goto(c, "seed")
            /\ UNCHANGED reply
       ELSE Answer(c, "fail") /\ UNCHANGED uid
    /\ UNCHANGED <<stores, host, req, key>>

-----------------------------------------------------------------------------
(* session_create and redis_session_write.  The generator is a function of *)
(* its seed: sixteen draws after srand(t) give the key <<t, 0>>, the next  *)
(* sixteen the key <<t, 1>>.                                               *)

Seed(c) ==
    /\ pc[c] = "seed"
    /\ rng' = <<clock, 0>>
    /\ Goto(c, "draw")
    /\ UNCHANGED <<stores, clock, req, uid, key, reply>>

Draw(c) ==
    /\ pc[c] = "draw"
    /\ key' = [key EXCEPT ![c] = rng]
    /\ rng' = <<rng[1], rng[2] + 1>>
    /\ Goto(c, "hset")
    /\ UNCHANGED <<stores, clock, req, uid, reply>>

\* Fault: the integer HSET answers is not looked at.
NotNew(c) == FALSE

\* HSET overwrites the id of a key that exists and answers 0 for it, which
\* redis_session_write reports as a failure.
Redrawn(c) == key[c] \in DOMAIN sessions

WriteSession(c) ==
    /\ pc[c] = "hset"
    /\ sessions' = Put(sessions, key[c], uid[c])
    /\ IF Redrawn(c)
       THEN Answer(c, "fail")
       ELSE Goto(c, "online") /\ UNCHANGED reply
    /\ UNCHANGED <<users, seq, online, host, req, uid, key>>

\* redis_user_online, then the session packet.
Online(c) ==
    /\ pc[c] = "online"
    /\ online' = online \cup {uid[c]}
    /\ Answer(c, "key")
    /\ UNCHANGED <<users, seq, sessions, host, req, uid, key>>

-----------------------------------------------------------------------------

\* A command that fails ends the request; what earlier steps wrote stays.
StoreFails(c) ==
    /\ Faults
    /\ pc[c] \in {"nextId", "insert", "replace", "hset", "online"}
    /\ Answer(c, "fail")
    /\ UNCHANGED <<stores, host, req, uid, key>>

\* A find that fails looks like one that matches nothing.
FindFails(c) ==
    /\ Faults
    /\ \/ pc[c] = "checkName" /\ Goto(c, "nextId") /\ UNCHANGED reply
       \/ pc[c] = "exist"     /\ Goto(c, "insert") /\ UNCHANGED reply
       \/ pc[c] \in {"getId", "read"} /\ Answer(c, "fail")
    /\ UNCHANGED <<stores, host, req, uid, key>>

Tick ==
    /\ clock < MaxClock
    /\ clock' = clock + 1
    /\ UNCHANGED <<stores, rng, pc, req, uid, key, reply>>

Step(c) ==
    \/ Receive(c)  \/ CheckName(c)    \/ NextId(c) \/ Exist(c) \/ Write(c)
    \/ GetId(c)    \/ Authenticate(c) \/ Seed(c)   \/ Draw(c)
    \/ WriteSession(c) \/ Online(c)   \/ StoreFails(c) \/ FindFails(c)

Next == Tick \/ \E c \in Conn : Step(c)

Spec == Init /\ [][Next]_vars

-----------------------------------------------------------------------------
(* Properties *)

TypeOK ==
    /\ users \in Seq(User)
    /\ seq \in Nat
    /\ DOMAIN sessions \subseteq Key
    /\ \A k \in DOMAIN sessions : sessions[k] \in Nat
    /\ online \subseteq Nat
    /\ clock \in 0..MaxClock
    /\ rng \in Key
    /\ pc \in [Conn -> Steps]
    /\ req \in [Conn -> Request]
    /\ uid \in [Conn -> Nat]
    /\ key \in [Conn -> Key \cup {NoKey}]
    /\ reply \in [Conn -> {"none", "fail", "ok", "key"}]

\* No two documents of USER have the same id, whatever the interleaving of
\* get_next_id, mongodb_exist and the insert of two account creations.
IdsUnique ==
    \A i, j \in DOMAIN users : users[i].id = users[j].id => i = j

\* Once a name resolves to a user (mongodb_user_get_id, mongodb_user_read),
\* it resolves to that user, with that password, for ever: an account created
\* later under the same name never takes it over.
ResolutionStable ==
    [][\A n \in Name : Known(n) =>
          /\ Known(n)'
          /\ users'[FirstNamed(n)'] = users[FirstNamed(n)]]_vars

Owner(c) == /\ Known(req[c].name)
            /\ users[FirstNamed(req[c].name)] = Document(c)

\* A session hash is only ever written for a user whose name and password
\* were presented by the connection that drew its key (auth before
\* redis_session_write in on_log_in).
SessionsAuthenticated ==
    \A k \in DOMAIN sessions :
        \E c \in Conn : key[c] = k /\ uid[c] = sessions[k] /\ Owner(c)

\* Two clients are never sent the same session key, although keys repeat:
\* the reply 0 of HSET makes the second log-in fail.
KeysGrantedOnce ==
    \A c, d \in Conn :
        reply[c] = "key" /\ reply[d] = "key" /\ key[c] = key[d] => c = d

\* What auth and account_creation show of USER, and who was let in.
Credentials(n) ==
    IF Known(n)
    THEN [id |-> users[FirstNamed(n)].id, password |-> users[FirstNamed(n)].password]
    ELSE [id |-> 0, password |-> "none"]

Account  == [n \in Name |-> Credentials(n)]
Admitted == {<<c, uid[c]>> : c \in {d \in Conn : reply[d] = "key"}}

Registry == INSTANCE AccountRegistry WITH account <- Account, admitted <- Admitted

\* The threads together implement the registry: names are registered once,
\* with fresh ids, and log-ins admit the registered user.
ImplementsRegistry == Registry!Spec
=============================================================================
