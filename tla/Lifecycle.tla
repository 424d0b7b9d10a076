----------------------------- MODULE Lifecycle ------------------------------
(***************************************************************************)
(* Starting and stopping the server (server.c, login.c, redis_client.c,    *)
(* mongodb_client.c).  start_server forks a Redis server, a main and a     *)
(* log-in process and waits for the command kill; both processes wipe the  *)
(* two stores when they start and again when they get the signal, each in  *)
(* its own time.  The sleeps order nothing and are not modelled.  MongoDB  *)
(* runs for ever.  The collection ROOM and its counter are treated like    *)
(* USER and are left out.  Accounts has the clients' requests in detail.   *)
(* A process killed while it starts, before its signal(), is left out.      *)
(***************************************************************************)
EXTENDS Integers, Sequences, FiniteSets

CONSTANTS Name,     \* names of users
          MaxLives  \* bound: how often the server is started

ASSUME LivesAssumption == MaxLives \in Nat \ {0}

Port == {"main", "login"}
Life == 1..MaxLives
Proc == Life \X Port
None == 0

VARIABLES
    life,     \* how often it was started
    parent,   \* start_server waits for a command
    pc,       \* the next step of each process
    bound,    \* the life whose process has the port, or None
    redis,    \* the Redis server: "up", "dying" (after SIGTERM), "down"
    sessions, \* Redis: the users with a session
    users,    \* MongoDB, USER: [name, id]
    counter,  \* MongoDB, COUNTERS: USER_id, or None
    making,   \* account_creation of each name: its step
    idOf,     \* the id it was given
    served,   \* history: users the main server sent their data to
    early,    \* history: a creation began before both processes had started
    hurried,  \* history: started again before the old processes had ended
    unlucky,  \* history: a process died before it had cleaned up
    late      \* history: an account was made between a cleanup and the end

stores  == <<sessions, users, counter>>
clients == <<making, idOf, served>>
history == <<early, hurried, unlucky, late>>
vars    == <<life, parent, pc, bound, redis, stores, clients, history>>

\* Fault: the socket is opened first.
BindFirst == <<"bind", "flush", "users", "counters", "init", "serve">>

\* redis_init, mongodb_init, then the socket.
Boot == <<"flush", "users", "counters", "init", "bind", "serve">>

Booting == {"flush", "users", "counters", "init", "bind"}

After(step) == Boot[(CHOOSE i \in DOMAIN Boot : Boot[i] = step) + 1]

Init ==
    /\ life = 0 /\ parent = FALSE
    /\ pc = [p \in Proc |-> "none"]
    /\ bound = [port \in Port |-> None]
    /\ redis = "down"
    /\ sessions = {} /\ users = {} /\ counter = None
    /\ making = [a \in Name |-> "none"]
    /\ idOf = [a \in Name |-> None]
    /\ served = {}
    /\ early = FALSE /\ hurried = FALSE /\ unlucky = FALSE /\ late = FALSE

Alive(p) == pc[p] \notin {"none", "ended"}

-----------------------------------------------------------------------------
(* The operator *)

\* A second Redis server cannot have the port of one that still runs.
StartServer ==
    /\ ~parent /\ life < MaxLives
    /\ life' = life + 1
    /\ parent' = TRUE
    /\ redis' = IF redis = "down" THEN "up" ELSE redis
    /\ pc' = [p \in Proc |-> IF p[1] = life + 1 THEN Boot[1] ELSE pc[p]]
    /\ hurried' = (hurried \/ redis # "down" \/ \E p \in Proc : Alive(p))
    /\ served' = {}
    /\ UNCHANGED <<bound, stores, making, idOf, early, unlucky, late>>

\* The command kill: signal 10 to both and SIGTERM to Redis.  A process that has
\* not come to signal() yet would die at once; the operator waits for them.
Kill ==
    /\ parent /\ \A port \in Port : pc[<<life, port>>] \in {"serve", "ended"}
    /\ parent' = FALSE
    /\ pc' = [p \in Proc |-> IF p[1] = life /\ pc[p] = "serve" THEN "cleanRedis" ELSE pc[p]]
    /\ redis' = IF redis = "up" THEN "dying" ELSE redis
    /\ UNCHANGED <<life, bound, stores, clients, history>>

RedisEnds ==
    /\ redis = "dying" /\ redis' = "down"
    /\ sessions' = {}
    /\ UNCHANGED <<life, parent, pc, bound, users, counter, clients, history>>

-----------------------------------------------------------------------------
(* Starting a process *)

\* The process ends, with its socket and the threads of its clients.
Ends(p) ==
    /\ pc' = [pc EXCEPT ![p] = "ended"]
    /\ bound' = [bound EXCEPT ![p[2]] = IF @ = p[1] THEN None ELSE @]
    /\ IF bound.login = p[1] /\ p[2] = "login"
       THEN making' = [a \in Name |-> "none"] /\ idOf' = [a \in Name |-> None]
       ELSE UNCHANGED <<making, idOf>>

Goes(p, from) == pc[p] = from /\ pc' = [pc EXCEPT ![p] = After(from)]

\* redis_init; without Redis the process exits.
Flush(p) ==
    /\ \/ redis # "down" /\ Goes(p, "flush") /\ sessions' = {}
          /\ UNCHANGED <<bound, making, idOf>>
       \/ redis = "down" /\ pc[p] = "flush" /\ Ends(p) /\ UNCHANGED sessions
    /\ UNCHANGED <<life, parent, redis, users, counter, served, history>>

\* mongodb_init
ClearUsers(p) ==
    /\ Goes(p, "users")
    /\ users' = {}
    /\ UNCHANGED <<life, parent, bound, redis, sessions, counter, clients, history>>

ClearCounters(p) ==
    /\ Goes(p, "counters")
    /\ counter' = None
    /\ UNCHANGED <<life, parent, bound, redis, sessions, users, clients, history>>

\* counter_init: $setOnInsert
InitCounter(p) ==
    /\ Goes(p, "init")
    /\ counter' = IF counter = None THEN 1 ELSE counter
    /\ UNCHANGED <<life, parent, bound, redis, sessions, users, clients, history>>

\* bind is not tested: listen then takes some other port, where nobody comes.
Bind(p) ==
    /\ Goes(p, "bind")
    /\ bound' = IF bound[p[2]] = None THEN [bound EXCEPT ![p[2]] = p[1]] ELSE bound
    /\ UNCHANGED <<life, parent, redis, stores, clients, history>>

-----------------------------------------------------------------------------
(* Stopping it: signal_kill, while the threads go on *)

\* redis_cleanup; without Redis the reply is NULL and the process dies of it.
CleanRedis(p) ==
    /\ pc[p] = "cleanRedis"
    /\ IF redis = "down"
       THEN Ends(p) /\ unlucky' = TRUE /\ UNCHANGED sessions
       ELSE /\ pc' = [pc EXCEPT ![p] = "cleanUsers"]
            /\ sessions' = {}
            /\ UNCHANGED <<bound, making, idOf, unlucky>>
    /\ UNCHANGED <<life, parent, redis, users, counter, served, early, hurried, late>>

\* A thread uses the connection that redis_cleanup freed.
UseFreed(p) ==
    /\ pc[p] \in {"cleanUsers", "die"} /\ bound[p[2]] = p[1]
    /\ Ends(p)
    /\ unlucky' = (unlucky \/ pc[p] = "cleanUsers")
    /\ UNCHANGED <<life, parent, redis, stores, served, early, hurried, late>>

\* Fault: the documents are kept.
KeptUsers == users

NoUsers == {}

\* mongodb_cleanup, which leaves COUNTERS.
CleanUsers(p) ==
    /\ pc[p] = "cleanUsers"
    /\ pc' = [pc EXCEPT ![p] = "die"]
    /\ users' = NoUsers
    /\ UNCHANGED <<life, parent, bound, redis, sessions, counter, clients, history>>

\* kill_process
Die(p) ==
    /\ pc[p] = "die"
    /\ Ends(p)
    /\ UNCHANGED <<life, parent, redis, stores, served, history>>

-----------------------------------------------------------------------------
(* The clients' requests, to the process that has the port *)

\* The process that listens on the port, from its socket to its end.
Listening(port, steps) == bound[port] # None /\ pc[<<bound[port], port>>] \in steps

Reached(port) == Listening(port, Booting \cup {"serve", "cleanRedis", "cleanUsers", "die"})

\* It has not freed its connection to Redis.
ReachesRedis(port) == redis # "down" /\ Listening(port, Booting \cup {"serve", "cleanRedis"})

\* account_creation: the name is not taken.
Begin(a) ==
    /\ Reached("login")
    /\ making[a] = "none" /\ \A u \in users : u.name # a
    /\ making' = [making EXCEPT ![a] = "next"]
    /\ early' = (early \/ \E p \in Proc : pc[p] \in Booting)
    /\ UNCHANGED <<life, parent, pc, bound, redis, stores, idOf, served, hurried, unlucky, late>>

\* Fault: the counter is read and not incremented.
SameId == IF counter = None THEN 1 ELSE counter

\* get_next_id: findAndModify with $inc, upsert and new.
NextId == (IF counter = None THEN 0 ELSE counter) + 1

TakeId(a) ==
    /\ Reached("login") /\ making[a] = "next"
    /\ making' = [making EXCEPT ![a] = "write"]
    /\ counter' = NextId
    /\ idOf' = [idOf EXCEPT ![a] = NextId]
    /\ UNCHANGED <<life, parent, pc, bound, redis, sessions, users, served, history>>

\* mongodb_insert replaces the document that has the id; then accc;ok.
Write(a) ==
    /\ Reached("login") /\ making[a] = "write"
    /\ making' = [making EXCEPT ![a] = "made"]
    /\ users' = {u \in users : u.id # idOf[a]} \cup {[name |-> a, id |-> idOf[a]]}
    /\ late' = (late \/ Listening("login", {"die"}))
    /\ UNCHANGED <<life, parent, pc, bound, redis, sessions, counter, idOf, served,
                   early, hurried, unlucky>>

\* on_log_in: auth and session_create.
LogIn(a) ==
    /\ ReachesRedis("login")
    /\ \E u \in users : u.name = a
    /\ sessions' = sessions \cup {a}
    /\ UNCHANGED <<life, parent, pc, bound, redis, users, counter, clients, history>>

\* on_data_request: the session, then the account of that name.
AskData(a) ==
    /\ ReachesRedis("main")
    /\ a \in sessions /\ \E u \in users : u.name = a
    /\ served' = served \cup {a}
    /\ UNCHANGED <<life, parent, pc, bound, redis, stores, making, idOf, history>>

Process(p) ==
    \/ Flush(p) \/ ClearUsers(p) \/ ClearCounters(p) \/ InitCounter(p) \/ Bind(p)
    \/ CleanRedis(p) \/ UseFreed(p) \/ CleanUsers(p) \/ Die(p)

Client(a) == Begin(a) \/ TakeId(a) \/ Write(a) \/ LogIn(a) \/ AskData(a)

Next ==
    \/ StartServer \/ Kill \/ RedisEnds
    \/ \E p \in Proc : Process(p)
    \/ \E a \in Name : Client(a)

Spec == Init /\ [][Next]_vars

-----------------------------------------------------------------------------
TypeOK ==
    /\ life \in 0..MaxLives /\ parent \in BOOLEAN
    /\ pc \in [Proc -> Booting \cup {"none", "serve", "cleanRedis", "cleanUsers", "die", "ended"}]
    /\ bound \in [Port -> Life \cup {None}]
    /\ redis \in {"up", "dying", "down"}
    /\ sessions \subseteq Name /\ served \subseteq Name
    /\ users \subseteq [name : Name, id : Nat \ {0}]
    /\ counter \in Nat
    /\ making \in [Name -> {"none", "next", "write", "made"}]
    /\ idOf \in [Name -> Nat]
    /\ {early, hurried, unlucky, late} \subseteq BOOLEAN

\* Every account whose creation was answered with accc;ok is in USER with the id
\* it was given, which no other has, while the server runs, if no creation began
\* before both processes had started and the server was not started again before
\* the old one had ended: neither process empties USER or resets its counter
\* under an account (mongodb_init, mongodb_client.c:55).
AccountsStayAlone ==
    parent /\ ~early /\ ~hurried =>
        /\ \A a \in Name : making[a] = "made" => [name |-> a, id |-> idOf[a]] \in users
        /\ \A a, b \in Name : making[a] = "made" /\ idOf[a] = idOf[b] => a = b

\* A user to whom the main server sent his data keeps his session while the server
\* runs, although each process flushes Redis in its own time: to be served he needs
\* both, and both have flushed by then (redis_init, redis_client.c:43).
ServedKeepSessionsAlone == parent /\ ~hurried => served \subseteq sessions

\* Once the server was stopped and both processes have ended, no account is left
\* for the next one, unless a process died in the cleanup or wrote after it
\* (cleanup_process, server.h:22).
StoppedIsClean ==
    ~parent /\ (\A p \in Proc : ~Alive(p)) /\ ~unlucky /\ ~late => users = {}
=============================================================================
