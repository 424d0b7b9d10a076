--------------------------- MODULE LifecycleProofs ---------------------------
(***************************************************************************)
(* Theorems about the coming and going of two things that no step couples: *)
(* the server's processes (Lifecycle), for any names and any number of     *)
(* lives, and the client's connections (Connection), for any number of     *)
(* sockets, clicks and packets.  The first part proves what survives the   *)
(* wiping of the stores; the second that a packet is dealt with once, that *)
(* the session key goes to the main server only, and that the connection   *)
(* to it keeps a reader.                                                   *)
(***************************************************************************)
EXTENDS Lifecycle, Connection, SequenceTheorems, FiniteSetTheorems, WellFoundedInduction, TLAPS

-----------------------------------------------------------------------------
(* I.  The processes of the server.                                        *)

Stopping == {"cleanRedis", "cleanUsers", "die"}

\* Who has a port has opened its socket and not ended.
PortHolders ==
    \A kind \in Port : bound[kind] # None =>
        pc[<<bound[kind], kind>>] \in Stopping \cup {"serve"}

Unborn == \A p \in Proc : p[1] > life => pc[p] = "none"

\* The processes of the other lives have ended.
OneLife == ~hurried => \A p \in Proc : p[1] # life => ~Alive(p)

\* Before the command kill nothing is cleaned up and Redis is not stopped.
RunsWhole == parent /\ ~hurried => redis # "dying" /\ \A p \in Proc : pc[p] \notin Stopping

Making == \E a \in Name : making[a] # "none"

\* The threads that make accounts are those of the process that has the port.
MakersHaveServer == Making => bound["login"] # None

\* A creation that began after the start is not overtaken by one.
NoBootMeanwhile == ~early /\ ~hurried /\ Making => \A p \in Proc : pc[p] \notin Booting

IdsHeld == \A a \in Name : idOf[a] # None <=> making[a] \in {"write", "made"}

Undisturbed == parent /\ ~early /\ ~hurried

IdsGiven ==
    Undisturbed =>
        /\ \A a \in Name : idOf[a] <= counter
        /\ \A a, b \in Name : idOf[a] = idOf[b] /\ idOf[a] # None => a = b

MadeAreStored ==
    Undisturbed => \A a \in Name : making[a] = "made" => [name |-> a, id |-> idOf[a]] \in users

\* Sessions are in Redis, and made by a log-in process that has flushed it.
SessionsAfterFlush ==
    /\ redis = "down" => sessions = {}
    /\ parent /\ ~hurried /\ sessions # {} =>
           \A p \in Proc : p[2] = "login" => pc[p] \notin Booting

\* Who is served needed both processes.
ServedAfterFlush ==
    parent /\ ~hurried => /\ served \subseteq sessions
                          /\ served # {} => \A p \in Proc : pc[p] \notin Booting

\* Documents have a process that will remove them.
SomebodyCleans ==
    users # {} /\ ~unlucky /\ ~late =>
        \E p \in Proc : pc[p] \in {"serve", "cleanRedis", "cleanUsers"}

IInv == /\ TypeOK /\ PortHolders /\ Unborn /\ OneLife /\ RunsWhole
        /\ MakersHaveServer /\ NoBootMeanwhile /\ IdsHeld /\ IdsGiven /\ MadeAreStored
        /\ SessionsAfterFlush /\ ServedAfterFlush /\ SomebodyCleans

-----------------------------------------------------------------------------
(* The order of the start.                                                 *)

\* What follows each step of the start.
LEMMA BootOrder ==
    /\ Boot[1] = "flush"
    /\ After("flush") = "users" /\ After("users") = "counters"
    /\ After("counters") = "init" /\ After("init") = "bind" /\ After("bind") = "serve"
<1>1. /\ DOMAIN Boot = 1..6
      /\ Boot[1] = "flush" /\ Boot[2] = "users" /\ Boot[3] = "counters"
      /\ Boot[4] = "init"  /\ Boot[5] = "bind"  /\ Boot[6] = "serve"
  BY DEF Boot
<1>2. ASSUME NEW i \in 1..6, NEW j \in 1..6, Boot[i] = Boot[j] PROVE i = j
  BY <1>1, <1>2
<1>3. ASSUME NEW k \in 1..6 PROVE (CHOOSE i \in DOMAIN Boot : Boot[i] = Boot[k]) = k
  BY <1>1, <1>2
<1> QED
  BY <1>1, <1>3 DEF After

\* Where a process goes that starts.
LEMMA BootStep ==
    ASSUME TypeOK, NEW p \in Proc, NEW from \in Booting, Goes(p, from)
    PROVE  /\ pc[p] = from
           /\ pc' = [pc EXCEPT ![p] = After(from)]
           /\ After(from) \in {"users", "counters", "init", "bind", "serve"}
           /\ from # "bind" => After(from) \in Booting
           /\ from = "bind" => After(from) = "serve"
BY BootOrder DEF Goes, Booting

-----------------------------------------------------------------------------
(* Every conjunct is kept by every step.                                   *)

LEMMA TypesKept ==
    ASSUME TypeOK, IdsHeld, Next
    PROVE  TypeOK'
<1> USE LivesAssumption DEF TypeOK, stores, clients, history, None, Port, Life
<1>1. CASE StartServer
  <2>1. life' \in Life
    BY <1>1 DEF StartServer
  <2>2. pc' \in [Proc -> Booting \cup {"none", "serve", "cleanRedis", "cleanUsers", "die", "ended"}]
    BY <1>1, BootOrder DEF StartServer, Booting
  <2> QED
    BY <1>1, <2>1, <2>2 DEF StartServer
<1>2. CASE Kill
  BY <1>2 DEF Kill
<1>3. CASE RedisEnds
  BY <1>3 DEF RedisEnds
<1>4. ASSUME NEW p \in Proc, Process(p) PROVE TypeOK'
  <2>0. p[1] \in Life /\ p[2] \in Port
    BY DEF Proc
  <2>1. CASE Ends(p) /\ UNCHANGED <<life, parent, redis, counter, served>>
             /\ sessions' \in {sessions, {}} /\ users' \in {users, {}}
             /\ {early', hurried', unlucky', late'} \subseteq BOOLEAN
    BY <2>0, <2>1 DEF Ends
  <2>2. CASE Flush(p)
    <3>1. CASE redis # "down"
      BY ZenonT(30), <2>2, <3>1, BootStep DEF Flush, Booting
    <3>2. CASE redis = "down"
      BY <2>1, <2>2, <3>2 DEF Flush
    <3> QED
      BY <3>1, <3>2
  <2>3. CASE ClearUsers(p)
    BY ZenonT(30), <2>3, BootStep DEF ClearUsers, Booting
  <2>4. CASE ClearCounters(p)
    BY ZenonT(30), <2>4, BootStep DEF ClearCounters, Booting
  <2>5. CASE InitCounter(p)
    BY ZenonT(30), <2>5, BootStep DEF InitCounter, Booting
  <2>6. CASE Bind(p)
    <3>1. bound' \in [Port -> Life \cup {None}]
      BY <2>0, <2>6 DEF Bind
    <3>2. pc' \in [Proc -> Booting \cup {"none", "serve", "cleanRedis", "cleanUsers", "die", "ended"}]
      BY <2>6, BootStep DEF Bind, Booting
    <3> QED
      BY <2>6, <3>1, <3>2 DEF Bind
  <2>7. CASE CleanRedis(p)
    BY <2>1, <2>7 DEF CleanRedis
  <2>8. CASE UseFreed(p)
    BY <2>1, <2>8 DEF UseFreed
  <2>9. CASE CleanUsers(p)
    BY <2>9 DEF CleanUsers, NoUsers
  <2>10. CASE Die(p)
    BY <2>1, <2>10 DEF Die
  <2> QED
    BY <1>4, <2>2, <2>3, <2>4, <2>5, <2>6, <2>7, <2>8, <2>9, <2>10 DEF Process
<1>5. ASSUME NEW a \in Name, Client(a) PROVE TypeOK'
  <2>1. NextId \in Nat \ {0}
    BY DEF NextId
  <2>2. CASE Begin(a)
    BY <2>2 DEF Begin
  <2>3. CASE TakeId(a)
    BY <2>1, <2>3 DEF TakeId
  <2>4. CASE Write(a)
    BY <2>4 DEF Write, IdsHeld
  <2>5. CASE LogIn(a)
    BY <2>5 DEF LogIn
  <2>6. CASE AskData(a)
    BY <2>6 DEF AskData
  <2> QED
    BY <1>5, <2>2, <2>3, <2>4, <2>5, <2>6 DEF Client
<1> QED
  BY <1>1, <1>2, <1>3, <1>4, <1>5 DEF Next

\* What a step does to the processes: one of them goes on, ends, or all are
\* started or told to stop.
LEMMA ShapesKept ==
    ASSUME TypeOK, TypeOK', PortHolders, Unborn, OneLife, RunsWhole, Next
    PROVE  PortHolders' /\ Unborn' /\ OneLife' /\ RunsWhole'
<1> USE DEF TypeOK, stores, clients, history, None, Port, Stopping, PortHolders, Unborn,
            OneLife, RunsWhole, Alive
<1>1. CASE StartServer
  <2>1. \A p \in Proc : pc[p] \in Stopping \cup {"serve"} => pc'[p] = pc[p]
    BY <1>1 DEF StartServer
  <2>2. \A p \in Proc : p[1] > life' => pc'[p] = "none"
    BY <1>1 DEF StartServer, Proc, Life
  <2>3. PortHolders'
    BY <1>1, <2>1 DEF StartServer, Proc
  <2>4. ~hurried' => redis' = "up" /\ \A p \in Proc : ~Alive(p)
    BY <1>1 DEF StartServer
  <2>5. \A p \in Proc : pc'[p] \in {pc[p], "flush"} /\ (p[1] # life' => pc'[p] = pc[p])
    BY <1>1, BootOrder DEF StartServer
  <2> QED
    BY <2>2, <2>3, <2>4, <2>5
<1>2. CASE Kill
  BY <1>2 DEF Kill, Proc
<1>3. CASE RedisEnds
  BY <1>3 DEF RedisEnds
<1>4. ASSUME NEW p \in Proc, Process(p) PROVE PortHolders' /\ Unborn' /\ OneLife' /\ RunsWhole'
  <2>0. p[1] \in Life /\ p[2] \in Port /\ p = <<p[1], p[2]>>
    BY DEF Proc
  <2>1. CASE /\ pc[p] \in Booting
             /\ \E to \in Booting \cup {"serve"} : pc' = [pc EXCEPT ![p] = to]
             /\ bound' = bound /\ UNCHANGED <<life, parent, redis, hurried>>
    BY <2>0, <2>1 DEF Booting
  <2>2. CASE Ends(p) /\ pc[p] # "none" /\ UNCHANGED <<life, parent, redis, hurried>>
    BY <2>0, <2>2 DEF Ends
  <2>3. CASE /\ pc[p] \in Stopping
             /\ \E to \in Stopping : pc' = [pc EXCEPT ![p] = to]
             /\ bound' = bound /\ UNCHANGED <<life, parent, redis, hurried>>
    BY <2>0, <2>3
  <2>4. CASE Flush(p)
    <3>1. CASE redis # "down"
      BY <2>1, <2>4, <3>1, BootStep DEF Flush, Booting
    <3>2. CASE redis = "down"
      BY <2>2, <2>4, <3>2 DEF Flush
    <3> QED
      BY <3>1, <3>2
  <2>5. CASE ClearUsers(p)
    BY <2>1, <2>5, BootStep DEF ClearUsers, Booting
  <2>6. CASE ClearCounters(p)
    BY <2>1, <2>6, BootStep DEF ClearCounters, Booting
  <2>7. CASE InitCounter(p)
    BY <2>1, <2>7, BootStep DEF InitCounter, Booting
  <2>8. CASE Bind(p)
    <3>1. pc[p] = "bind" /\ pc' = [pc EXCEPT ![p] = "serve"]
      BY <2>8, BootStep DEF Bind, Booting
    <3>2. bound' \in {bound, [bound EXCEPT ![p[2]] = p[1]]}
      BY <2>8 DEF Bind
    <3> QED
      BY <2>0, <2>8, <3>1, <3>2 DEF Bind
  <2>9. CASE CleanRedis(p)
    BY <2>2, <2>3, <2>9 DEF CleanRedis
  <2>10. CASE UseFreed(p)
    BY <2>2, <2>10 DEF UseFreed
  <2>11. CASE CleanUsers(p)
    BY <2>3, <2>11 DEF CleanUsers
  <2>12. CASE Die(p)
    BY <2>2, <2>12 DEF Die
  <2> QED
    BY <1>4, <2>4, <2>5, <2>6, <2>7, <2>8, <2>9, <2>10, <2>11, <2>12 DEF Process
<1>5. ASSUME NEW a \in Name, Client(a)
      PROVE  UNCHANGED <<life, parent, pc, bound, redis, hurried>>
  BY <1>5 DEF Client, Begin, TakeId, Write, LogIn, AskData
<1> QED
  BY <1>1, <1>2, <1>3, <1>4, <1>5 DEF Next

\* Creations live and end with the process that has the port, and cannot span a
\* start.
LEMMA MakersKept ==
    ASSUME TypeOK, PortHolders, Unborn, MakersHaveServer, NoBootMeanwhile, IdsHeld, Next
    PROVE  MakersHaveServer' /\ NoBootMeanwhile' /\ IdsHeld'
<1> USE DEF TypeOK, stores, clients, history, None, Port, Making, MakersHaveServer,
            NoBootMeanwhile, IdsHeld
<1>1. CASE StartServer
  <2>1. ~hurried' /\ Making => bound["login"] # None /\ \A p \in Proc : ~Alive(p)
    BY <1>1 DEF StartServer
  <2>2. ~(~hurried' /\ Making)
    <3> SUFFICES ASSUME ~hurried', Making PROVE FALSE
      OBVIOUS
    <3>1. bound["login"] \in Life /\ <<bound["login"], "login">> \in Proc
      BY <2>1 DEF Proc
    <3> QED
      BY <2>1, <3>1 DEF PortHolders, Stopping, Alive
  <2> QED
    BY <1>1, <2>2 DEF StartServer
<1>2. CASE Kill
  BY <1>2 DEF Kill, Booting
<1>3. CASE RedisEnds
  BY <1>3 DEF RedisEnds
<1>4. ASSUME NEW p \in Proc, Process(p)
      PROVE  MakersHaveServer' /\ NoBootMeanwhile' /\ IdsHeld'
  <2>0. p[1] \in Life /\ p[2] \in Port /\ p[1] # None
    BY DEF Proc, Life
  <2>1. CASE /\ UNCHANGED <<making, idOf, early, hurried>>
             /\ bound'["login"] = bound["login"] \/ bound'["login"] # None
             /\ \E to : pc' = [pc EXCEPT ![p] = to] /\ (to \in Booting => pc[p] \in Booting)
    BY <2>1
  <2>2. CASE Ends(p) /\ UNCHANGED <<early, hurried>>
    BY <2>0, <2>2 DEF Ends, Booting
  <2>3. CASE Flush(p)
    <3>1. CASE redis # "down"
      BY <2>1, <2>3, <3>1, BootStep DEF Flush, Booting
    <3>2. CASE redis = "down"
      BY <2>2, <2>3, <3>2 DEF Flush
    <3> QED
      BY <3>1, <3>2
  <2>4. CASE ClearUsers(p)
    BY <2>1, <2>4, BootStep DEF ClearUsers, Booting
  <2>5. CASE ClearCounters(p)
    BY <2>1, <2>5, BootStep DEF ClearCounters, Booting
  <2>6. CASE InitCounter(p)
    BY <2>1, <2>6, BootStep DEF InitCounter, Booting
  <2>7. CASE Bind(p)
    <3>1. pc[p] = "bind" /\ pc' = [pc EXCEPT ![p] = "serve"]
      BY <2>7, BootStep DEF Bind, Booting
    <3>2. bound'["login"] = bound["login"] \/ bound'["login"] # None
      BY <2>0, <2>7 DEF Bind
    <3> QED
      BY <2>1, <2>7, <3>1, <3>2 DEF Bind, Booting
  <2>8. CASE CleanRedis(p)
    BY <2>1, <2>2, <2>8 DEF CleanRedis, Booting
  <2>9. CASE UseFreed(p)
    BY <2>2, <2>9 DEF UseFreed
  <2>10. CASE CleanUsers(p)
    BY <2>1, <2>10 DEF CleanUsers, Booting
  <2>11. CASE Die(p)
    BY <2>2, <2>11 DEF Die
  <2> QED
    BY <1>4, <2>3, <2>4, <2>5, <2>6, <2>7, <2>8, <2>9, <2>10, <2>11 DEF Process
<1>5. ASSUME NEW a \in Name, Client(a)
      PROVE  MakersHaveServer' /\ NoBootMeanwhile' /\ IdsHeld'
  <2>1. CASE Begin(a)
    BY <1>5, <2>1 DEF Begin, Reached, Listening
  <2>2. CASE TakeId(a)
    <3>1. NextId \in Nat \ {0}
      BY DEF NextId
    <3> QED
      BY <1>5, <2>2, <3>1 DEF TakeId, Reached, Listening
  <2>3. CASE Write(a)
    BY <1>5, <2>3 DEF Write
  <2>4. CASE LogIn(a) \/ AskData(a)
    BY <2>4 DEF LogIn, AskData
  <2> QED
    BY <1>5, <2>1, <2>2, <2>3, <2>4 DEF Client
<1> QED
  BY <1>1, <1>2, <1>3, <1>4, <1>5 DEF Next

\* An account that was made stays, and its id is its own.
LEMMA AccountsKept ==
    ASSUME TypeOK, TypeOK', RunsWhole, NoBootMeanwhile, IdsHeld, IdsHeld', IdsGiven,
           MadeAreStored, MakersHaveServer, MakersHaveServer', NoBootMeanwhile', Next
    PROVE  IdsGiven' /\ MadeAreStored'
<1> USE DEF TypeOK, stores, clients, history, None, Making, IdsHeld, IdsGiven, MadeAreStored,
            Undisturbed
<1>0. CASE ~Making'
  <2>1. \A a \in Name : making'[a] = "none" /\ idOf'[a] = 0
    BY <1>0
  <2> QED
    BY <2>1
<1>1. CASE StartServer
  <2>1. Undisturbed' => ~Making'
    <3>1. <<life', "main">> \in Proc
      BY <1>1, LivesAssumption DEF StartServer, Proc, Port, Life
    <3>2. pc'[<<life', "main">>] = "flush"
      BY <1>1, <3>1, BootOrder DEF StartServer
    <3> QED
      BY <3>1, <3>2 DEF NoBootMeanwhile, Booting
  <2> QED
    BY <1>0, <2>1
<1>2. CASE Kill
  BY <1>2 DEF Kill
<1>3. CASE RedisEnds
  BY <1>3 DEF RedisEnds
<1>4. ASSUME NEW p \in Proc, Process(p), Making', Undisturbed'
      PROVE  IdsGiven' /\ MadeAreStored'
  <2>1. UNCHANGED <<making, idOf, parent, early, hurried>>
    <3>1. ~ (Ends(p) /\ making' # making)
      BY <1>4 DEF Ends
    <3> QED
      BY <1>4, <3>1 DEF Process, Flush, ClearUsers, ClearCounters, InitCounter, Bind, CleanRedis,
          UseFreed, CleanUsers, Die, Ends
  <2>2. Undisturbed /\ Making
    BY <1>4, <2>1
  <2>3. pc[p] \notin Booting /\ pc[p] \notin Stopping
    BY <2>2 DEF NoBootMeanwhile, RunsWhole
  <2>4. FALSE
    BY <1>4, <2>3, BootStep DEF Process, Flush, ClearUsers, ClearCounters, InitCounter, Bind,
        CleanRedis, UseFreed, CleanUsers, Die, Goes, Booting, Stopping
  <2> QED
    BY <2>4
<1>5. ASSUME NEW a \in Name, Client(a)
      PROVE  IdsGiven' /\ MadeAreStored'
  <2>1. CASE Begin(a)
    BY <1>5, <2>1 DEF Begin
  <2>2. CASE TakeId(a)
    <3>1. NextId = counter + 1
      BY DEF NextId
    <3> QED
      BY <1>5, <2>2, <3>1 DEF TakeId
  <2>3. CASE Write(a)
    <3>1. ASSUME Undisturbed', NEW b \in Name, making'[b] = "made"
          PROVE  [name |-> b, id |-> idOf'[b]] \in users'
      <4>1. Undisturbed /\ idOf' = idOf /\ making[a] = "write"
        BY <2>3, <3>1 DEF Write
      <4>2. CASE b = a
        BY <2>3, <4>1, <4>2 DEF Write
      <4>3. CASE b # a
        <5>1. making[b] = "made" /\ idOf[b] # idOf[a]
          BY <2>3, <3>1, <4>1, <4>3 DEF Write
        <5> QED
          BY <2>3, <4>1, <5>1 DEF Write
      <4> QED
        BY <4>2, <4>3
    <3>2. IdsGiven'
      BY <2>3 DEF Write
    <3> QED
      BY <3>1, <3>2
  <2>4. CASE LogIn(a) \/ AskData(a)
    BY <2>4 DEF LogIn, AskData
  <2> QED
    BY <1>5, <2>1, <2>2, <2>3, <2>4 DEF Client
<1> QED
  BY <1>0, <1>1, <1>2, <1>3, <1>4, <1>5 DEF Next

\* A log-in that is kept and a client that is served come after the flushes of the
\* processes they need.
LEMMA SessionsKept ==
    ASSUME TypeOK, PortHolders, OneLife, RunsWhole, SessionsAfterFlush, ServedAfterFlush, Next
    PROVE  SessionsAfterFlush' /\ ServedAfterFlush'
<1> USE DEF TypeOK, stores, clients, history, None, Port, RunsWhole, SessionsAfterFlush,
            ServedAfterFlush
<1>1. CASE StartServer
  <2>1. ~hurried' => sessions' = {} /\ served' = {}
    BY <1>1 DEF StartServer
  <2>2. redis' # "down"
    BY <1>1 DEF StartServer
  <2> QED
    BY <2>1, <2>2
<1>2. CASE Kill
  BY <1>2 DEF Kill
<1>3. CASE RedisEnds
  BY <1>3 DEF RedisEnds
<1>4. ASSUME NEW p \in Proc, Process(p) PROVE SessionsAfterFlush' /\ ServedAfterFlush'
  <2>1. CASE /\ UNCHANGED <<redis, parent, hurried, served, sessions>>
             /\ \E to : pc' = [pc EXCEPT ![p] = to] /\ (to \in Booting => pc[p] \in Booting)
    BY <2>1
  <2>2. CASE UNCHANGED <<redis, parent, hurried, served, sessions>> /\ Ends(p)
    BY <2>1, <2>2 DEF Ends, Booting
  <2>3. CASE Flush(p)
    <3>1. CASE redis # "down"
      <4>1. pc[p] \in Booting
        BY <2>3, <3>1, BootStep DEF Flush, Booting
      <4>2. parent /\ ~hurried => served = {}
        BY <4>1
      <4> QED
        BY <2>3, <3>1, <4>2 DEF Flush
    <3>2. CASE redis = "down"
      BY <2>2, <2>3, <3>2 DEF Flush
    <3> QED
      BY <3>1, <3>2
  <2>4. CASE ClearUsers(p)
    BY <2>1, <2>4, BootStep DEF ClearUsers, Booting
  <2>5. CASE ClearCounters(p)
    BY <2>1, <2>5, BootStep DEF ClearCounters, Booting
  <2>6. CASE InitCounter(p)
    BY <2>1, <2>6, BootStep DEF InitCounter, Booting
  <2>7. CASE Bind(p)
    BY <2>1, <2>7, BootStep DEF Bind, Booting
  <2>8. CASE CleanRedis(p)
    <3>1. ~(parent /\ ~hurried)
      BY <2>8 DEF CleanRedis, Stopping
    <3> QED
      BY <2>8, <3>1 DEF CleanRedis, Ends
  <2>9. CASE UseFreed(p)
    BY <2>2, <2>9 DEF UseFreed
  <2>10. CASE CleanUsers(p)
    BY <2>1, <2>10 DEF CleanUsers, Booting
  <2>11. CASE Die(p)
    BY <2>2, <2>11 DEF Die
  <2> QED
    BY <1>4, <2>3, <2>4, <2>5, <2>6, <2>7, <2>8, <2>9, <2>10, <2>11 DEF Process
<1>5. ASSUME NEW a \in Name, Client(a) PROVE SessionsAfterFlush' /\ ServedAfterFlush'
  <2>1. CASE Begin(a) \/ TakeId(a) \/ Write(a)
    BY <2>1 DEF Begin, TakeId, Write
  <2>2. ASSUME NEW kind \in Port, ReachesRedis(kind), ~hurried, NEW p \in Proc, p[2] = kind
        PROVE  pc[p] \notin Booting
    <3>1. /\ bound[kind] \in Life /\ <<bound[kind], kind>> \in Proc
          /\ pc[<<bound[kind], kind>>] \in Stopping \cup {"serve"}
      BY <2>2 DEF ReachesRedis, Listening, PortHolders, Proc
    <3>2. bound[kind] = life
      BY <2>2, <3>1 DEF OneLife, Alive, Stopping
    <3>3. CASE p[1] = life
      BY <2>2, <3>1, <3>2, <3>3 DEF Proc, Booting, Stopping
    <3>4. CASE p[1] # life
      BY <2>2, <3>4 DEF OneLife, Alive, Booting
    <3> QED
      BY <3>3, <3>4
  <2>3. CASE LogIn(a)
    <3>1. redis # "down" /\ ReachesRedis("login")
      BY <2>3 DEF LogIn, ReachesRedis
    <3> QED
      BY <2>2, <2>3, <3>1 DEF LogIn
  <2>4. CASE AskData(a)
    <3>1. ReachesRedis("main") /\ a \in sessions
      BY <2>4 DEF AskData
    <3>2. ASSUME parent, ~hurried, NEW p \in Proc PROVE pc[p] \notin Booting
      BY <2>2, <3>1, <3>2 DEF Proc
    <3> QED
      BY <2>4, <3>1, <3>2 DEF AskData
  <2> QED
    BY <1>5, <2>1, <2>3, <2>4 DEF Client
<1> QED
  BY <1>1, <1>2, <1>3, <1>4, <1>5 DEF Next

\* The log-in process that writes a document has yet to clean up, or does so late.
LEMMA SomebodyCleansKept ==
    ASSUME TypeOK, PortHolders, Unborn, SomebodyCleans, Next
    PROVE  SomebodyCleans'
<1> USE DEF TypeOK, stores, clients, history, None, Port, SomebodyCleans
<1>1. CASE StartServer
  BY <1>1 DEF StartServer, Unborn
<1>2. CASE Kill
  BY <1>2 DEF Kill
<1>3. CASE RedisEnds
  BY <1>3 DEF RedisEnds
<1>4. ASSUME NEW p \in Proc, Process(p) PROVE SomebodyCleans'
  <2>1. CASE /\ UNCHANGED <<users, unlucky, late>>
             /\ \E to : pc' = [pc EXCEPT ![p] = to]
             /\ \/ pc[p] \notin {"serve", "cleanRedis", "cleanUsers"}
                \/ pc'[p] \in {"serve", "cleanRedis", "cleanUsers"}
    BY <2>1
  <2>2. CASE Flush(p)
    BY <2>1, <2>2, BootStep DEF Flush, Booting, Ends
  <2>3. CASE ClearUsers(p)
    BY <2>3 DEF ClearUsers
  <2>4. CASE ClearCounters(p)
    BY <2>1, <2>4, BootStep DEF ClearCounters, Booting
  <2>5. CASE InitCounter(p)
    BY <2>1, <2>5, BootStep DEF InitCounter, Booting
  <2>6. CASE Bind(p)
    BY <2>1, <2>6, BootStep DEF Bind, Booting
  <2>7. CASE CleanRedis(p)
    BY <2>1, <2>7 DEF CleanRedis
  <2>8. CASE UseFreed(p)
    BY <2>1, <2>8 DEF UseFreed, Ends
  <2>9. CASE CleanUsers(p)
    BY <2>9 DEF CleanUsers, NoUsers
  <2>10. CASE Die(p)
    BY <2>1, <2>10 DEF Die, Ends
  <2> QED
    BY <1>4, <2>2, <2>3, <2>4, <2>5, <2>6, <2>7, <2>8, <2>9, <2>10 DEF Process
<1>5. ASSUME NEW a \in Name, Client(a) PROVE SomebodyCleans'
  <2>1. CASE Write(a)
    <3>1. /\ bound["login"] \in Life /\ <<bound["login"], "login">> \in Proc
          /\ pc[<<bound["login"], "login">>] \in Stopping \cup {"serve"}
      BY <2>1 DEF Write, Reached, Listening, PortHolders, Proc
    <3>2. ASSUME pc[<<bound["login"], "login">>] = "die" PROVE late'
      <4>1. Listening("login", {"die"})
        BY <3>1, <3>2, LivesAssumption DEF Listening, Life
      <4> QED
        BY <2>1, <4>1 DEF Write
    <3> QED
      BY <2>1, <3>1, <3>2 DEF Write, Stopping
  <2>2. CASE Begin(a) \/ TakeId(a) \/ LogIn(a) \/ AskData(a)
    BY <2>2 DEF Begin, TakeId, LogIn, AskData
  <2> QED
    BY <1>5, <2>1, <2>2 DEF Client
<1> QED
  BY <1>1, <1>2, <1>3, <1>4, <1>5 DEF Next

-----------------------------------------------------------------------------
(* The theorems.                                                           *)

LEMMA Initial == Init => IInv
<1> SUFFICES ASSUME Init PROVE IInv
  OBVIOUS
<1> USE LivesAssumption DEF Init, None, Port
<1>1. TypeOK
  <2>1. life \in 0..MaxLives /\ bound \in [Port -> Life \cup {None}] /\ counter \in Nat
    BY DEF Life
  <2>2. pc \in [Proc -> Booting \cup {"none", "serve", "cleanRedis", "cleanUsers", "die", "ended"}]
    OBVIOUS
  <2>3. /\ making \in [Name -> {"none", "next", "write", "made"}]
        /\ idOf \in [Name -> Nat]
    OBVIOUS
  <2>4. {early, hurried, unlucky, late} \subseteq BOOLEAN
    OBVIOUS
  <2> QED
    BY <2>1, <2>2, <2>3, <2>4 DEF TypeOK
<1>2. PortHolders /\ Unborn /\ OneLife /\ RunsWhole
  BY DEF PortHolders, Unborn, OneLife, RunsWhole, Alive
<1>3. MakersHaveServer /\ NoBootMeanwhile /\ IdsHeld /\ IdsGiven /\ MadeAreStored
  BY DEF MakersHaveServer, NoBootMeanwhile, Making, IdsHeld, IdsGiven, MadeAreStored, Undisturbed
<1>4. SessionsAfterFlush /\ ServedAfterFlush /\ SomebodyCleans
  BY DEF SessionsAfterFlush, ServedAfterFlush, SomebodyCleans
<1> QED
  BY <1>1, <1>2, <1>3, <1>4 DEF IInv

LEMMA StepKept == IInv /\ [Next]_vars => IInv'
<1> SUFFICES ASSUME IInv, [Next]_vars PROVE IInv'
  OBVIOUS
<1>1. CASE Next
  <2>1. TypeOK'
    BY <1>1, TypesKept DEF IInv
  <2>2. PortHolders' /\ Unborn' /\ OneLife' /\ RunsWhole'
    BY <1>1, <2>1, ShapesKept DEF IInv
  <2>3. MakersHaveServer' /\ NoBootMeanwhile' /\ IdsHeld'
    BY <1>1, MakersKept DEF IInv
  <2>4. IdsGiven' /\ MadeAreStored'
    BY <1>1, <2>1, <2>3, AccountsKept DEF IInv
  <2>5. SessionsAfterFlush' /\ ServedAfterFlush' /\ SomebodyCleans'
    BY <1>1, SessionsKept, SomebodyCleansKept DEF IInv
  <2> QED
    BY <2>1, <2>2, <2>3, <2>4, <2>5 DEF IInv
<1>2. CASE UNCHANGED vars
  BY <1>2 DEF vars, stores, clients, history, IInv, TypeOK, PortHolders, Unborn, OneLife,
      Alive, RunsWhole, MakersHaveServer, Making, NoBootMeanwhile, IdsHeld, IdsGiven, Undisturbed,
      MadeAreStored, SessionsAfterFlush, ServedAfterFlush, SomebodyCleans
<1> QED
  BY <1>1, <1>2

\* The inductive invariant of starting, serving and stopping.
THEOREM Invariance == Spec => []IInv
<1>1. Init => IInv
  BY Initial
<1>2. IInv /\ [Next]_vars => IInv'
  BY StepKept
<1> QED
  BY <1>1, <1>2, PTL DEF Spec

\* The variables keep their types.
THEOREM TypeCorrect == Spec => []TypeOK
<1>1. IInv => TypeOK
  BY DEF IInv
<1> QED
  BY <1>1, Invariance, PTL

\* An account whose creation was answered with accc;ok stays, with an id of its own,
\* while the server runs (mongodb_init, mongodb_client.c:55).
THEOREM AccountsStay == Spec => []AccountsStayAlone
<1>1. IInv => AccountsStayAlone
  <2> SUFFICES ASSUME IInv, Undisturbed PROVE
          /\ \A a \in Name : making[a] = "made" => [name |-> a, id |-> idOf[a]] \in users
          /\ \A a, b \in Name : making[a] = "made" /\ idOf[a] = idOf[b] => a = b
    BY DEF AccountsStayAlone, Undisturbed
  <2> QED
    BY DEF IInv, MadeAreStored, IdsGiven, IdsHeld
<1> QED
  BY <1>1, Invariance, PTL

\* Whoever was sent his data keeps his session while the server runs (redis_init,
\* redis_client.c:43).
THEOREM ServedKeepSessions == Spec => []ServedKeepSessionsAlone
<1>1. IInv => ServedKeepSessionsAlone
  BY DEF IInv, ServedAfterFlush, ServedKeepSessionsAlone
<1> QED
  BY <1>1, Invariance, PTL

\* A server that has stopped leaves no account, unless a process died in its cleanup
\* or wrote after it (cleanup_process, server.h:22).
THEOREM StoppedServerIsClean == Spec => []StoppedIsClean
<1>1. IInv => StoppedIsClean
  BY DEF IInv, SomebodyCleans, StoppedIsClean, Alive
<1> QED
  BY <1>1, Invariance, PTL

-----------------------------------------------------------------------------
(* II.  The connections of the client.                                     *)
(* What is always so.                                                      *)

ReaderSteps ==
    {"none", "start", "loop", "recv", "copy", "handle", "free", "stop", "join", "close",
     "socket", "connect", "create", "ask", "clear", "ended"}
WindowSteps == {"idle", "socket", "connect", "create", "send", "stop", "join", "close"}

Packets ==
    [type : {"none", "login", "register", "key", "fail", "accc", "again", "push"},
     n : 0..MaxPushes]

Request == {"login", "register", "data"}

TypeOfNet ==
    /\ made \in 0..MaxSockets /\ threads \in 0..MaxSockets
    /\ file \in [Fd -> 0..MaxSockets]
    /\ link \in [Sock -> {"raw", "up", "down"}]
    /\ port \in [Sock -> {"login", "main"}]
    /\ asks \in [Sock -> Seq(Request)]
    /\ inbox \in [Sock -> Seq(Packets)]

TypeOfThreads ==
    /\ clientSocket \in 0..MaxSockets /\ readThread \in 0..MaxSockets
    /\ readBool \in BOOLEAN
    /\ buffer \in Packets \X BOOLEAN
    /\ at \in [Thread -> ReaderSteps \cup WindowSteps]
    /\ at[Main] \in WindowSteps /\ \A r \in Reader : at[r] \in ReaderSteps
    /\ sock \in [Reader -> 0..MaxSockets]
    /\ on \in [Reader -> 0..MaxSockets]
    /\ job \in [Thread -> Packets]
    /\ at[Main] \in {"socket", "connect", "create", "send"} => job[Main].type \in Type
    /\ window \in {"login", "chat"}
    /\ pushed \in 0..MaxPushes
    /\ handled \in [1..MaxPushes -> 0..2]
    /\ joined \subseteq 0..MaxSockets
    /\ crossed \in BOOLEAN /\ shared \in BOOLEAN
    /\ clicks \in Nat /\ alive \in BOOLEAN

\* A socket has one descriptor, and none can be asked that is not connected.
Sockets ==
    /\ \A f \in Fd : file[f] <= made
    /\ \A f, g \in Fd : file[f] = file[g] /\ file[f] # Null => f = g
    /\ \A s \in Sock : s > made => link[s] = "raw"
    /\ \A s \in Sock : link[s] = "raw" => asks[s] = <<>> /\ inbox[s] = <<>>
    /\ \A s \in Sock : port[s] = "main" => link[s] = "up"
    /\ \A r \in Reader : at[r] = "none" <=> r > threads
    /\ \A r \in Reader : at[r] = "recv" => on[r] \in Sock /\ link[on[r]] # "raw"

-----------------------------------------------------------------------------
(* Every packet is in one place.                                           *)

PushesDiffer ==
    /\ \A s \in Sock : \A i \in 1..Len(inbox[s]) :
           inbox[s][i].type = "push" => inbox[s][i].n \in 1..pushed
    /\ \A s, z \in Sock : \A i \in 1..Len(inbox[s]) : \A j \in 1..Len(inbox[z]) :
           inbox[s][i].type = "push" /\ inbox[s][i] = inbox[z][j] => s = z /\ i = j
    /\ buffer[1].type = "push" => buffer[1].n \in 1..pushed
    /\ \A r \in Reader : job[r].type = "push" => job[r].n \in 1..pushed
    /\ \A n \in 1..MaxPushes : n > pushed => handled[n] = 0

OneBetween == \A q, r \in Reader : Between(q) /\ Between(r) => q = r

OneBuffer ==
    /\ OneBetween
    /\ (\A r \in Reader : ~Between(r)) => buffer = Wiped
    /\ \A r \in Reader : at[r] = "copy" => buffer[2]
    /\ \A n \in 1..pushed : Waits(n) => ~InHand(n)
    /\ \A n \in 1..pushed : handled[n] = IF Waits(n) \/ InHand(n) THEN 0 ELSE 1

PacketInv == PushesDiffer /\ (~shared => OneBuffer)

-----------------------------------------------------------------------------
(* Before the main server is connected, one request is under way at most.  *)

\* The socket of user_data.conn, and that of a reader's own descriptor.
Front == File(clientSocket)
Behind(r) == File(sock[r])

Replies == {"key", "fail", "accc"}

Quiet(s) == asks[s] = <<>> /\ inbox[s] = <<>>

OneRequest(s) ==
    \/ Quiet(s)
    \/ inbox[s] = <<>> /\ Len(asks[s]) = 1
    \/ asks[s] = <<>> /\ Len(inbox[s]) = 1 /\ inbox[s][1].type \in Replies

\* The reader of the connection in user_data.conn.
Current(r) == readThread = r /\ Front # Null /\ link[Front] # "raw"

Own(r) == Current(r) /\ sock[r] = clientSocket /\ Quiet(Front)

Settled(r) ==
    /\ Front = Null \/ link[Front] = "raw"
    /\ Connected(Behind(r)) => Quiet(Behind(r))

\* Where a reader is whose request is not settled.
Stage(r) ==
    \/ at[r] = "start" /\ Current(r) /\ OneRequest(Front)
    \/ at[r] = "loop" /\ Current(r) /\ sock[r] = clientSocket /\ OneRequest(Front)
    \/ at[r] = "recv" /\ Current(r) /\ sock[r] = clientSocket /\ on[r] = Front /\ OneRequest(Front)
    \/ at[r] = "copy" /\ Own(r) /\ buffer[1].type \in Replies
    \/ at[r] = "handle" /\ Own(r) /\ job[r].type \in Replies
    \/ at[r] = "stop" /\ Own(r) /\ job[r].type = "accc"
    \/ at[r] \in {"join", "close"} /\ Own(r) /\ job[r].type \in {"key", "accc"}
    \/ at[r] = "free" /\ Own(r)
    \/ at[r] = "socket" /\ Behind(r) = Null
    \/ at[r] \in {"connect", "ask"} /\ Front # Null /\ link[Front] = "raw"
                                    /\ Behind(r) \in {Null, Front}
    \/ at[r] \in {"clear", "loop"} /\ Settled(r)

\* The main thread connects when every reader is at rest, and then has one.
WindowStage ==
    /\ at[Main] \in {"socket", "connect", "create", "close"} => \A r \in Reader : AtRest(r)
    /\ at[Main] = "connect" => Front # Null /\ link[Front] = "raw"
    /\ at[Main] = "create" =>
           /\ Front # Null /\ link[Front] # "raw" /\ Quiet(Front)
           /\ \A q \in Reader : at[q] = "recv" => on[q] # Front
    /\ at[Main] \in {"send", "stop", "join"} =>
           /\ readThread # Null /\ Current(readThread) /\ Quiet(Front)
           /\ \A r \in Reader : r # readThread => AtRest(r)
           /\ at[readThread] \in {"start", "loop", "recv", "ended"}
           /\ at[readThread] \in {"loop", "recv"} => sock[readThread] = clientSocket
           /\ at[readThread] = "recv" => on[readThread] = Front

LoginPhase ==
    /\ \A s \in Sock : port[s] = "login"
    /\ \A s \in Sock : \A i \in 1..Len(asks[s]) : asks[s][i] # "data"
    /\ \A q, r \in Reader : ~AtRest(q) /\ ~AtRest(r) => q = r
    /\ \A r \in Reader : AtRest(r) \/ Stage(r)
    /\ \A q \in Reader : at[q] = "recv" /\ on[q] = Front => readThread = q
    /\ WindowStage

-----------------------------------------------------------------------------
(* Afterwards readers only serve the connection to the main server.        *)

Serves(r, m) ==
    \/ at[r] = "start"
    \/ /\ Behind(r) \in {Null, m}
       /\ \/ at[r] \in {"create", "ask", "clear", "loop"}
          \/ at[r] = "recv" /\ on[r] = m
          \/ at[r] = "copy" /\ buffer[1].type \in {"push", "none"}
          \/ at[r] = "handle" /\ job[r].type \in {"push", "none"}

\* A reader that will go on receiving from it.
Attends(r, m) ==
    \/ at[r] \in {"create", "start"}
    \/ /\ readBool /\ Behind(r) = m
       /\ at[r] \in {"loop", "copy", "handle", "clear"} \/ (at[r] = "recv" /\ on[r] = m)

MainPhase(m) ==
    /\ port[m] = "main" /\ Front = m
    /\ at[Main] = "idle"
    /\ \A s \in Sock : s # m => port[s] = "login"
    /\ \A s \in Sock : \A i \in 1..Len(asks[s]) : asks[s][i] = "data" <=> s = m
    /\ \A i \in 1..Len(inbox[m]) : inbox[m][i].type = "push"
    /\ \A r \in Reader : AtRest(r) \/ Serves(r, m)
    /\ \E r \in Reader : Attends(r, m)

RequestInv == ~crossed => LoginPhase \/ \E m \in Sock : MainPhase(m)

ConnectionInv == TypeOfNet /\ TypeOfThreads /\ Sockets /\ PacketInv /\ RequestInv

-----------------------------------------------------------------------------
(* Descriptors.                                                            *)

\* As long as a socket can be opened, the lowest free descriptor exists.
LEMMA LowestIsFree ==
    ASSUME TypeOfNet, Sockets, made < MaxSockets
    PROVE  Lowest \in Fd /\ file[Lowest] = Null
<1> DEFINE free == {f \in Fd : file[f] = Null}
<1>1. free # {}
  <2> SUFFICES ASSUME free = {} PROVE FALSE
    OBVIOUS
  <2>1. made \in Nat /\ MaxSockets \in Nat /\ file \in [Fd -> 1..made]
    BY BoundsAssumption, SMT DEF TypeOfNet, Sockets, Fd, Null
  <2>2. /\ IsFiniteSet(Fd) /\ Cardinality(Fd) = MaxSockets
        /\ IsFiniteSet(1..made) /\ Cardinality(1..made) = made
    BY <2>1, FS_Interval, BoundsAssumption DEF Fd
  <2>3. \E f, g \in Fd : f # g /\ file[f] = file[g]
    BY <2>1, <2>2, FS_PigeonHole
  <2> QED
    BY <2>1, <2>3 DEF Sockets, Null
<1>2. free \in SUBSET Nat
  BY DEF Fd
<1>3. PICK f \in free : \A g \in free : ~(<<g, f>> \in OpToRel(<, Nat))
  BY <1>1, <1>2, NatLessThanWellFounded, WFMin
<1>4. ASSUME NEW g \in Fd, file[g] = Null PROVE f <= g
  <2>1. ~(g < f) /\ f \in Nat /\ g \in Nat
    BY <1>2, <1>3, <1>4 DEF OpToRel
  <2> QED
    BY <2>1
<1>5. \E d \in Fd : file[d] = Null /\ \A g \in Fd : file[g] = Null => d <= g
  BY <1>3, <1>4
<1> QED
  BY <1>5 DEF Lowest

-----------------------------------------------------------------------------
(* What is always so is kept.                                              *)

\* The sockets, descriptors and packets keep their types.
LEMMA NetTypesKept ==
    ASSUME TypeOfNet, TypeOfThreads, Sockets, ConnectionNext
    PROVE  TypeOfNet'
<1> USE BoundsAssumption DEF TypeOfNet, net, conn, reading, past, Null
<1> Request # {} /\ Type \subseteq Request
  BY DEF Request, Type
<1>1. ASSUME NEW type \in Type, Click(type) PROVE TypeOfNet'
  BY <1>1 DEF Click
<1>2. ASSUME NEW t \in Thread, Socket(t) PROVE TypeOfNet'
  BY <1>2, LowestIsFree DEF Socket
<1>3. ASSUME NEW t \in Thread, Connect(t) PROVE TypeOfNet'
  <2>1. ServerPort(t) \in {"login", "main"}
    BY DEF ServerPort
  <2> QED
    BY <1>3, <2>1 DEF Connect
<1>4. ASSUME NEW t \in Thread, Create(t) PROVE TypeOfNet'
  BY <1>4 DEF Create
<1>5. ASSUME NEW t \in Thread, Stop(t) PROVE TypeOfNet'
  BY <1>5 DEF Stop
<1>6. ASSUME NEW t \in Thread, Join(t) PROVE TypeOfNet'
  BY <1>6 DEF Join
<1>7. ASSUME NEW t \in Thread, Close(t) PROVE TypeOfNet'
  <2>1. CASE clientSocket = Null
    BY <1>7, <2>1 DEF Close
  <2>2. CASE clientSocket # Null
    <3>1. file' = [file EXCEPT ![clientSocket] = 0]
      BY <1>7, <2>2 DEF Close
    <3>2. 0 \in 0..MaxSockets
      BY BoundsAssumption
    <3>3. file' \in [Fd -> 0..MaxSockets]
      BY <3>1, <3>2, Zenon
    <3> QED
      BY <1>7, <3>3 DEF Close
  <2> QED
    BY <2>1, <2>2
<1>8. CASE Send
  <2>1. at[Main] = "send" => job[Main].type \in Request
    BY DEF TypeOfThreads
  <2>2. ASSUME NEW s \in Sock PROVE Append(asks[s], job[Main].type) \in Seq(Request) \/ at[Main] # "send"
    BY <2>1
  <2> QED
    <3>1. \/ UNCHANGED asks
          \/ at[Main] = "send" /\ asks' = [asks EXCEPT ![Front] = Append(@, job[Main].type)]
      BY <1>8 DEF Send, Ask, Go, Front
    <3>2. asks' \in [Sock -> Seq(Request)]
      <4>1. CASE Front \in Sock
        BY <2>2, <3>1, <4>1
      <4>2. CASE Front \notin Sock
        BY <3>1, <4>2
      <4> QED
        BY <4>1, <4>2
    <3> QED
      BY <1>8, <3>2 DEF Send
<1>9. ASSUME NEW r \in Reader, Receive(r) PROVE TypeOfNet'
  <2>1. on[r] \in Sock
    BY <1>9 DEF Receive, Go, Sockets
  <2>2. inbox[on[r]] # <<>> => Tail(inbox[on[r]]) \in Seq(Packets)
    BY <2>1
  <2> QED
    BY <1>9, <2>2 DEF Receive
<1>10. ASSUME NEW r \in Reader, RequestData(r) PROVE TypeOfNet'
  <2>1. ASSUME NEW s \in Sock PROVE Append(asks[s], "data") \in Seq(Request)
    BY DEF Request
  <2> QED
    BY <1>10, <2>1 DEF RequestData, Ask
<1>11. ASSUME NEW r \in Reader,
              Start(r) \/ Loop(r) \/ Closed(r) \/ Copy(r) \/ Clear(r) \/ AccountReply(r)
              \/ FailReply(r) \/ FreeUserData(r) \/ Pushed(r) \/ Invalid(r)
       PROVE  TypeOfNet'
  BY <1>11 DEF Start, Loop, Closed, Copy, Clear, AccountReply, FailReply, FreeUserData, Pushed,
               Invalid
<1>12. ASSUME NEW s \in Sock, Answer(s) PROVE TypeOfNet'
  <2>1. asks[s] # <<>> => Tail(asks[s]) \in Seq(Request) /\ Head(asks[s]) \in Request
    OBVIOUS
  <2>2. ASSUME NEW type \in {"accc", "key", "fail", "again", "push"}, NEW n \in {0, 1}
        PROVE  Append(inbox[s], Packet(type, n)) \in Seq(Packets)
    <3>1. Packet(type, n) \in Packets
      BY DEF Packet, Packets
    <3> QED
      BY <3>1
  <2>3. \A type \in Request : Answers(s, type) \subseteq {"accc", "key", "fail", "again"}
    BY DEF Answers, Request
  <2> QED
    <3>1. asks' \in [Sock -> Seq(Request)]
      BY <1>12, <2>1 DEF Answer
    <3>2. \E type \in {"accc", "key", "fail", "again", "push"}, n \in {0, 1} :
              inbox' = [inbox EXCEPT ![s] = Append(@, Packet(type, n))]
      BY <1>12, <2>1, <2>3 DEF Answer, Arrives
    <3>3. inbox' \in [Sock -> Seq(Packets)]
      BY <2>2, <3>2
    <3> QED
      BY <1>12, <3>1, <3>3 DEF Answer
<1>13. ASSUME NEW s \in Sock, Push(s) PROVE TypeOfNet'
  <2>1. pushed \in 1..(MaxPushes - 1) => Packet("push", pushed + 1) \in Packets
    BY DEF Packet, Packets
  <2>2. pushed \in 1..(MaxPushes - 1) => Append(inbox[s], Packet("push", pushed + 1)) \in Seq(Packets)
    BY <2>1
  <2> QED
    BY <1>13, <2>2 DEF Push, Arrives
<1>14. ASSUME NEW s \in Sock, Drop(s) PROVE TypeOfNet'
  BY <1>14 DEF Drop
<1> QED
  BY <1>1, <1>2, <1>3, <1>4, <1>5, <1>6, <1>7, <1>8, <1>9, <1>10, <1>11, <1>12, <1>13, <1>14
     DEF ConnectionNext, Window, LoginButton, CreateAccountButton, Type, Opens, Disconnects, Reads,
         Thread

\* So do the steps of the threads; the main thread has a request while it connects.
LEMMA StepsKept ==
    ASSUME TypeOfThreads, TypeOfNet, ConnectionNext
    PROVE  /\ at' \in [Thread -> ReaderSteps \cup WindowSteps]
           /\ at'[Main] \in WindowSteps /\ \A r \in Reader : at'[r] \in ReaderSteps
           /\ at'[Main] \in {"socket", "connect", "create", "send"} => job'[Main].type \in Type
<1> DEFINE Steps == /\ at' \in [Thread -> ReaderSteps \cup WindowSteps]
                    /\ at'[Main] \in WindowSteps /\ \A r \in Reader : at'[r] \in ReaderSteps
                    /\ at'[Main] \in {"socket", "connect", "create", "send"} =>
                           job'[Main].type \in Type
<1>0. ASSUME NEW t \in Thread, NEW x, at' = [at EXCEPT ![t] = x],
             IF t = Main THEN x \in WindowSteps ELSE x \in ReaderSteps
      PROVE  /\ at' \in [Thread -> ReaderSteps \cup WindowSteps]
             /\ at'[Main] \in WindowSteps /\ \A r \in Reader : at'[r] \in ReaderSteps
             /\ t # Main => at'[Main] = at[Main]
  BY <1>0 DEF TypeOfThreads, Thread, Main, Reader
<1> USE BoundsAssumption DEF TypeOfThreads, Go, Thread, Main, Reader, ReaderSteps, WindowSteps,
                             net, conn, reading, past
<1>1. ASSUME NEW type \in Type, Click(type) PROVE Steps
  BY <1>1 DEF Click, Packet
<1>2. ASSUME NEW t \in Thread, Socket(t) PROVE Steps
  BY <1>2 DEF Socket
<1>3. ASSUME NEW t \in Thread, Connect(t) PROVE Steps
  <2>1. /\ at[t] = "connect" /\ UNCHANGED job
        /\ \/ at' = [at EXCEPT ![t] = "create"]
           \/ at' = [at EXCEPT ![t] = IF t = Main THEN "idle" ELSE "ask"]
    BY <1>3 DEF Connect
  <2>2. PICK x \in {"create", IF t = Main THEN "idle" ELSE "ask"} : at' = [at EXCEPT ![t] = x]
    BY <2>1
  <2> QED
    BY <1>0, <2>1, <2>2
<1>4. ASSUME NEW t \in Thread, Create(t) PROVE Steps
  <2>1. threads + 1 \in Reader /\ threads + 1 # Main
    BY <1>4 DEF Create, TypeOfNet
  <2> QED
    <3>1. /\ at[t] = "create" /\ UNCHANGED job
          /\ at' = [at EXCEPT ![threads + 1] = "start",
                             ![t] = IF t = Main THEN "send" ELSE "ask"]
      BY <1>4 DEF Create
    <3>2. at'[Main] = (IF t = Main THEN "send" ELSE at[Main])
      BY <2>1, <3>1
    <3>3. ASSUME NEW r \in Reader PROVE at'[r] \in {"start", at[r], "ask"}
      <4>1. r \in DOMAIN at /\ t \in DOMAIN at /\ r # Main
        OBVIOUS
      <4>2. t # Main \/ r # t
        BY <4>1
      <4> QED
        BY <3>1, <4>1, <4>2, Zenon
    <3>4. at' \in [Thread -> ReaderSteps \cup WindowSteps]
      BY <2>1, <3>1
    <3> QED
      BY <2>1, <3>1, <3>2, <3>3, <3>4
<1>5. ASSUME NEW t \in Thread, Stop(t) PROVE Steps
  BY <1>5 DEF Stop, Handles
<1>6. ASSUME NEW t \in Thread, Join(t) PROVE Steps
  BY <1>6 DEF Join
<1>7. ASSUME NEW t \in Thread, Close(t) PROVE Steps
  BY <1>7 DEF Close, AfterClose
<1>8. CASE Send
  BY <1>8 DEF Send
<1>9. ASSUME NEW r \in Reader,
             Start(r) \/ Loop(r) \/ Receive(r) \/ Closed(r) \/ Copy(r) \/ Clear(r)
      PROVE  Steps
  BY <1>9 DEF Start, Loop, Receive, Closed, Copy, Clear
<1>10. ASSUME NEW r \in Reader,
              AccountReply(r) \/ FailReply(r) \/ FreeUserData(r) \/ RequestData(r) \/ Pushed(r)
              \/ Invalid(r)
       PROVE  Steps
  BY <1>10 DEF AccountReply, FailReply, FreeUserData, RequestData, Pushed, Invalid, Handles
<1>11. ASSUME NEW s \in Sock, Answer(s) \/ Push(s) \/ Drop(s) PROVE Steps
  BY <1>11 DEF Answer, Push, Drop
<1> QED
  BY <1>1, <1>2, <1>3, <1>4, <1>5, <1>6, <1>7, <1>8, <1>9, <1>10, <1>11
     DEF ConnectionNext, Window, LoginButton, CreateAccountButton, Type, Opens, Disconnects, Reads

\* And what the threads share.
LEMMA ThreadTypesKept ==
    ASSUME TypeOfThreads, TypeOfNet, Sockets, ConnectionNext
    PROVE  TypeOfThreads'
<1> DEFINE Others == /\ clientSocket' \in 0..MaxSockets /\ readThread' \in 0..MaxSockets
                     /\ readBool' \in BOOLEAN
                     /\ buffer' \in Packets \X BOOLEAN
                     /\ sock' \in [Reader -> 0..MaxSockets]
                     /\ on' \in [Reader -> 0..MaxSockets]
                     /\ job' \in [Thread -> Packets]
                     /\ window' \in {"login", "chat"}
                     /\ pushed' \in 0..MaxPushes
                     /\ handled' \in [1..MaxPushes -> 0..2]
                     /\ joined' \subseteq 0..MaxSockets
                     /\ crossed' \in BOOLEAN /\ shared' \in BOOLEAN
                     /\ clicks' \in Nat /\ alive' \in BOOLEAN
<1>0. NoPacket \in Packets /\ \A type \in Type : Packet(type, 0) \in Packets
  BY BoundsAssumption DEF NoPacket, Packet, Packets, Type
<1>a. ASSUME UNCHANGED <<conn, readBool, buffer, sock, on, job, window, pushed, past, alive>>
      PROVE  Others
  BY <1>a DEF TypeOfThreads, conn, past
<1>b. 0 \in 0..MaxSockets /\ MaxSockets \in Nat /\ MaxPushes \in Nat
  BY BoundsAssumption
<1> USE <1>b DEF TypeOfThreads, net, conn, reading, past, Null
<1>1. ASSUME NEW type \in Type, Click(type) PROVE Others
  <2>1. crossed' \in BOOLEAN
    BY <1>1, Zenon DEF Click
  <2>2. job' \in [Thread -> Packets]
    BY <1>0, <1>1 DEF Click
  <2> QED
    BY <1>1, <2>1, <2>2 DEF Click
<1>2. ASSUME NEW t \in Thread, Socket(t) PROVE Others
  BY <1>2, LowestIsFree DEF Socket, Fd
<1>3. ASSUME NEW t \in Thread, Connect(t) PROVE Others
  BY <1>3 DEF Connect
<1>4. ASSUME NEW t \in Thread, Create(t) PROVE Others
  BY <1>4 DEF Create, TypeOfNet, Handle
<1>5. ASSUME NEW t \in Thread, Stop(t) PROVE Others
  BY <1>5 DEF Stop
<1>6. ASSUME NEW t \in Thread, Join(t) PROVE Others
  BY <1>6 DEF Join
<1>7. ASSUME NEW t \in Thread, Close(t) PROVE Others
  BY <1>7 DEF Close
<1>8. ASSUME Send PROVE Others
  <2>1. UNCHANGED <<conn, readBool, buffer, sock, on, job, window, pushed, past, alive>>
    BY <1>8 DEF Send
  <2> QED
    BY <1>a, <2>1
<1>9. ASSUME NEW r \in Reader, Start(r) PROVE Others
  BY <1>9 DEF Start, Started
<1>10. ASSUME NEW r \in Reader, Loop(r) PROVE Others
  <2>1. File(sock[r]) \in 0..MaxSockets
    <3>1. sock[r] \in 0..MaxSockets
      OBVIOUS
    <3> QED
      BY <3>1 DEF File, TypeOfNet, Fd
  <2> QED
    <3>1. on' \in [Reader -> 0..MaxSockets] /\ sock' \in [Reader -> 0..MaxSockets]
      BY <1>10, <2>1 DEF Loop
    <3> QED
      BY <1>10, <3>1 DEF Loop
<1>11. ASSUME NEW r \in Reader, Receive(r) PROVE Others
  <2>1. on[r] \in Sock
    BY <1>11 DEF Receive, Go, Sockets
  <2>2. inbox[on[r]] # <<>> /\ inbox[on[r]] \in Seq(Packets)
    BY <1>11, <2>1 DEF Receive, TypeOfNet
  <2>3. Head(inbox[on[r]]) \in Packets
    BY <2>2
  <2>4. (buffer[1] = NoPacket) \in BOOLEAN
    OBVIOUS
  <2>5. buffer' \in Packets \X BOOLEAN
    <3>1. \E clean \in BOOLEAN : buffer' = <<Head(inbox[on[r]]), clean>>
      BY <1>11, <2>4 DEF Receive
    <3> QED
      BY <2>3, <3>1
  <2>6. shared' \in BOOLEAN
    BY <1>11, Zenon DEF Receive
  <2> QED
    BY <1>11, <2>5, <2>6 DEF Receive
<1>12. ASSUME NEW r \in Reader, Copy(r) PROVE Others
  <2>1. buffer[1] \in Packets
    OBVIOUS
  <2>2. Packet("key", 0) \in Packets
    BY DEF Packet, Packets
  <2>3. Read(buffer[1], buffer[2]) \subseteq Packets
    BY <1>0, <2>1, <2>2, Zenon DEF Read
  <2>4. job' \in [Thread -> Packets]
    BY <1>12, <2>3 DEF Copy
  <2> QED
    BY <1>12, <2>4 DEF Copy
<1>13. ASSUME NEW r \in Reader, Clear(r) PROVE Others
  <2>1. buffer' = <<NoPacket, TRUE>>
    BY <1>13 DEF Clear, Wiped
  <2>2. buffer' \in Packets \X BOOLEAN
    BY <1>0, <2>1
  <2>3. job' = [job EXCEPT ![r] = NoPacket] /\ on' = [on EXCEPT ![r] = Null]
    BY <1>13 DEF Clear
  <2>4. job' \in [Thread -> Packets] /\ on' \in [Reader -> 0..MaxSockets]
    BY <1>0, <2>3
  <2> QED
    BY <1>13, <2>2, <2>4 DEF Clear
<1>14. ASSUME NEW r \in Reader, Pushed(r) PROVE Others
  <2>1. handled' \in [1..MaxPushes -> 0..2]
    <3>1. handled' = [handled EXCEPT ![job[r].n] = IF @ = 2 THEN @ ELSE @ + 1]
      BY <1>14 DEF Pushed
    <3>2. CASE job[r].n \in 1..MaxPushes
      <4>1. handled[job[r].n] \in 0..2
        BY <3>2
      <4>2. \A x \in 0..2 : (IF x = 2 THEN x ELSE x + 1) \in 0..2
        OBVIOUS
      <4> DEFINE k == IF handled[job[r].n] = 2 THEN handled[job[r].n] ELSE handled[job[r].n] + 1
      <4>3. k \in 0..2
        BY <4>1, <4>2, Zenon
      <4>4. handled' = [handled EXCEPT ![job[r].n] = k]
        BY <3>1
      <4> HIDE DEF k
      <4> QED
        BY <4>3, <4>4
    <3>3. CASE job[r].n \notin 1..MaxPushes
      BY <3>1, <3>3
    <3> QED
      BY <3>2, <3>3
  <2> QED
    BY <1>14, <2>1 DEF Pushed
<1>15. ASSUME NEW r \in Reader,
              AccountReply(r) \/ FailReply(r) \/ RequestData(r) \/ Invalid(r)
       PROVE  Others
  <2>1. UNCHANGED <<conn, readBool, buffer, sock, on, job, window, pushed, past, alive>>
    BY <1>15 DEF AccountReply, FailReply, RequestData, Invalid
  <2> QED
    BY <1>a, <2>1
<1>15a. ASSUME NEW r \in Reader, Closed(r) \/ FreeUserData(r) PROVE Others
  BY <1>15a DEF Closed, FreeUserData
<1>16. ASSUME NEW s \in Sock, Answer(s) \/ Push(s) \/ Drop(s) PROVE Others
  <2>1. UNCHANGED <<conn, readBool, buffer, sock, on, job, window, past, alive>>
    BY <1>16 DEF Answer, Push, Drop
  <2>2. pushed' \in 0..MaxPushes
    <3>1. Answer(s) => pushed' \in {1, pushed}
      BY DEF Answer
    <3>2. Push(s) => pushed \in 1..(MaxPushes - 1) /\ pushed' = pushed + 1
      BY DEF Push
    <3>3. Drop(s) => pushed' = pushed
      BY DEF Drop
    <3>4. MaxPushes >= 1
      BY BoundsAssumption
    <3> QED
      BY <1>16, <3>1, <3>2, <3>3, <3>4
  <2> QED
    BY <2>1, <2>2
<1>17. Others
  BY <1>1, <1>2, <1>3, <1>4, <1>5, <1>6, <1>7, <1>8, <1>9, <1>10, <1>11, <1>12, <1>13, <1>14,
     <1>15, <1>15a, <1>16
     DEF ConnectionNext, Window, LoginButton, CreateAccountButton, Type, Opens, Disconnects, Reads,
         Thread
<1> QED
  BY <1>17, StepsKept

\* A socket has one descriptor, and is used only after connect.
LEMMA SocketsKept ==
    ASSUME TypeOfNet, TypeOfThreads, Sockets, ConnectionNext
    PROVE  Sockets'
<1>0. Main \notin Reader /\ Reader \subseteq Thread /\ MaxSockets \in Nat \ {0}
  BY BoundsAssumption DEF Main, Reader, Thread
<1>1. ASSUME UNCHANGED <<net, threads>>, NEW t \in Thread, NEW to, at[t] \notin {"none"},
             at' = [at EXCEPT ![t] = to], to \notin {"none", "recv"},
             \A r \in Reader : r # t => on'[r] = on[r]
      PROVE  Sockets'
  <2>1. ASSUME NEW r \in Reader
        PROVE  /\ at'[r] = "none" <=> at[r] = "none"
               /\ at'[r] = "recv" => at[r] = "recv" /\ on'[r] = on[r]
    BY <1>0, <1>1 DEF TypeOfThreads
  <2> QED
    BY <1>1, <2>1 DEF Sockets, net
<1> USE DEF conn, reading, past, Null, Go
<1>2. ASSUME NEW t \in Thread, Click("login") \/ Click("register") \/ Stop(t) PROVE Sockets'
  <2>1. Main \in Thread
    BY DEF Thread
  <2>2. \E z \in Thread, to \in {"socket", "join"} :
            /\ at[z] # "none" /\ at' = [at EXCEPT ![z] = to]
            /\ UNCHANGED <<net, threads, on>>
    BY <1>2, <2>1 DEF Click, Stop, Handles
  <2> QED
    BY <1>1, <2>2
<1>3. ASSUME NEW t \in Thread, Join(t) PROVE Sockets'
  <2>1. CASE UNCHANGED at
    BY <1>3, <2>1 DEF Join, Sockets, net
  <2>2. CASE at[t] = "join" /\ at' = [at EXCEPT ![t] = "close"]
    BY <1>1, <1>3, <2>2 DEF Join
  <2> QED
    BY <1>3, <2>1, <2>2 DEF Join
<1>4. ASSUME NEW t \in Thread, Socket(t) PROVE Sockets'
  <2>1. /\ Lowest \in Fd /\ file[Lowest] = 0 /\ made < MaxSockets /\ made \in Nat
        /\ made' = made + 1 /\ file' = [file EXCEPT ![Lowest] = made + 1]
    BY <1>4, LowestIsFree DEF Socket, TypeOfNet
  <2>2. \A f \in Fd : file'[f] = IF f = Lowest THEN made + 1 ELSE file[f]
    BY <2>1 DEF TypeOfNet
  <2>3. \A f \in Fd : file[f] <= made /\ file[f] \in Nat
    BY <1>0 DEF Sockets, TypeOfNet
  <2>4. \A f, g \in Fd : file'[f] = file'[g] /\ file'[f] # 0 => f = g
    BY <2>1, <2>2, <2>3 DEF Sockets
  <2>5. \A f \in Fd : file'[f] <= made'
    BY <2>1, <2>2, <2>3
  <2>6. \A r \in Reader : (at'[r] = "none" <=> at[r] = "none") /\ (at'[r] = "recv" => at[r] = "recv")
    BY <1>4 DEF Socket, TypeOfThreads
  <2>7. UNCHANGED <<link, port, asks, inbox, threads, on>>
    BY <1>4 DEF Socket
  <2>8. \A s \in Sock : s > made' => s > made
    BY <2>1 DEF Sock
  <2> QED
    BY <2>4, <2>5, <2>6, <2>7, <2>8 DEF Sockets
<1>5. ASSUME NEW t \in Thread, Connect(t) PROVE Sockets'
  <2>1. CASE at[t] = "connect" /\ at' = [at EXCEPT ![t] = IF t = Main THEN "idle" ELSE "ask"]
             /\ UNCHANGED <<net, threads, on>>
    <3>1. PICK to \in {"idle", "ask"} : at' = [at EXCEPT ![t] = to]
      BY <2>1
    <3> QED
      BY <1>1, <2>1, <3>1
  <2>3. ASSUME NEW s, s = File(clientSocket),
               /\ s # 0 /\ link[s] = "raw" /\ link' = [link EXCEPT ![s] = "up"]
               /\ at[t] = "connect" /\ at' = [at EXCEPT ![t] = "create"]
               /\ port' = [port EXCEPT ![s] = ServerPort(t)]
               /\ UNCHANGED <<threads, made, file, asks, inbox, on>>
        PROVE  Sockets'
    <3>1. /\ s # 0 /\ link[s] = "raw" /\ link' = [link EXCEPT ![s] = "up"]
          /\ at[t] = "connect" /\ at' = [at EXCEPT ![t] = "create"]
          /\ port' = [port EXCEPT ![s] = ServerPort(t)]
          /\ UNCHANGED <<threads, made, file, asks, inbox, on>>
      BY <2>3
    <3>2. s \in Sock /\ s <= made
      <4>1. clientSocket \in Fd /\ s = file[clientSocket]
        BY <2>3, <3>1 DEF TypeOfThreads, Fd, File
      <4> QED
        BY <3>1, <4>1 DEF Sockets, TypeOfNet, Sock
    <3>3. \A z \in Sock : link'[z] = IF z = s THEN "up" ELSE link[z]
      BY <3>1, <3>2 DEF TypeOfNet
    <3>4. \A z \in Sock : z # s => port'[z] = port[z]
      BY <3>1, <3>2 DEF TypeOfNet
    <3>5. \A z \in Sock : z > made => z # s
      BY <3>2 DEF TypeOfNet, Sock
    <3>6. \A r \in Reader :
              /\ at'[r] = "none" <=> at[r] = "none"
              /\ at'[r] = "recv" => at[r] = "recv"
      BY <3>1 DEF TypeOfThreads
    <3>7. \A z \in Sock : z > made' => link'[z] = "raw"
      BY <3>1, <3>3, <3>5 DEF Sockets
    <3>8. \A z \in Sock : link'[z] = "raw" => asks'[z] = <<>> /\ inbox'[z] = <<>>
      BY <3>1, <3>3 DEF Sockets
    <3>9. \A z \in Sock : port'[z] = "main" => link'[z] = "up"
      BY <3>1, <3>3, <3>4 DEF Sockets
    <3>10. \A r \in Reader : at'[r] = "recv" => on'[r] \in Sock /\ link'[on'[r]] # "raw"
      BY <3>1, <3>3, <3>6 DEF Sockets
    <3> QED
      BY <3>1, <3>6, <3>7, <3>8, <3>9, <3>10 DEF Sockets
  <2> QED
    BY <1>5, <2>1, <2>3 DEF Connect
<1>6. ASSUME NEW t \in Thread, Create(t) PROVE Sockets'
  <2>1. /\ at[t] = "create" /\ threads < MaxSockets /\ threads' = threads + 1
        /\ at' = [at EXCEPT ![threads + 1] = "start", ![t] = IF t = Main THEN "send" ELSE "ask"]
        /\ UNCHANGED <<net, on>>
    BY <1>6 DEF Create
  <2>2. threads + 1 \in Reader /\ threads \in Nat
    BY <1>0, <2>1 DEF TypeOfNet, Reader
  <2>3. ASSUME NEW r \in Reader
        PROVE  at'[r] = IF r = t THEN "ask" ELSE IF r = threads + 1 THEN "start" ELSE at[r]
    <3>1. r \in DOMAIN at /\ t \in DOMAIN at /\ r # Main
      BY <1>0 DEF TypeOfThreads
    <3> QED
      BY <2>1, <3>1, Zenon
  <2>4. \A r \in Reader : (r > threads <=> r = threads + 1 \/ r > threads + 1) /\ r \in Nat
    BY <2>2 DEF Reader
  <2>5. \A r \in Reader : ~(threads + 1 > threads + 1) /\ (r = t => ~(r > threads))
    BY <2>1, <2>2 DEF Sockets
  <2>6. \A r \in Reader : at'[r] = "none" <=> r > threads + 1
    BY <2>3, <2>4, <2>5 DEF Sockets
  <2>7. \A r \in Reader : at'[r] = "recv" => at[r] = "recv"
    BY <2>3
  <2> QED
    BY <2>1, <2>6, <2>7 DEF Sockets, net
<1>7. ASSUME NEW t \in Thread, Close(t) PROVE Sockets'
  <2>1. /\ at[t] = "close" /\ at' = [at EXCEPT ![t] = AfterClose(t)]
        /\ file' = IF clientSocket = 0 THEN file ELSE [file EXCEPT ![clientSocket] = 0]
        /\ UNCHANGED <<threads, made, link, port, asks, inbox, on>>
    BY <1>7 DEF Close
  <2>2. \A f \in Fd : file'[f] \in {0, file[f]}
    BY <2>1 DEF TypeOfNet
  <2>3. AfterClose(t) \notin {"none", "recv"}
    BY DEF AfterClose
  <2>4. \A r \in Reader : (at'[r] = "none" <=> at[r] = "none") /\ (at'[r] = "recv" => at[r] = "recv")
    BY <2>1, <2>3 DEF TypeOfThreads
  <2>5. made \in Nat
    BY DEF TypeOfNet
  <2>6. /\ \A f \in Fd : file'[f] <= made'
        /\ \A f, g \in Fd : file'[f] = file'[g] /\ file'[f] # 0 => f = g
    BY <2>1, <2>2, <2>5 DEF Sockets
  <2> QED
    BY <2>1, <2>4, <2>6 DEF Sockets
<1>8. ASSUME NEW t \in Thread, Send \/ (t \in Reader /\ RequestData(t)) PROVE Sockets'
  <2>1. \E z \in Thread, to \in {"idle", "stop", "clear"} :
            at[z] \notin {"none", "recv"} /\ at' = [at EXCEPT ![z] = to]
    BY <1>8 DEF Send, RequestData, Handles, Thread
  <2>2. \A r \in Reader : (at'[r] = "none" <=> at[r] = "none") /\ (at'[r] = "recv" => at[r] = "recv")
    BY <2>1 DEF TypeOfThreads
  <2>3. UNCHANGED <<threads, made, file, link, port, inbox, on>>
    BY <1>8 DEF Send, RequestData, net
  <2>4. \A z \in Sock : link[z] = "raw" => asks'[z] = asks[z]
    BY <1>8 DEF Send, RequestData, Ask, Sendable, TypeOfNet, net
  <2> QED
    BY <2>2, <2>3, <2>4 DEF Sockets
<1>9. ASSUME NEW r \in Reader, Loop(r) PROVE Sockets'
  <2>1. CASE at[r] = "loop" /\ at' = [at EXCEPT ![r] = "ended"] /\ UNCHANGED <<net, threads, on>>
    <3>1. PICK to \in {"ended"} : at' = [at EXCEPT ![r] = to]
      BY <2>1
    <3> QED
      BY <1>0, <1>1, <2>1, <3>1
  <2>2. CASE /\ at[r] = "loop" /\ at' = [at EXCEPT ![r] = "recv"]
             /\ Connected(File(sock[r]))
             /\ on' = [on EXCEPT ![r] = File(sock[r])]
             /\ UNCHANGED <<net, threads>>
    <3>1. File(sock[r]) \in Sock /\ link[File(sock[r])] # "raw"
      <4>1. sock[r] \in 0..MaxSockets /\ File(sock[r]) # 0
        BY <2>2 DEF TypeOfThreads, Connected
      <4>2. sock[r] \in Fd /\ File(sock[r]) = file[sock[r]]
        BY <4>1 DEF File, Fd
      <4> QED
        BY <2>2, <4>1, <4>2 DEF TypeOfNet, Sock, Connected
    <3>2. \A q \in Reader :
              /\ at'[q] = "none" <=> at[q] = "none"
              /\ at'[q] = "recv" =>
                     (at[q] = "recv" /\ on'[q] = on[q]) \/ on'[q] = File(sock[r])
      BY <1>0, <2>2 DEF TypeOfThreads
    <3> QED
      BY <2>2, <3>1, <3>2 DEF Sockets, net
  <2> QED
    BY <1>9, <2>1, <2>2 DEF Loop
<1>10. ASSUME NEW r \in Reader, Receive(r) PROVE Sockets'
  <2>1. on[r] \in Sock /\ link[on[r]] # "raw"
    BY <1>10 DEF Receive, Sockets
  <2>2. /\ at[r] = "recv" /\ at' = [at EXCEPT ![r] = "copy"]
        /\ inbox' = [inbox EXCEPT ![on[r]] = Tail(@)]
        /\ UNCHANGED <<threads, made, file, link, port, asks, on>>
    BY <1>10 DEF Receive
  <2>3. \A q \in Reader : (at'[q] = "none" <=> at[q] = "none") /\ (at'[q] = "recv" => at[q] = "recv")
    BY <2>2 DEF TypeOfThreads
  <2>4. \A z \in Sock : link[z] = "raw" => inbox'[z] = inbox[z]
    BY <2>1, <2>2 DEF TypeOfNet
  <2> QED
    BY <2>2, <2>3, <2>4 DEF Sockets
<1>11. ASSUME NEW r \in Reader,
              Start(r) \/ Closed(r) \/ Copy(r) \/ Clear(r) \/ AccountReply(r) \/ FailReply(r)
              \/ FreeUserData(r) \/ Pushed(r) \/ Invalid(r)
       PROVE  Sockets'
  <2>1. \A q \in Reader : q # r => on'[q] = on[q]
    BY <1>11 DEF Start, Closed, Copy, Clear, AccountReply, FailReply, FreeUserData, Pushed,
                 Invalid, TypeOfThreads
  <2>2. \E to \in {"loop", "ended", "handle", "stop", "free", "clear"} :
            /\ at[r] # "none" /\ at' = [at EXCEPT ![r] = to]
            /\ UNCHANGED <<net, threads>>
    BY <1>11 DEF Start, Closed, Copy, Clear, AccountReply, FailReply, FreeUserData, Pushed,
                 Invalid, Handles
  <2> QED
    BY <1>0, <1>1, <2>1, <2>2
<1>12. ASSUME NEW s \in Sock, Answer(s) \/ Push(s) \/ Drop(s) PROVE Sockets'
  <2>1. /\ link[s] = "up"
        /\ \A z \in Sock : z # s => asks'[z] = asks[z] /\ inbox'[z] = inbox[z] /\ link'[z] = link[z]
        /\ UNCHANGED <<threads, made, file, port, on, at>>
    BY <1>12 DEF Answer, Push, Drop, Arrives, TypeOfNet
  <2>2. link'[s] # "raw" /\ (port[s] = "main" => link'[s] = "up")
    BY <1>12, <2>1 DEF Answer, Push, Drop, TypeOfNet
  <2> QED
    BY <2>1, <2>2 DEF Sockets
<1> QED
  BY <1>0, <1>2, <1>3, <1>4, <1>5, <1>6, <1>7, <1>8, <1>9, <1>10, <1>11, <1>12
     DEF ConnectionNext, Window, LoginButton, CreateAccountButton, Opens, Disconnects, Reads,
         Thread

-----------------------------------------------------------------------------
(* Every packet is kept in one place.                                      *)

Busy == {"free", "ask", "stop", "join", "close", "socket", "connect", "create", "clear"}
Apart == {"none", "start", "loop", "recv", "ended"}

\* A step that does not touch a packet.
Untouched(r) ==
    \/ at'[r] = at[r]
    \/ at[r] \in Apart /\ at'[r] \in Apart
    \/ at[r] \in Busy /\ at'[r] \in Busy
    \/ at[r] = "handle" /\ at'[r] \in Busy /\ job[r].type # "push"

\* It leaves every packet where it is.
LEMMA UntouchedStep ==
    ASSUME PacketInv, UNCHANGED <<inbox, buffer, handled, pushed, shared>>,
           \A r \in Reader : job'[r] = job[r] /\ Untouched(r)
    PROVE  PacketInv'
<1>1. PushesDiffer'
  BY DEF PacketInv, PushesDiffer
<1>2. ASSUME NEW r \in Reader PROVE Between(r)' <=> Between(r)
  BY DEF Between, Untouched, Busy, Apart
<1>3. ASSUME NEW r \in Reader PROVE at'[r] = "copy" <=> at[r] = "copy"
  BY DEF Untouched, Busy, Apart
<1>4. ASSUME NEW r \in Reader, NEW n
      PROVE  at'[r] = "handle" /\ job'[r] = Packet("push", n) <=>
             at[r] = "handle" /\ job[r] = Packet("push", n)
  <2>1. Packet("push", n).type = "push"
    BY DEF Packet
  <2> QED
    BY <2>1 DEF Untouched, Busy, Apart
<1>5. ASSUME NEW n PROVE (InHand(n)' <=> InHand(n)) /\ (Waits(n)' <=> Waits(n))
  BY <1>3, <1>4 DEF InHand, Waits
<1>6. OneBuffer => OneBuffer'
  BY <1>2, <1>3, <1>5 DEF OneBuffer, OneBetween, Wiped
<1> QED
  BY <1>1, <1>6 DEF PacketInv

\* One packet more, at the end of an inbox.
LEMMA AppendedStep ==
    ASSUME TypeOfNet, TypeOfThreads, PacketInv, NEW s \in Sock, NEW p \in Packets,
           inbox' = [inbox EXCEPT ![s] = Append(@, p)],
           pushed' \in 0..MaxPushes, pushed <= pushed',
           UNCHANGED <<buffer, handled, shared, at, job>>,
           IF p.type = "push" THEN p.n = pushed' /\ pushed' = pushed + 1
                              ELSE pushed' = pushed
    PROVE  PacketInv'
<1> DEFINE last == Len(inbox[s]) + 1
<1>0. pushed \in Nat /\ pushed' \in Nat /\ MaxPushes \in Nat
  BY BoundsAssumption DEF TypeOfThreads
<1>1. ASSUME NEW z \in Sock
      PROVE  /\ Len(inbox[z]) \in Nat
             /\ Len(inbox'[z]) = IF z = s THEN last ELSE Len(inbox[z])
             /\ \A i \in 1..Len(inbox[z]) : inbox'[z][i] = inbox[z][i] /\ inbox[z][i] \in Packets
             /\ inbox'[s][last] = p
  <2>1. inbox[z] \in Seq(Packets) /\ inbox[s] \in Seq(Packets)
    BY DEF TypeOfNet
  <2>2. inbox'[z] = IF z = s THEN Append(inbox[s], p) ELSE inbox[z]
    BY DEF TypeOfNet
  <2>3. inbox'[s] = Append(inbox[s], p)
    BY DEF TypeOfNet
  <2> QED
    BY <2>1, <2>2, <2>3
<1> HIDE DEF last
<1>2. ASSUME NEW z \in Sock, NEW i \in 1..Len(inbox'[z])
      PROVE  i \in 1..Len(inbox[z]) \/ (z = s /\ i = last)
  BY <1>1 DEF last
<1>3. last \in 1..Len(inbox'[s]) /\ ~(last \in 1..Len(inbox[s]))
  BY <1>1 DEF last
<1>4. ASSUME NEW z \in Sock, NEW i \in 1..Len(inbox[z]) PROVE i \in 1..Len(inbox'[z])
  BY <1>1 DEF last
<1>5. ASSUME NEW z \in Sock, NEW i \in 1..Len(inbox[z]), inbox[z][i].type = "push"
      PROVE  inbox[z][i].n \in 1..pushed /\ inbox[z][i] # p
  BY <1>0, <1>5 DEF PacketInv, PushesDiffer
<1>6. PushesDiffer'
  <2>1. ASSUME NEW z \in Sock, NEW i \in 1..Len(inbox'[z]), inbox'[z][i].type = "push"
        PROVE  inbox'[z][i].n \in 1..pushed'
    <3>1. CASE i \in 1..Len(inbox[z])
      <4>1. inbox'[z][i] = inbox[z][i]
        BY <1>1, <3>1
      <4>2. inbox[z][i].n \in 1..pushed
        BY <1>5, <2>1, <3>1, <4>1
      <4> QED
        BY <1>0, <4>1, <4>2
    <3>2. CASE z = s /\ i = last
      BY <1>0, <1>1, <2>1, <3>2
    <3> QED
      BY <1>2, <3>1, <3>2
  <2>2. ASSUME NEW x \in Sock, NEW z \in Sock, NEW i \in 1..Len(inbox'[x]),
               NEW j \in 1..Len(inbox'[z]),
               inbox'[x][i].type = "push", inbox'[x][i] = inbox'[z][j]
        PROVE  x = z /\ i = j
    <3>1. CASE i \in 1..Len(inbox[x]) /\ j \in 1..Len(inbox[z])
      <4>1. inbox'[x][i] = inbox[x][i] /\ inbox'[z][j] = inbox[z][j]
        BY <1>1, <3>1
      <4> QED
        BY <2>2, <3>1, <4>1 DEF PacketInv, PushesDiffer
    <3>2. CASE i \in 1..Len(inbox[x]) /\ z = s /\ j = last
      <4>1. inbox'[x][i] = inbox[x][i] /\ inbox'[z][j] = p
        BY <1>1, <3>2
      <4> QED
        BY <1>5, <2>2, <3>2, <4>1
    <3>3. CASE j \in 1..Len(inbox[z]) /\ x = s /\ i = last
      <4>1. inbox'[z][j] = inbox[z][j] /\ inbox'[x][i] = p
        BY <1>1, <3>3
      <4> QED
        BY <1>5, <2>2, <3>3, <4>1
    <3> QED
      BY <1>2, <3>1, <3>2, <3>3
  <2>3. \A n \in 1..MaxPushes : n > pushed' => n > pushed
    BY <1>0
  <2>4. 1..pushed \subseteq 1..pushed'
    BY <1>0
  <2> QED
    BY <2>1, <2>2, <2>3, <2>4 DEF PacketInv, PushesDiffer
<1>7. ASSUME OneBuffer PROVE OneBuffer'
  <2>1. ASSUME NEW n \in 1..pushed'
        PROVE  /\ InHand(n)' <=> InHand(n)
               /\ Waits(n)' <=> Waits(n) \/ (p = Packet("push", n))
    <3>1. InHand(n)' <=> InHand(n)
      BY DEF InHand
    <3>2. ASSUME Waits(n) PROVE Waits(n)'
      <4>0. PICK z \in Sock : \E i \in 1..Len(inbox[z]) : inbox[z][i] = Packet("push", n)
        BY <3>2 DEF Waits
      <4>1. PICK i \in 1..Len(inbox[z]) : inbox[z][i] = Packet("push", n)
        BY <4>0
      <4>2. i \in 1..Len(inbox'[z]) /\ inbox'[z][i] = Packet("push", n)
        BY <1>1, <1>4, <4>1
      <4> QED
        BY <4>2 DEF Waits
    <3>3. ASSUME p = Packet("push", n) PROVE Waits(n)'
      BY <1>1, <1>3, <3>3 DEF Waits
    <3>4. ASSUME Waits(n)' PROVE Waits(n) \/ p = Packet("push", n)
      <4>0. PICK z \in Sock : \E i \in 1..Len(inbox'[z]) : inbox'[z][i] = Packet("push", n)
        BY <3>4 DEF Waits
      <4>1. PICK i \in 1..Len(inbox'[z]) : inbox'[z][i] = Packet("push", n)
        BY <4>0
      <4>2. CASE i \in 1..Len(inbox[z])
        BY <1>1, <4>1, <4>2 DEF Waits
      <4>3. CASE z = s /\ i = last
        BY <1>1, <4>1, <4>3
      <4> QED
        BY <1>2, <4>2, <4>3
    <3> QED
      BY <3>1, <3>2, <3>3, <3>4
  <2>2. ASSUME NEW n \in 1..pushed', p = Packet("push", n)
        PROVE  n = pushed' /\ n > pushed /\ ~InHand(n) /\ handled[n] = 0
    <3>1. p.type = "push" /\ p.n = n
      BY <2>2 DEF Packet
    <3>2. n = pushed' /\ n > pushed
      BY <1>0, <3>1
    <3>3. ~(n \in 1..pushed) /\ n \in 1..MaxPushes
      BY <1>0, <3>2
    <3>4. ~InHand(n)
      BY <3>3, <2>2, <3>1 DEF InHand, PacketInv, PushesDiffer
    <3> QED
      BY <3>2, <3>3, <3>4 DEF PacketInv, PushesDiffer
  <2>3. ASSUME NEW n \in 1..pushed', ~(p = Packet("push", n)) PROVE n \in 1..pushed
    <3>1. CASE p.type = "push"
      <4>1. p = Packet("push", pushed')
        BY <3>1 DEF Packet, Packets
      <4> QED
        BY <1>0, <2>3, <3>1, <4>1
    <3>2. CASE p.type # "push"
      BY <1>0, <3>2
    <3> QED
      BY <3>1, <3>2
  <2>4. ASSUME NEW n \in 1..pushed'
        PROVE  /\ Waits(n)' => ~InHand(n)'
               /\ handled'[n] = IF Waits(n)' \/ InHand(n)' THEN 0 ELSE 1
    <3>1. CASE p = Packet("push", n)
      BY <2>1, <2>2, <3>1
    <3>2. CASE p # Packet("push", n)
      BY <1>7, <2>1, <2>3, <3>2 DEF OneBuffer
    <3> QED
      BY <3>1, <3>2
  <2> QED
    BY <1>7, <2>4 DEF OneBuffer, OneBetween, Between, Wiped
<1> QED
  BY <1>6, <1>7 DEF PacketInv

\* recv takes the first packet of an inbox into the buffer, which nobody else uses.
LEMMA ReceiveKeepsPackets ==
    ASSUME TypeOfNet, TypeOfThreads, Sockets, PacketInv, NEW r \in Reader, Receive(r)
    PROVE  PacketInv'
<1> DEFINE s == on[r]
           p == Head(inbox[s])
<1>1. /\ s \in Sock /\ inbox[s] # <<>> /\ inbox[s] \in Seq(Packets)
      /\ at[r] = "recv" /\ at' = [at EXCEPT ![r] = "copy"]
      /\ inbox' = [inbox EXCEPT ![s] = Tail(@)]
      /\ \E clean \in {buffer[1] = NoPacket, TRUE} : buffer' = <<p, clean>>
      /\ shared' = (shared \/ \E q \in Reader \ {r} : Between(q))
      /\ UNCHANGED <<job, pushed, handled>>
  BY DEF Receive, Go, Sockets, TypeOfNet
<1>2. PICK clean \in {buffer[1] = NoPacket, TRUE} : buffer' = <<p, clean>>
  BY <1>1
<1>3. ASSUME NEW z \in Sock
      PROVE  /\ Len(inbox[z]) \in Nat
             /\ Len(inbox'[z]) = IF z = s THEN Len(inbox[z]) - 1 ELSE Len(inbox[z])
             /\ \A i \in 1..Len(inbox'[z]) :
                    inbox'[z][i] = IF z = s THEN inbox[z][i + 1] ELSE inbox[z][i]
  <2>1. inbox'[z] = IF z = s THEN Tail(inbox[z]) ELSE inbox[z]
    BY <1>1 DEF TypeOfNet
  <2>2. inbox[z] \in Seq(Packets)
    BY DEF TypeOfNet
  <2>3. CASE z = s
    <3>1. inbox[s] # <<>> /\ inbox[s] \in Seq(Packets) /\ inbox'[z] = Tail(inbox[s])
      BY <1>1, <2>1, <2>3
    <3>2. /\ Len(inbox[s]) \in Nat /\ Len(inbox'[z]) = Len(inbox[s]) - 1
          /\ \A i \in 1..Len(inbox'[z]) : inbox'[z][i] = inbox[s][i + 1]
      BY <3>1
    <3> QED
      BY <2>3, <3>2
  <2>4. CASE z # s
    BY <2>1, <2>2, <2>4
  <2> QED
    BY <2>3, <2>4
<1>4. p = inbox[s][1] /\ 1 \in 1..Len(inbox[s])
  BY <1>1
<1> DEFINE was(z, i) == IF z = s THEN i + 1 ELSE i
<1>5. ASSUME NEW z \in Sock, NEW i \in 1..Len(inbox'[z])
      PROVE  /\ was(z, i) \in 1..Len(inbox[z]) /\ inbox'[z][i] = inbox[z][was(z, i)]
             /\ i \in Nat /\ (z = s => was(z, i) # 1)
  BY <1>3
<1>6. PushesDiffer'
  <2>1. ASSUME NEW z \in Sock, NEW i \in 1..Len(inbox'[z]), inbox'[z][i].type = "push"
        PROVE  inbox'[z][i].n \in 1..pushed'
    BY <1>1, <1>5, <2>1 DEF PacketInv, PushesDiffer
  <2>2. ASSUME NEW x \in Sock, NEW z \in Sock, NEW i \in 1..Len(inbox'[x]),
               NEW j \in 1..Len(inbox'[z]),
               inbox'[x][i].type = "push", inbox'[x][i] = inbox'[z][j]
        PROVE  x = z /\ i = j
    <3> HIDE DEF was
    <3>0. /\ was(x, i) \in 1..Len(inbox[x]) /\ was(z, j) \in 1..Len(inbox[z])
          /\ inbox[x][was(x, i)].type = "push" /\ inbox[x][was(x, i)] = inbox[z][was(z, j)]
      BY <1>5, <2>2
    <3>1. x = z /\ was(x, i) = was(z, j)
      BY <3>0 DEF PacketInv, PushesDiffer
    <3> USE DEF was
    <3> QED
      BY <1>5, <3>1
  <2>3. buffer'[1] = p /\ (p.type = "push" => p.n \in 1..pushed)
    BY <1>1, <1>2, <1>4 DEF PacketInv, PushesDiffer
  <2> QED
    BY <1>1, <2>1, <2>2, <2>3 DEF PacketInv, PushesDiffer
<1>7. ASSUME ~shared' PROVE OneBuffer'
  <2>1. OneBuffer /\ \A q \in Reader : ~Between(q)
    <3>1. ~Between(r)
      BY <1>1 DEF Between
    <3> QED
      BY <1>1, <1>7, <3>1 DEF PacketInv
  <2>2. buffer'[1] = p /\ buffer'[2] = TRUE
    <3>0. buffer = <<NoPacket, TRUE>>
      BY <2>1, Zenon DEF OneBuffer, Wiped
    <3>1. buffer[1] = NoPacket
      BY <3>0
    <3> QED
      BY <1>2, <3>1
  <2>3. at'[r] = "copy" /\ \A q \in Reader : q # r => at'[q] = at[q]
    BY <1>1 DEF TypeOfThreads, Thread
  <2>4. ASSUME NEW q \in Reader PROVE Between(q)' <=> q = r
    BY <2>1, <2>3 DEF Between
  <2>5. ASSUME NEW n \in 1..pushed'
        PROVE  ~InHand(n) /\ (InHand(n)' <=> p = Packet("push", n))
    <3>1. ~InHand(n)
      BY <2>1 DEF InHand, Between
    <3>2. \A q \in Reader : q # r => at'[q] \notin {"copy", "handle"}
      BY <2>4 DEF Between
    <3> QED
      BY <2>2, <2>3, <3>1, <3>2 DEF InHand
  <2>6. ASSUME NEW n \in 1..pushed'
        PROVE  Waits(n)' <=> Waits(n) /\ p # Packet("push", n)
    <3>1. ASSUME Waits(n), p # Packet("push", n) PROVE Waits(n)'
      <4>1. PICK z \in Sock : \E i \in 1..Len(inbox[z]) : inbox[z][i] = Packet("push", n)
        BY <3>1 DEF Waits
      <4>2. PICK i \in 1..Len(inbox[z]) : inbox[z][i] = Packet("push", n)
        BY <4>1
      <4>3. CASE z # s
        BY <1>3, <4>2, <4>3 DEF Waits
      <4>4. CASE z = s
        <5>1. i # 1
          BY <1>4, <3>1, <4>2, <4>4
        <5>2. i - 1 \in 1..Len(inbox'[z]) /\ (i - 1) + 1 = i
          BY <1>3, <4>4, <5>1
        <5>3. inbox'[z][i - 1] = inbox[z][i]
          BY <1>3, <4>4, <5>2
        <5> QED
          BY <4>2, <5>2, <5>3 DEF Waits
      <4> QED
        BY <4>3, <4>4
    <3>2. ASSUME Waits(n)' PROVE Waits(n) /\ p # Packet("push", n)
      <4>1. PICK z \in Sock : \E i \in 1..Len(inbox'[z]) : inbox'[z][i] = Packet("push", n)
        BY <3>2 DEF Waits
      <4>2. PICK i \in 1..Len(inbox'[z]) : inbox'[z][i] = Packet("push", n)
        BY <4>1
      <4>3. /\ was(z, i) \in 1..Len(inbox[z]) /\ inbox[z][was(z, i)] = Packet("push", n)
            /\ z = s => was(z, i) # 1
        BY <1>5, <4>2
      <4>4. Packet("push", n).type = "push"
        BY DEF Packet
      <4> HIDE DEF was
      <4>5. p # Packet("push", n)
        BY <1>1, <1>4, <4>3, <4>4 DEF PacketInv, PushesDiffer
      <4> QED
        BY <4>3, <4>5 DEF Waits
    <3> QED
      BY <3>1, <3>2
  <2>7. ASSUME NEW n \in 1..pushed', p = Packet("push", n) PROVE Waits(n)
    BY <1>1, <1>4, <2>7 DEF Waits
  <2>8. ASSUME NEW n \in 1..pushed'
        PROVE  /\ Waits(n)' => ~InHand(n)'
               /\ handled'[n] = IF Waits(n)' \/ InHand(n)' THEN 0 ELSE 1
    BY <1>1, <2>1, <2>5, <2>6, <2>7 DEF OneBuffer
  <2>9. OneBetween'
    BY <2>4 DEF OneBetween
  <2> QED
    BY <2>2, <2>3, <2>4, <2>8, <2>9 DEF OneBuffer, Between
<1> QED
  BY <1>6, <1>7 DEF PacketInv

\* recognize_packet takes it from the buffer.
LEMMA CopyKeepsPackets ==
    ASSUME TypeOfThreads, PacketInv, NEW r \in Reader, Copy(r)
    PROVE  PacketInv'
<1>1. /\ at[r] = "copy" /\ at' = [at EXCEPT ![r] = "handle"]
      /\ UNCHANGED <<inbox, buffer, pushed, handled, shared>>
  BY DEF Copy, Go, net, past
<1>2. PICK packet \in Read(buffer[1], buffer[2]) : job' = [job EXCEPT ![r] = packet]
  BY DEF Copy
<1>3. /\ packet.type = "push" => packet = buffer[1]
      /\ buffer[2] => packet = buffer[1]
  <2>1. NoPacket.type # "push" /\ Packet("key", 0).type # "push"
    BY DEF NoPacket, Packet
  <2> QED
    BY <1>2, <2>1 DEF Read
<1>4. /\ at'[r] = "handle" /\ job'[r] = packet
      /\ \A q \in Reader : q # r => at'[q] = at[q] /\ job'[q] = job[q]
  BY <1>1, <1>2 DEF TypeOfThreads, Thread
<1>5. PushesDiffer'
  BY <1>1, <1>3, <1>4 DEF PacketInv, PushesDiffer
<1>6. ASSUME OneBuffer PROVE OneBuffer'
  <2>1. packet = buffer[1] /\ Between(r) /\ \A q \in Reader : Between(q) => q = r
    BY <1>1, <1>3, <1>6 DEF OneBuffer, OneBetween, Between
  <2>2. ASSUME NEW q \in Reader PROVE Between(q)' <=> q = r
    BY <1>4, <2>1 DEF Between
  <2>3. ASSUME NEW n PROVE InHand(n)' <=> InHand(n)
    <3>1. \A q \in Reader : q # r => at'[q] \notin {"copy", "handle"} /\ at[q] \notin {"copy", "handle"}
      BY <2>1, <2>2 DEF Between
    <3> QED
      BY <1>1, <1>4, <2>1, <3>1 DEF InHand
  <2>4. \A q \in Reader : at'[q] # "copy"
    BY <1>4, <2>2 DEF Between
  <2>5. ASSUME NEW n PROVE Waits(n)' <=> Waits(n)
    BY <1>1 DEF Waits
  <2> QED
    BY <1>1, <1>6, <2>2, <2>3, <2>4, <2>5 DEF OneBuffer, OneBetween
<1> QED
  BY <1>1, <1>5, <1>6 DEF PacketInv

\* memset wipes a buffer whose packet has been dealt with.
LEMMA ClearKeepsPackets ==
    ASSUME TypeOfThreads, PacketInv, NEW r \in Reader, Clear(r)
    PROVE  PacketInv'
<1>1. /\ at[r] = "clear" /\ at' = [at EXCEPT ![r] = "loop"]
      /\ buffer' = Wiped /\ job' = [job EXCEPT ![r] = NoPacket]
      /\ UNCHANGED <<inbox, pushed, handled, shared>>
  BY DEF Clear, Go, net, past
<1>2. /\ at'[r] = "loop" /\ job'[r] = NoPacket
      /\ \A q \in Reader : q # r => at'[q] = at[q] /\ job'[q] = job[q]
  BY <1>1 DEF TypeOfThreads, Thread
<1>3. NoPacket.type = "none" /\ buffer'[1] = NoPacket
  BY <1>1 DEF Wiped, NoPacket, Packet
<1>4. PushesDiffer'
  BY <1>1, <1>2, <1>3 DEF PacketInv, PushesDiffer
<1>5. ASSUME OneBuffer PROVE OneBuffer'
  <2>1. \A q \in Reader : Between(q) => q = r
    BY <1>1, <1>5 DEF OneBuffer, OneBetween, Between
  <2>2. ASSUME NEW q \in Reader PROVE ~Between(q)'
    BY <1>2, <2>1 DEF Between
  <2>3. ASSUME NEW n PROVE ~InHand(n)' /\ ~InHand(n) /\ (Waits(n)' <=> Waits(n))
    BY <1>1, <2>1, <2>2 DEF InHand, Between, Waits
  <2>4. \A q \in Reader : at'[q] # "copy"
    BY <2>2 DEF Between
  <2> QED
    BY <1>1, <1>5, <2>2, <2>3, <2>4 DEF OneBuffer, OneBetween, Wiped
<1> QED
  BY <1>1, <1>4, <1>5 DEF PacketInv

\* A packet is dealt with.
LEMMA PushedKeepsPackets ==
    ASSUME TypeOfThreads, PacketInv, NEW r \in Reader, Pushed(r)
    PROVE  PacketInv'
<1> DEFINE m == job[r].n
<1>1. /\ at[r] = "handle" /\ at' = [at EXCEPT ![r] = "clear"] /\ job[r].type = "push"
      /\ handled' = [handled EXCEPT ![m] = IF @ = 2 THEN @ ELSE @ + 1]
      /\ UNCHANGED <<inbox, buffer, job, pushed, shared>>
  BY DEF Pushed, Handles, Go, net, reading
<1>2. /\ at'[r] = "clear"
      /\ \A q \in Reader : q # r => at'[q] = at[q]
  BY <1>1 DEF TypeOfThreads, Thread
<1>3. m \in 1..pushed /\ pushed \in 0..MaxPushes /\ MaxPushes \in Nat
  BY <1>1, BoundsAssumption DEF PacketInv, PushesDiffer, TypeOfThreads
<1>4. job[r] = Packet("push", m)
  BY <1>1 DEF TypeOfThreads, Thread, Packets, Packet
<1>5. ASSUME NEW n \in 1..MaxPushes, n # m PROVE handled'[n] = handled[n]
  BY <1>1, <1>5 DEF TypeOfThreads
<1>6. PushesDiffer'
  BY <1>1, <1>3, <1>5 DEF PacketInv, PushesDiffer
<1>7. ASSUME OneBuffer PROVE OneBuffer'
  <2>1. Between(r) /\ \A q \in Reader : Between(q) => q = r
    BY <1>1, <1>7 DEF OneBuffer, OneBetween, Between
  <2>2. ASSUME NEW q \in Reader PROVE Between(q)' <=> q = r
    BY <1>2, <2>1 DEF Between
  <2>3. \A q \in Reader : at'[q] \notin {"copy", "handle"}
    BY <1>2, <2>2 DEF Between
  <2>4. ASSUME NEW n \in 1..pushed
        PROVE  (InHand(n) <=> n = m) /\ ~InHand(n)' /\ (Waits(n)' <=> Waits(n))
    <3>1. InHand(n) <=> at[r] = "handle" /\ job[r] = Packet("push", n)
      BY <1>1, <2>1 DEF InHand, Between
    <3>2. Packet("push", n).n = n
      BY DEF Packet
    <3>3. ~InHand(n)'
      BY <2>3 DEF InHand
    <3>4. Waits(n)' <=> Waits(n)
      BY <1>1 DEF Waits
    <3> QED
      BY <1>1, <1>4, <3>1, <3>2, <3>3, <3>4
  <2>5. handled[m] = 0
    BY <1>3, <1>7, <2>4 DEF OneBuffer
  <2>6. handled'[m] = 1
    BY <1>1, <1>3, <2>5 DEF TypeOfThreads
  <2>7. ASSUME NEW n \in 1..pushed
        PROVE  handled'[n] = IF Waits(n)' \/ InHand(n)' THEN 0 ELSE 1
    BY <1>3, <1>5, <1>7, <2>4, <2>6 DEF OneBuffer
  <2> QED
    BY <1>1, <2>2, <2>3, <2>4, <2>7, <2>1 DEF OneBuffer, OneBetween
<1> QED
  BY <1>1, <1>6, <1>7 DEF PacketInv

\* No step loses a packet or makes two of it.
LEMMA PacketsKept ==
    ASSUME TypeOfNet, TypeOfThreads, Sockets, PacketInv, ConnectionNext
    PROVE  PacketInv'
<1>0. Main \notin Reader /\ Main \in Thread /\ Reader \subseteq Thread
  BY DEF Main, Reader, Thread
<1>1. ASSUME NEW t \in Thread, NEW from, NEW to, at[t] = from, at' = [at EXCEPT ![t] = to],
             t # Main => \/ from \in Apart /\ to \in Apart
                         \/ from \in Busy /\ to \in Busy
                         \/ from = "handle" /\ to \in Busy /\ job[t].type # "push",
             UNCHANGED <<inbox, buffer, handled, pushed, shared>>,
             \A r \in Reader : job'[r] = job[r]
      PROVE  PacketInv'
  <2>1. ASSUME NEW r \in Reader PROVE Untouched(r)
    <3>1. CASE r = t
      <4>1. at[r] = from /\ at'[r] = to
        BY <1>0, <1>1, <3>1 DEF TypeOfThreads
      <4> QED
        BY <1>0, <1>1, <3>1, <4>1 DEF Untouched
    <3>2. CASE r # t
      BY <1>0, <1>1, <3>2 DEF Untouched, TypeOfThreads
    <3> QED
      BY <3>1, <3>2
  <2> QED
    BY <1>1, <2>1, UntouchedStep
<1> DEFINE Rest == UNCHANGED <<inbox, buffer, handled, pushed, shared, job>>
<1> USE DEF net, conn, reading, past, Go
<1>2. ASSUME Click("login") \/ Click("register") PROVE PacketInv'
  <2>1. \E from \in {"idle"}, to \in {"socket"} : at[Main] = from /\ at' = [at EXCEPT ![Main] = to]
    BY <1>2 DEF Click
  <2>2. /\ UNCHANGED <<inbox, buffer, handled, pushed, shared>>
        /\ \A r \in Reader : job'[r] = job[r]
    BY <1>0, <1>2 DEF Click, TypeOfThreads
  <2> QED
    BY <1>0, <1>1, <2>1, <2>2
<1>3. ASSUME NEW t \in Thread, Socket(t) \/ Connect(t) \/ Stop(t) \/ Close(t) PROVE PacketInv'
  <2>1. /\ Rest
        /\ \E from \in {"socket", "connect", "stop", "close", "handle"},
              to \in {"connect", "create", "idle", "ask", "join", "clear", "socket"} :
               /\ at[t] = from /\ at' = [at EXCEPT ![t] = to]
               /\ t # Main => to # "idle"
               /\ from = "handle" => job[t].type # "push"
    BY <1>3 DEF Socket, Connect, Stop, Close, Handles, AfterClose
  <2>2. PICK from \in {"socket", "connect", "stop", "close", "handle"},
             to \in {"connect", "create", "idle", "ask", "join", "clear", "socket"} :
               /\ at[t] = from /\ at' = [at EXCEPT ![t] = to]
               /\ t # Main => to # "idle"
               /\ from = "handle" => job[t].type # "push"
    BY <2>1
  <2>3. t # Main => \/ from \in Busy /\ to \in Busy
                    \/ from = "handle" /\ to \in Busy /\ job[t].type # "push"
    BY <2>2 DEF Busy
  <2> QED
    BY <1>1, <2>1, <2>2, <2>3
<1>4. ASSUME NEW t \in Thread, Join(t) PROVE PacketInv'
  <2>1. CASE UNCHANGED at /\ Rest
    <3>1. \A r \in Reader : Untouched(r)
      BY <2>1 DEF Untouched
    <3> QED
      BY <2>1, <3>1, UntouchedStep
  <2>2. CASE at[t] = "join" /\ at' = [at EXCEPT ![t] = "close"] /\ Rest
    <3>1. PICK from \in {"join"}, to \in {"close"} : at[t] = from /\ at' = [at EXCEPT ![t] = to]
      BY <2>2
    <3>2. from \in Busy /\ to \in Busy
      BY DEF Busy
    <3> QED
      BY <1>1, <2>2, <3>1, <3>2
  <2> QED
    BY <1>4, <2>1, <2>2 DEF Join
<1>5. ASSUME NEW t \in Thread, Create(t) PROVE PacketInv'
  <2>1. /\ at[t] = "create" /\ threads < MaxSockets /\ Rest
        /\ at' = [at EXCEPT ![threads + 1] = "start", ![t] = IF t = Main THEN "send" ELSE "ask"]
    BY <1>5 DEF Create
  <2>2. threads + 1 \in Reader /\ at[threads + 1] = "none"
    <3>1. threads + 1 \in Reader /\ threads \in Nat
      BY <2>1, BoundsAssumption DEF TypeOfNet, Reader
    <3> QED
      BY <3>1 DEF Sockets
  <2>3. ASSUME NEW r \in Reader PROVE Untouched(r)
    <3>1. r \in DOMAIN at /\ t \in DOMAIN at /\ r # Main
      BY <1>0 DEF TypeOfThreads
    <3>2. at'[r] = IF r = t THEN "ask" ELSE IF r = threads + 1 THEN "start" ELSE at[r]
      BY <2>1, <3>1, Zenon
    <3> QED
      BY <2>1, <2>2, <3>2 DEF Untouched, Busy, Apart
  <2> QED
    BY <2>1, <2>3, UntouchedStep
<1>6. ASSUME Send PROVE PacketInv'
  <2>1. /\ Rest
        /\ \E from \in {"send"}, to \in {"idle", "stop"} :
               at[Main] = from /\ at' = [at EXCEPT ![Main] = to]
    BY <1>6 DEF Send
  <2> QED
    BY <1>0, <1>1, <2>1
<1>7. ASSUME NEW r \in Reader, Start(r) \/ Loop(r) \/ Closed(r) PROVE PacketInv'
  <2>1. Rest
    BY <1>7 DEF Start, Loop, Closed
  <2>2. PICK from \in {"start", "loop", "recv"}, to \in {"loop", "recv", "ended"} :
            at[r] = from /\ at' = [at EXCEPT ![r] = to]
    BY <1>7 DEF Start, Loop, Closed
  <2>3. from \in Apart /\ to \in Apart
    BY DEF Apart
  <2> QED
    BY <1>0, <1>1, <2>1, <2>2, <2>3
<1>8. ASSUME NEW r \in Reader,
             AccountReply(r) \/ FailReply(r) \/ FreeUserData(r) \/ RequestData(r) \/ Invalid(r)
      PROVE  PacketInv'
  <2>1. Rest
    BY <1>8 DEF AccountReply, FailReply, FreeUserData, RequestData, Invalid
  <2>2. PICK from \in {"handle", "free", "ask"}, to \in {"stop", "free", "clear"} :
            /\ at[r] = from /\ at' = [at EXCEPT ![r] = to]
            /\ from = "handle" => job[r].type # "push"
    BY <1>8 DEF AccountReply, FailReply, FreeUserData, RequestData, Invalid, Handles
  <2>3. \/ from \in Busy /\ to \in Busy
        \/ from = "handle" /\ to \in Busy /\ job[r].type # "push"
    BY <2>2 DEF Busy
  <2> QED
    BY <1>0, <1>1, <2>1, <2>2, <2>3
<1>9. ASSUME NEW s \in Sock, Drop(s) PROVE PacketInv'
  <2>1. UNCHANGED at /\ Rest
    BY <1>9 DEF Drop
  <2>2. \A r \in Reader : Untouched(r)
    BY <2>1 DEF Untouched
  <2> QED
    BY <2>1, <2>2, UntouchedStep
<1>10. ASSUME NEW s \in Sock, Push(s) PROVE PacketInv'
  <2>1. /\ pushed \in 1..(MaxPushes - 1) /\ pushed' = pushed + 1
        /\ inbox' = [inbox EXCEPT ![s] = Append(@, Packet("push", pushed + 1))]
        /\ UNCHANGED <<buffer, handled, shared, at, job>>
    BY <1>10 DEF Push, Arrives
  <2>2. /\ Packet("push", pushed + 1) \in Packets /\ pushed <= pushed' /\ pushed' \in 0..MaxPushes
        /\ Packet("push", pushed + 1).type = "push" /\ Packet("push", pushed + 1).n = pushed'
    BY <2>1, BoundsAssumption DEF Packet, Packets
  <2> QED
    BY <2>1, <2>2, AppendedStep
<1>11. ASSUME NEW s \in Sock, Answer(s) PROVE PacketInv'
  <2>1. /\ asks[s] # <<>> /\ Head(asks[s]) \in Request
        /\ UNCHANGED <<buffer, handled, shared, at, job>>
    BY <1>11 DEF Answer, TypeOfNet
  <2>2. CASE /\ pushed = 0 /\ pushed' = 1
             /\ inbox' = [inbox EXCEPT ![s] = Append(@, Packet("push", 1))]
    <3>1. /\ Packet("push", 1) \in Packets /\ pushed <= pushed' /\ pushed' \in 0..MaxPushes
          /\ Packet("push", 1).type = "push" /\ Packet("push", 1).n = pushed'
          /\ pushed' = pushed + 1
      BY <2>2, BoundsAssumption DEF Packet, Packets
    <3> QED
      BY <2>1, <2>2, <3>1, AppendedStep
  <2>3. CASE /\ UNCHANGED pushed
             /\ \E type \in Answers(s, Head(asks[s])) :
                    inbox' = [inbox EXCEPT ![s] = Append(@, Packet(type, 0))]
    <3>1. Answers(s, Head(asks[s])) \subseteq {"accc", "key", "fail", "again"}
      BY <2>1 DEF Answers, Request
    <3>2. PICK type \in {"accc", "key", "fail", "again"} :
              inbox' = [inbox EXCEPT ![s] = Append(@, Packet(type, 0))]
      BY <2>3, <3>1
    <3>3. Packet(type, 0) \in Packets /\ Packet(type, 0).type # "push"
      BY BoundsAssumption DEF Packet, Packets
    <3>4. pushed <= pushed /\ pushed' \in 0..MaxPushes
      BY <2>3, BoundsAssumption DEF TypeOfThreads
    <3> QED
      BY <2>1, <2>3, <3>2, <3>3, <3>4, AppendedStep
  <2> QED
    BY <1>11, <2>2, <2>3 DEF Answer, Arrives
<1>12. ASSUME NEW r \in Reader, Receive(r) \/ Copy(r) \/ Clear(r) \/ Pushed(r) PROVE PacketInv'
  BY <1>12, ReceiveKeepsPackets, CopyKeepsPackets, ClearKeepsPackets, PushedKeepsPackets
<1> QED
  BY <1>0, <1>2, <1>3, <1>4, <1>5, <1>6, <1>7, <1>8, <1>9, <1>10, <1>11, <1>12
     DEF ConnectionNext, Window, LoginButton, CreateAccountButton, Opens, Disconnects, Reads,
         Thread

-----------------------------------------------------------------------------
(* One request at a time.                                                  *)

\* A reader that a step leaves alone stays at rest.
LEMMA RestKept ==
    ASSUME NEW q \in Reader, AtRest(q), at'[q] = at[q], on'[q] = on[q],
           at[q] = "recv" => UNCHANGED <<port[on[q]], asks[on[q]], inbox[on[q]]>>
    PROVE  AtRest(q)'
BY DEF AtRest

\* While a reader deals with an answer the main thread is idle, and the others
\* are at rest.
LEMMA OthersRest ==
    ASSUME LoginPhase, NEW r \in Reader, ~AtRest(r)
    PROVE  /\ \A q \in Reader : q # r => AtRest(q)
           /\ at[Main] \in WindowSteps /\ at[Main] # "idle" =>
                  /\ at[Main] \in {"send", "stop", "join"} /\ readThread = r
                  /\ at[r] \in {"start", "loop", "recv"}
                  /\ Current(r) /\ Quiet(Front)
                  /\ at[r] \in {"loop", "recv"} => sock[r] = clientSocket
                  /\ at[r] = "recv" => on[r] = Front
<1>1. \A q \in Reader : q # r => AtRest(q)
  BY DEF LoginPhase
<1>2. ASSUME at[Main] \in WindowSteps, at[Main] # "idle"
      PROVE  /\ at[Main] \in {"send", "stop", "join"} /\ readThread = r
             /\ at[r] \in {"start", "loop", "recv"}
             /\ Current(r) /\ Quiet(Front)
             /\ at[r] \in {"loop", "recv"} => sock[r] = clientSocket
             /\ at[r] = "recv" => on[r] = Front
  <2>1. at[Main] \in {"send", "stop", "join"}
    BY <1>2 DEF LoginPhase, WindowStage, WindowSteps
  <2>2. readThread = r
    BY <2>1 DEF LoginPhase, WindowStage
  <2>3. at[r] # "ended"
    BY DEF AtRest
  <2> QED
    BY <2>1, <2>2, <2>3 DEF LoginPhase, WindowStage
<1> QED
  BY <1>1, <1>2

\* A step of the reader that deals with an answer.
LEMMA ReaderStep ==
    ASSUME TypeOfNet, TypeOfThreads, Sockets, LoginPhase, NEW r \in Reader,
           at[r] \notin {"none", "start", "loop", "recv", "ended"},
           NEW to, at' = [at EXCEPT ![r] = to], to # "recv",
           UNCHANGED <<link, port, asks, inbox>>,
           \A q \in Reader : q # r => on'[q] = on[q],
           AtRest(r)' \/ Stage(r)',
           \/ Front' = Front /\ readThread' = readThread
           \/ Front' = Null
           \/ link[Front'] = "raw"
    PROVE  LoginPhase'
<1>1. Main \notin Reader /\ Main \in Thread /\ r \in Thread
  BY DEF Main, Reader, Thread
<1>2. ~AtRest(r)
  BY DEF AtRest
<1>3. at[Main] = "idle" /\ at'[Main] = "idle" /\ at'[r] = to
  BY <1>1, <1>2, OthersRest DEF TypeOfThreads
<1>4. ASSUME NEW q \in Reader, q # r PROVE AtRest(q)' /\ at'[q] = at[q]
  <2>1. at'[q] = at[q] /\ on'[q] = on[q]
    BY <1>4 DEF TypeOfThreads
  <2>2. AtRest(q)
    BY <1>2, <1>4, OthersRest
  <2> QED
    BY <2>1, <2>2, RestKept
<1>5. ASSUME NEW q \in Reader, at'[q] = "recv", on'[q] = Front' PROVE readThread' = q
  <2>1. q # r /\ at[q] = "recv" /\ on[q] = Front'
    BY <1>3, <1>4, <1>5
  <2>2. on[q] \in Sock /\ link[on[q]] # "raw"
    BY <2>1 DEF Sockets
  <2>3. Front' = Front /\ readThread' = readThread
    BY <2>1, <2>2 DEF Sock, Null
  <2> QED
    BY <2>1, <2>3 DEF LoginPhase
<1>6. WindowStage'
  BY <1>3 DEF WindowStage
<1>7. (\A s \in Sock : port[s] = "login")' /\ (\A s \in Sock : \A i \in 1..Len(asks[s]) : asks[s][i] # "data")'
  BY DEF LoginPhase
<1> QED
  BY <1>4, <1>5, <1>6, <1>7 DEF LoginPhase

\* What the phases are about.
phaseVars == <<file, link, port, asks, inbox, clientSocket, readThread, buffer, at, sock, on, job>>

\* A step that touches none of that stays in its phase.
LEMMA SamePhase ==
    ASSUME UNCHANGED phaseVars
    PROVE  /\ LoginPhase => LoginPhase'
           /\ \A m \in Sock : readBool' = readBool /\ MainPhase(m) => MainPhase(m)'
<1>1. ASSUME NEW r \in Reader PROVE AtRest(r)' <=> AtRest(r)
  BY DEF AtRest, phaseVars
<1>2. Front' = Front /\ \A r \in Reader : Behind(r)' = Behind(r)
  BY DEF Front, Behind, File, phaseVars
<1>3. Quiet(Front)' <=> Quiet(Front)
  BY <1>2 DEF Quiet, phaseVars
<1>4. OneRequest(Front)' <=> OneRequest(Front)
  BY <1>2, <1>3 DEF OneRequest, phaseVars
<1>5. ASSUME NEW r PROVE Current(r)' <=> Current(r)
  BY <1>2 DEF Current, phaseVars
<1>6. ASSUME NEW r \in Reader PROVE Stage(r)' <=> Stage(r)
  <2>1. Own(r)' <=> Own(r)
    BY <1>3, <1>5 DEF Own, phaseVars
  <2>2. Behind(r)' = Behind(r)
    BY <1>2
  <2>3. Settled(r)' <=> Settled(r)
    BY <1>2, <2>2 DEF Settled, Connected, Quiet, phaseVars
  <2> QED
    BY <1>2, <1>4, <1>5, <2>1, <2>2, <2>3 DEF Stage, phaseVars
<1>7. WindowStage' <=> WindowStage
  <2>1. Current(readThread)' <=> Current(readThread)
    BY <1>2 DEF Current, phaseVars
  <2> QED
    BY <1>1, <1>2, <1>3, <2>1 DEF WindowStage, phaseVars
<1>8. LoginPhase => LoginPhase'
  BY <1>1, <1>2, <1>6, <1>7 DEF LoginPhase, phaseVars
<1>9. ASSUME NEW m \in Sock, MainPhase(m), readBool' = readBool PROVE MainPhase(m)'
  <2>1. ASSUME NEW r \in Reader
        PROVE  (Serves(r, m)' <=> Serves(r, m)) /\ (Attends(r, m)' <=> Attends(r, m))
    BY <1>2, <1>9 DEF Serves, Attends, phaseVars
  <2> QED
    BY <1>1, <1>2, <1>9, <2>1 DEF MainPhase, phaseVars
<1> QED
  BY <1>8, <1>9

\* The steps between recv and memset, but for the connection to the main server.
LEMMA AnswerKept ==
    ASSUME TypeOfNet, TypeOfThreads, Sockets, LoginPhase, NEW r \in Reader,
           \/ Copy(r) \/ Clear(r) \/ AccountReply(r) \/ FailReply(r) \/ FreeUserData(r)
           \/ RequestData(r) \/ Pushed(r) \/ Invalid(r)
           \/ Stop(r) \/ Join(r) \/ Close(r) \/ Socket(r) \/ Create(r)
    PROVE  LoginPhase'
<1>0. r # Main /\ r \in Thread /\ r # 0
  BY DEF Main, Reader, Thread
<1>1. AtRest(r) \/ Stage(r)
  BY DEF LoginPhase
<1> USE DEF net, conn, reading, past, Go, Null
<1> DEFINE Same == Front' = Front /\ readThread' = readThread
<1>2. ASSUME UNCHANGED <<file, clientSocket, readThread>> PROVE Same
  BY <1>2 DEF Front, File
<1>3. ASSUME UNCHANGED <<file, link, asks, inbox, clientSocket, readThread, sock>>
      PROVE  /\ Current(r)' <=> Current(r)
             /\ Own(r)' <=> Own(r)
             /\ Behind(r)' = Behind(r) /\ Front' = Front
             /\ Settled(r)' <=> Settled(r)
  <2>1. Behind(r)' = Behind(r) /\ Front' = Front
    BY <1>3 DEF Behind, Front, File
  <2>2. Current(r)' <=> Current(r)
    BY <1>3, <2>1 DEF Current
  <2>3. Own(r)' <=> Own(r)
    BY <1>3, <2>1, <2>2 DEF Own, Quiet
  <2>4. Settled(r)' <=> Settled(r)
    BY <1>3, <2>1 DEF Settled, Quiet, Connected
  <2> QED
    BY <2>1, <2>2, <2>3, <2>4
<1>4. ASSUME Copy(r) PROVE LoginPhase'
  <2>1. at[r] = "copy" /\ at' = [at EXCEPT ![r] = "handle"] /\ UNCHANGED <<net, conn, sock, on, buffer>>
    BY <1>4 DEF Copy
  <2>2. Own(r) /\ buffer[1].type \in Replies
    BY <1>1, <2>1 DEF AtRest, Stage
  <2>3. PICK packet \in Read(buffer[1], buffer[2]) : job' = [job EXCEPT ![r] = packet]
    BY <1>4 DEF Copy
  <2>4. packet.type \in Replies
    BY <2>2, <2>3 DEF Read, Replies, Packet
  <2>5. at'[r] = "handle" /\ job'[r] = packet
    BY <1>0, <2>1, <2>3 DEF TypeOfThreads
  <2>6. Stage(r)'
    BY <1>3, <2>1, <2>2, <2>4, <2>5 DEF Stage
  <2>7. PICK to \in {"handle"} : at' = [at EXCEPT ![r] = to]
    BY <2>1
  <2> QED
    BY <1>2, <2>1, <2>6, <2>7, ReaderStep
<1>5. ASSUME Clear(r) PROVE LoginPhase'
  <2>1. at[r] = "clear" /\ at' = [at EXCEPT ![r] = "loop"] /\ on' = [on EXCEPT ![r] = 0]
        /\ UNCHANGED <<net, conn, sock>>
    BY <1>5 DEF Clear
  <2>2. Settled(r)
    BY <1>1, <2>1 DEF AtRest, Stage
  <2>3. at'[r] = "loop" /\ \A q \in Reader : q # r => on'[q] = on[q]
    BY <1>0, <2>1 DEF TypeOfThreads
  <2>4. Stage(r)'
    BY <1>3, <2>1, <2>2, <2>3 DEF Stage
  <2>5. PICK to \in {"loop"} : at' = [at EXCEPT ![r] = to]
    BY <2>1
  <2> QED
    BY <1>2, <2>1, <2>3, <2>4, <2>5, ReaderStep
<1>6. ASSUME AccountReply(r) \/ FailReply(r) \/ Stop(r) PROVE LoginPhase'
  <2>1. /\ at[r] \in {"handle", "stop"} /\ UNCHANGED <<net, conn, reading>>
        /\ \/ at' = [at EXCEPT ![r] = "stop"] /\ at[r] = "handle" /\ job[r].type = "accc"
           \/ at' = [at EXCEPT ![r] = "free"] /\ at[r] = "handle"
           \/ at' = [at EXCEPT ![r] = "join"] /\ (at[r] = "stop" \/ job[r].type = "key")
    BY <1>6 DEF AccountReply, FailReply, Stop, Handles
  <2>2. PICK to \in {"stop", "free", "join"} : at' = [at EXCEPT ![r] = to]
    BY <2>1
  <2>3. at'[r] = to
    BY <1>0, <2>2 DEF TypeOfThreads
  <2>4. Own(r) /\ (at[r] = "stop" => job[r].type = "accc")
    BY <1>1, <2>1 DEF AtRest, Stage
  <2>5. Own(r)' /\ job'[r] = job[r]
    BY <1>3, <2>1, <2>4
  <2>6. Stage(r)'
    <3>1. at'[r] \in {"stop", "free", "join"}
      BY <2>3
    <3>2. at'[r] = "stop" => job[r].type = "accc"
      BY <1>0, <2>1 DEF TypeOfThreads
    <3>3. at'[r] = "join" => job[r].type \in {"key", "accc"}
      BY <1>0, <2>1, <2>4 DEF TypeOfThreads
    <3> QED
      BY <2>5, <3>1, <3>2, <3>3 DEF Stage
  <2> QED
    BY <1>2, <2>1, <2>2, <2>6, ReaderStep
<1>7. ASSUME FreeUserData(r) PROVE LoginPhase'
  <2>1. /\ at[r] = "free" /\ at' = [at EXCEPT ![r] = "clear"]
        /\ clientSocket' = 0 /\ readThread' = 0
        /\ UNCHANGED <<net, reading>>
    BY <1>7 DEF FreeUserData
  <2>2. Own(r)
    BY <1>1, <2>1 DEF AtRest, Stage
  <2>3. Front' = 0 /\ Behind(r)' = Behind(r) /\ Behind(r) = Front
    BY <2>1, <2>2 DEF Front, Behind, File, Own
  <2>4. Settled(r)'
    BY <2>1, <2>2, <2>3 DEF Settled, Own, Quiet
  <2>5. at'[r] = "clear"
    BY <1>0, <2>1 DEF TypeOfThreads
  <2>6. Stage(r)'
    BY <2>4, <2>5 DEF Stage
  <2>7. PICK to \in {"clear"} : at' = [at EXCEPT ![r] = to]
    BY <2>1
  <2> QED
    BY <2>1, <2>3, <2>6, <2>7, ReaderStep
<1>8. ASSUME RequestData(r) PROVE LoginPhase'
  <2>1. at[r] = "ask"
    BY <1>1, <1>8 DEF RequestData, Handles, AtRest, Stage, Replies
  <2>2. Front # 0 /\ link[Front] = "raw" /\ Behind(r) \in {0, Front}
    BY <1>1, <2>1 DEF AtRest, Stage
  <2>3. ~Sendable(Front)
    BY <2>2 DEF Sendable
  <2>4. at' = [at EXCEPT ![r] = "clear"] /\ UNCHANGED <<net, conn, reading>>
    BY <1>8, <2>3 DEF RequestData, Handles, Front
  <2>5. Settled(r)
    BY <2>2 DEF Settled, Connected
  <2>6. at'[r] = "clear"
    BY <1>0, <2>4 DEF TypeOfThreads
  <2>7. Stage(r)'
    BY <1>3, <2>4, <2>5, <2>6 DEF Stage
  <2>8. PICK to \in {"clear"} : at' = [at EXCEPT ![r] = to]
    BY <2>4
  <2> QED
    BY <1>2, <2>1, <2>4, <2>7, <2>8, ReaderStep
<1>9. ASSUME Pushed(r) \/ Invalid(r) PROVE LoginPhase'
  <2>1. at[r] = "handle" /\ job[r].type \in {"push", "none"}
    BY <1>9 DEF Pushed, Invalid, Handles
  <2> QED
    BY <1>1, <2>1 DEF AtRest, Stage, Replies
<1>10. ASSUME Join(r) PROVE LoginPhase'
  <2>1. at[r] = "join"
    BY <1>10 DEF Join
  <2>2. Own(r) /\ job[r].type \in {"key", "accc"}
    BY <1>1, <2>1 DEF AtRest, Stage
  <2>3. CASE UNCHANGED at
    BY <1>10, <2>3, SamePhase DEF Join, phaseVars
  <2>4. CASE at' = [at EXCEPT ![r] = "close"] /\ UNCHANGED <<net, conn, reading>>
    <3>1. at'[r] = "close"
      BY <1>0, <2>4 DEF TypeOfThreads
    <3>2. Stage(r)'
      BY <1>3, <2>2, <2>4, <3>1 DEF Stage
    <3>3. PICK to \in {"close"} : at' = [at EXCEPT ![r] = to]
      BY <2>4
    <3> QED
      BY <1>2, <2>1, <2>4, <3>2, <3>3, ReaderStep
  <2> QED
    BY <1>10, <2>3, <2>4 DEF Join
<1>11. ASSUME Close(r) PROVE LoginPhase'
  <2>1. at[r] = "close" /\ at' = [at EXCEPT ![r] = AfterClose(r)]
        /\ (clientSocket # 0 => file' = [file EXCEPT ![clientSocket] = 0])
        /\ UNCHANGED <<link, port, asks, inbox, clientSocket, readThread>>
        /\ UNCHANGED <<sock, on, job>>
    BY <1>11 DEF Close
  <2>2. Own(r) /\ job[r].type \in {"key", "accc"}
    BY <1>1, <2>1 DEF AtRest, Stage
  <2>3. clientSocket \in Fd
    BY <2>2 DEF Own, Current, Front, File, TypeOfThreads, Fd
  <2>4. Front' = 0 /\ Behind(r)' = 0
    <3>1. clientSocket # 0 /\ sock[r] = clientSocket
      BY <2>2, <2>3 DEF Own, Fd
    <3>2. file'[clientSocket] = 0
      BY <2>1, <2>3, <3>1 DEF TypeOfNet
    <3> QED
      BY <2>1, <3>1, <3>2 DEF Front, Behind, File
  <2>5. AfterClose(r) = IF job[r].type = "accc" THEN "clear" ELSE "socket"
    BY <1>0 DEF AfterClose
  <2>6. at'[r] = AfterClose(r)
    BY <1>0, <2>1 DEF TypeOfThreads
  <2>7. Stage(r)'
    BY <2>4, <2>5, <2>6 DEF Stage, Settled, Connected
  <2>8. PICK to \in {"clear", "socket"} : at' = [at EXCEPT ![r] = to]
    BY <2>1, <2>5
  <2>9. at[r] \notin {"none", "start", "loop", "recv", "ended"} /\ to # "recv"
    BY <2>1, <2>8
  <2> QED
    BY <2>1, <2>4, <2>7, <2>8, <2>9, ReaderStep
<1>12. ASSUME Socket(r) PROVE LoginPhase'
  <2>1. /\ at[r] = "socket" /\ at' = [at EXCEPT ![r] = "connect"]
        /\ made < MaxSockets
        /\ file' = [file EXCEPT ![Lowest] = made + 1] /\ clientSocket' = Lowest
        /\ UNCHANGED <<link, port, asks, inbox, readThread, reading>>
    BY <1>12 DEF Socket
  <2>2. Lowest \in Fd /\ file[Lowest] = 0
    BY <2>1, LowestIsFree
  <2>3. Behind(r) = 0
    BY <1>1, <2>1 DEF AtRest, Stage
  <2>4. Front' = made + 1 /\ made + 1 \in Sock /\ made + 1 > made
    BY <2>1, <2>2, BoundsAssumption DEF Front, File, TypeOfNet, Fd, Sock
  <2>5. Behind(r)' \in {0, Front'}
    BY <2>1, <2>2, <2>3, <2>4 DEF Behind, File, TypeOfNet
  <2>6. Front' # 0 /\ link'[Front'] = "raw"
    BY <2>1, <2>4 DEF Sockets, Sock
  <2>7. at'[r] = "connect"
    BY <1>0, <2>1 DEF TypeOfThreads
  <2>8. Stage(r)'
    BY <2>5, <2>6, <2>7 DEF Stage
  <2>9. PICK to \in {"connect"} : at' = [at EXCEPT ![r] = to]
    BY <2>1
  <2> QED
    BY <2>1, <2>6, <2>8, <2>9, ReaderStep
<1>13. ASSUME Create(r) PROVE LoginPhase'
  BY <1>1, <1>13 DEF Create, AtRest, Stage
<1> QED
  BY <1>4, <1>5, <1>6, <1>7, <1>8, <1>9, <1>10, <1>11, <1>12, <1>13

\* The steps on either side of that.
LEMMA LoopKept ==
    ASSUME TypeOfNet, TypeOfThreads, Sockets, LoginPhase, NEW r \in Reader,
           Start(r) \/ Loop(r) \/ Closed(r)
    PROVE  LoginPhase'
<1>0. r # Main /\ r \in Thread /\ Main \in Thread /\ Main \notin Reader /\ Reader \subseteq Thread
  BY DEF Main, Reader, Thread
<1> USE DEF net, conn, reading, past, Go, Null
<1>1. AtRest(r) \/ Stage(r)
  BY DEF LoginPhase
<1>2. UNCHANGED <<file, link, port, asks, inbox, clientSocket, readThread, buffer, job>>
  BY DEF Start, Loop, Closed
<1>3. ASSUME NEW q \in Reader, q # r
      PROVE  at'[q] = at[q] /\ on'[q] = on[q] /\ sock'[q] = sock[q]
  BY <1>0, <1>3 DEF Start, Loop, Closed, TypeOfThreads
<1>4. at'[Main] = at[Main]
  BY <1>0 DEF Start, Loop, Closed, TypeOfThreads
<1>5. Front' = Front /\ (Quiet(Front)' <=> Quiet(Front)) /\ (OneRequest(Front)' <=> OneRequest(Front))
  <2>1. Front' = Front
    BY <1>2 DEF Front, File
  <2>2. Quiet(Front)' <=> Quiet(Front)
    BY <1>2, <2>1 DEF Quiet
  <2> QED
    BY <1>2, <2>1, <2>2 DEF OneRequest
<1>6. ASSUME NEW q PROVE Current(q)' <=> Current(q)
  BY <1>2, <1>5 DEF Current
<1>7. ASSUME NEW q \in Reader, q # r
      PROVE  (AtRest(q) => AtRest(q)') /\ (AtRest(q)' => AtRest(q)) /\ (Stage(q) => Stage(q)')
  <2>1. Behind(q)' = Behind(q)
    BY <1>2, <1>3, <1>7 DEF Behind, File
  <2>2. (Own(q)' <=> Own(q)) /\ (Settled(q)' <=> Settled(q))
    BY <1>2, <1>3, <1>5, <1>6, <1>7, <2>1 DEF Own, Settled, Connected, Quiet
  <2>3. Stage(q) => Stage(q)'
    BY <1>2, <1>3, <1>5, <1>6, <1>7, <2>1, <2>2 DEF Stage
  <2>4. (AtRest(q) => AtRest(q)') /\ (AtRest(q)' => AtRest(q))
    BY <1>2, <1>3, <1>7 DEF AtRest
  <2> QED
    BY <2>3, <2>4
\* What is left to show of r.
<1> DEFINE Fits ==
      /\ AtRest(r)' \/ Stage(r)'
      /\ (~AtRest(r)' => ~AtRest(r))
      /\ (at'[r] = "recv" /\ on'[r] = Front => readThread = r)
      /\ (at[Main] \in {"socket", "connect", "create", "close"} => AtRest(r)')
      /\ (at[Main] \in {"send", "stop", "join"} /\ r # readThread => AtRest(r)')
      /\ (at[Main] \in {"send", "stop", "join"} /\ r = readThread =>
             /\ at'[r] \in {"start", "loop", "recv", "ended"}
             /\ at'[r] \in {"loop", "recv"} => sock'[r] = clientSocket
             /\ at'[r] = "recv" => on'[r] = Front)
      /\ (at[Main] = "create" => (at'[r] = "recv" => on'[r] # Front))
<1>8. ASSUME Fits PROVE LoginPhase'
  <2>1. \A q, z \in Reader : ~AtRest(q)' /\ ~AtRest(z)' => q = z
    BY <1>7, <1>8 DEF LoginPhase
  <2>2. \A q \in Reader : AtRest(q)' \/ Stage(q)'
    BY <1>7, <1>8 DEF LoginPhase
  <2>3. \A q \in Reader : at'[q] = "recv" /\ on'[q] = Front' => readThread' = q
    BY <1>2, <1>3, <1>5, <1>8 DEF LoginPhase
  <2>4. WindowStage'
    <3>1. at[Main] \in {"socket", "connect", "create", "close"} => \A q \in Reader : AtRest(q)'
      BY <1>7, <1>8 DEF LoginPhase, WindowStage
    <3>2. at[Main] = "create" => \A q \in Reader : at'[q] = "recv" => on'[q] # Front
      BY <1>3, <1>8 DEF LoginPhase, WindowStage
    <3>3. at[Main] \in {"send", "stop", "join"} =>
             /\ readThread # Null /\ Current(readThread)' /\ Quiet(Front)'
             /\ \A q \in Reader : q # readThread => AtRest(q)'
             /\ at'[readThread] \in {"start", "loop", "recv", "ended"}
             /\ at'[readThread] \in {"loop", "recv"} => sock'[readThread] = clientSocket
             /\ at'[readThread] = "recv" => on'[readThread] = Front
      <4> SUFFICES ASSUME at[Main] \in {"send", "stop", "join"}
                   PROVE  /\ readThread # Null /\ Current(readThread)' /\ Quiet(Front)'
                          /\ \A q \in Reader : q # readThread => AtRest(q)'
                          /\ at'[readThread] \in {"start", "loop", "recv", "ended"}
                          /\ at'[readThread] \in {"loop", "recv"} => sock'[readThread] = clientSocket
                          /\ at'[readThread] = "recv" => on'[readThread] = Front
        OBVIOUS
      <4>1. readThread # Null /\ Current(readThread) /\ Quiet(Front) /\ readThread \in Reader
        BY DEF LoginPhase, WindowStage, TypeOfThreads, Reader
      <4>2. Current(readThread)'
        BY <1>2, <1>5, <4>1 DEF Current
      <4>3. \A q \in Reader : q # readThread => AtRest(q)'
        BY <1>7, <1>8 DEF LoginPhase, WindowStage
      <4>4. /\ at'[readThread] \in {"start", "loop", "recv", "ended"}
            /\ at'[readThread] \in {"loop", "recv"} => sock'[readThread] = clientSocket
            /\ at'[readThread] = "recv" => on'[readThread] = Front
        BY <1>3, <1>8, <4>1 DEF LoginPhase, WindowStage
      <4> QED
        BY <1>5, <4>1, <4>2, <4>3, <4>4
    <3>4. at[Main] = "connect" => Front # Null /\ link[Front] = "raw"
      BY DEF LoginPhase, WindowStage
    <3>5. at[Main] = "create" => Front # Null /\ link[Front] # "raw" /\ Quiet(Front)
      BY DEF LoginPhase, WindowStage
    <3> QED
      BY <1>2, <1>4, <1>5, <3>1, <3>2, <3>3, <3>4, <3>5 DEF WindowStage, Current
  <2>5. /\ (\A s \in Sock : port[s] = "login")'
        /\ (\A s \in Sock : \A i \in 1..Len(asks[s]) : asks[s][i] # "data")'
    BY <1>2 DEF LoginPhase
  <2> QED
    BY <2>1, <2>2, <2>3, <2>4, <2>5 DEF LoginPhase
<1> HIDE DEF Fits
<1>9. ASSUME Start(r) PROVE Fits
  <2>1. at[r] = "start" /\ at'[r] = "loop" /\ sock'[r] = clientSocket
    BY <1>0, <1>9 DEF Start, TypeOfThreads
  <2>2. ~AtRest(r) /\ Current(r) /\ OneRequest(Front)
    BY <1>1, <2>1 DEF AtRest, Stage
  <2>3. Stage(r)'
    BY <1>2, <1>5, <1>6, <2>1, <2>2 DEF Stage
  <2>4. /\ at[Main] \notin {"socket", "connect", "create", "close"}
        /\ at[Main] \in {"send", "stop", "join"} => readThread = r
    BY <2>2, OthersRest DEF WindowSteps
  <2> QED
    BY <2>1, <2>2, <2>3, <2>4 DEF Fits
<1>10. ASSUME at'[r] = "ended", at[r] \in {"loop", "recv"} PROVE Fits
  <2>1. AtRest(r)'
    BY <1>10 DEF AtRest
  <2> QED
    BY <1>10, <2>1 DEF Fits
<1>11. ASSUME at[r] = "loop", at'[r] = "recv", Connected(Behind(r)), on'[r] = Behind(r), UNCHANGED sock
       PROVE  Fits
  <2>1. ~AtRest(r)
    BY <1>11 DEF AtRest
  <2>2. /\ at[Main] \notin {"socket", "connect", "create", "close"}
        /\ at[Main] \in {"send", "stop", "join"} =>
               readThread = r /\ sock[r] = clientSocket /\ Current(r)
    BY <2>1, <1>11, OthersRest DEF WindowSteps
  <2>3. CASE Current(r) /\ sock[r] = clientSocket /\ OneRequest(Front)
    <3>1. Behind(r) = Front
      BY <2>3 DEF Behind, Front
    <3>2. Stage(r)'
      BY <1>2, <1>5, <1>6, <1>11, <2>3, <3>1 DEF Stage
    <3>3. readThread = r
      BY <2>3 DEF Current
    <3> QED
      BY <1>11, <2>1, <2>2, <2>3, <3>1, <3>2, <3>3 DEF Fits
  <2>4. CASE Settled(r)
    <3>1. Quiet(Behind(r)) /\ Behind(r) # Front
      BY <1>11, <2>4 DEF Settled, Connected
    <3>2. Behind(r) \in Sock
      <4>1. sock[r] \in Fd
        BY <1>11 DEF Connected, Behind, File, TypeOfThreads, Fd
      <4> QED
        BY <1>11, <4>1 DEF Connected, Behind, File, TypeOfNet, Sock
    <3>3. AtRest(r)'
      BY <1>2, <1>11, <3>1, <3>2 DEF AtRest, LoginPhase, Quiet
    <3>4. ~(at[Main] \in {"send", "stop", "join"})
      <4>1. ~Current(r)
        BY <2>4 DEF Current, Settled
      <4> QED
        BY <2>2, <4>1
    <3> QED
      BY <1>11, <2>1, <2>2, <3>1, <3>3, <3>4 DEF Fits
  <2> QED
    BY <1>1, <1>11, <2>1, <2>3, <2>4 DEF Stage
<1>12. ASSUME Loop(r) PROVE Fits
  <2>1. CASE at' = [at EXCEPT ![r] = "ended"] /\ at[r] = "loop"
    <3>1. at'[r] = "ended"
      BY <1>0, <2>1 DEF TypeOfThreads
    <3> QED
      BY <1>10, <2>1, <3>1
  <2>2. CASE /\ at[r] = "loop" /\ at' = [at EXCEPT ![r] = "recv"]
             /\ Connected(Behind(r)) /\ on' = [on EXCEPT ![r] = Behind(r)]
             /\ UNCHANGED sock
    <3>1. at'[r] = "recv" /\ on'[r] = Behind(r)
      BY <1>0, <2>2 DEF TypeOfThreads
    <3> QED
      BY <1>11, <2>2, <3>1
  <2> QED
    BY <1>12, <2>1, <2>2 DEF Loop, Behind
<1>13. ASSUME Closed(r) PROVE Fits
  <2>1. at'[r] = "ended" /\ at[r] = "recv"
    BY <1>0, <1>13 DEF Closed, TypeOfThreads
  <2> QED
    BY <1>10, <2>1
<1> QED
  BY <1>8, <1>9, <1>12, <1>13

\* recv takes the only answer there is.
LEMMA AnswerRead ==
    ASSUME TypeOfNet, TypeOfThreads, Sockets, LoginPhase, NEW r \in Reader, Receive(r)
    PROVE  LoginPhase'
<1>0. r # Main /\ r \in Thread /\ Main \in Thread /\ Main \notin Reader /\ Reader \subseteq Thread
  BY DEF Main, Reader, Thread
<1>1. /\ at[r] = "recv" /\ at' = [at EXCEPT ![r] = "copy"]
      /\ on[r] \in Sock /\ inbox[on[r]] # <<>>
      /\ inbox' = [inbox EXCEPT ![on[r]] = Tail(@)]
      /\ buffer'[1] = Head(inbox[on[r]])
      /\ UNCHANGED <<file, link, port, asks, clientSocket, readThread, sock, on, job>>
  BY DEF Receive, Go, Sockets, conn
<1>2. ~AtRest(r)
  BY <1>1 DEF AtRest
<1>3. /\ Current(r) /\ sock[r] = clientSocket /\ on[r] = Front
      /\ asks[Front] = <<>> /\ Len(inbox[Front]) = 1 /\ inbox[Front][1].type \in Replies
  BY <1>1, <1>2 DEF LoginPhase, Stage, OneRequest, Quiet
<1>4. at[Main] = "idle"
  <2>1. ~Quiet(Front)
    BY <1>1, <1>3 DEF Quiet
  <2> QED
    BY <1>2, <2>1, OthersRest DEF TypeOfThreads
<1>5. buffer'[1].type \in Replies /\ inbox'[Front] = <<>>
  <2>1. inbox[Front] \in Seq(Packets) /\ inbox'[Front] = Tail(inbox[Front])
    BY <1>1, <1>3 DEF TypeOfNet
  <2>2. Len(inbox'[Front]) = 0 /\ inbox'[Front] \in Seq(Packets)
    <3>1. ASSUME NEW q \in Seq(Packets), Len(q) = 1, q # <<>>
          PROVE  Len(Tail(q)) = 0 /\ Tail(q) \in Seq(Packets)
      BY <3>1
    <3>2. inbox[Front] # <<>> /\ Len(inbox[Front]) = 1
      BY <1>1, <1>3
    <3> QED
      BY <2>1, <3>1, <3>2, Zenon
  <2>3. inbox'[Front] = <<>>
    BY <2>2, EmptySeq, Zenon
  <2>4. Head(inbox[Front]) = inbox[Front][1]
    BY <2>1, <1>1, <1>3
  <2> QED
    BY <1>1, <1>3, <2>3, <2>4
<1>6. Front' = Front /\ Current(r)' /\ Own(r)'
  <2>1. Front' = Front
    BY <1>1 DEF Front, File
  <2>2. Current(r)'
    BY <1>1, <1>3, <2>1 DEF Current
  <2>3. Quiet(Front)'
    BY <1>1, <1>3, <1>5, <2>1 DEF Quiet
  <2> QED
    BY <1>1, <1>3, <2>1, <2>2, <2>3 DEF Own
<1>7. at'[r] = "copy" /\ at'[Main] = "idle"
  BY <1>0, <1>1, <1>4 DEF TypeOfThreads
<1>8. Stage(r)'
  BY <1>5, <1>6, <1>7 DEF Stage
<1>9. ASSUME NEW q \in Reader, q # r PROVE AtRest(q)' /\ at'[q] = at[q]
  <2>1. AtRest(q) /\ at'[q] = at[q] /\ on'[q] = on[q]
    BY <1>0, <1>1, <1>2, <1>9, OthersRest DEF TypeOfThreads
  <2>2. ASSUME at[q] = "recv" PROVE on[q] # on[r]
    BY <1>1, <2>1, <2>2 DEF AtRest
  <2>3. at[q] = "recv" => UNCHANGED <<port[on[q]], asks[on[q]], inbox[on[q]]>>
    BY <1>1, <2>1, <2>2 DEF TypeOfNet, Sockets
  <2> QED
    BY <2>1, <2>3, RestKept
<1>10. \A q \in Reader : at'[q] = "recv" /\ on'[q] = Front' => readThread' = q
  BY <1>1, <1>6, <1>7, <1>9 DEF LoginPhase
<1>11. WindowStage'
  BY <1>7 DEF WindowStage
<1>12. /\ (\A s \in Sock : port[s] = "login")'
       /\ (\A s \in Sock : \A i \in 1..Len(asks[s]) : asks[s][i] # "data")'
  BY <1>1 DEF LoginPhase
<1> QED
  BY <1>8, <1>9, <1>10, <1>11, <1>12 DEF LoginPhase

\* The steps of the main thread.
LEMMA WindowKept ==
    ASSUME TypeOfNet, TypeOfThreads, Sockets, LoginPhase, ~crossed', Window
    PROVE  LoginPhase'
<1>0. Main \in Thread /\ Main \notin Reader /\ Reader \subseteq Thread /\ Main = 0
  BY DEF Main, Reader, Thread
<1> USE DEF net, conn, reading, past, Go, Null
\* It leaves the readers and their packets alone.
<1>1. ASSUME \A q \in Reader : AtRest(q), NEW to, at' = [at EXCEPT ![Main] = to],
             \A q \in Reader : AtRest(q)',
             \A q \in Reader : on'[q] = on[q],
             \A s \in Sock : port'[s] = "login",
             UNCHANGED asks,
             \A q \in Reader : at[q] = "recv" => on[q] # Front' \/ readThread' = q,
             WindowStage'
      PROVE  LoginPhase'
  <2>1. \A q \in Reader : at'[q] = at[q]
    BY <1>0, <1>1 DEF TypeOfThreads
  <2>2. (\A s \in Sock : \A i \in 1..Len(asks[s]) : asks[s][i] # "data")'
    BY <1>1 DEF LoginPhase
  <2> QED
    BY <1>1, <2>1, <2>2 DEF LoginPhase
<1>2. ASSUME NEW q \in Reader, at[q] = "recv" PROVE on[q] \in Sock /\ link[on[q]] # "raw"
  BY <1>2 DEF Sockets
<1>3. ASSUME Click("login") \/ Click("register") PROVE LoginPhase'
  <2>1. /\ at[Main] = "idle" /\ at' = [at EXCEPT ![Main] = "socket"]
        /\ \A q \in Reader : AtRest(q)
        /\ UNCHANGED <<net, conn, sock, on>>
    BY <1>3 DEF Click
  <2>2. at'[Main] = "socket" /\ \A q \in Reader : at'[q] = at[q]
    BY <1>0, <2>1 DEF TypeOfThreads
  <2>3. \A q \in Reader : AtRest(q)'
    BY <2>1, <2>2 DEF AtRest
  <2>4. Front' = Front
    BY <2>1 DEF Front, File
  <2>5. WindowStage'
    BY <2>2, <2>3 DEF WindowStage
  <2>6. \A s \in Sock : port'[s] = "login"
    BY <2>1 DEF LoginPhase
  <2>7. \A q \in Reader : at[q] = "recv" => on[q] # Front' \/ readThread' = q
    BY <2>1, <2>4 DEF LoginPhase
  <2> QED
    BY <1>1, <2>1, <2>3, <2>5, <2>6, <2>7
<1>4. ASSUME Socket(Main) PROVE LoginPhase'
  <2>1. /\ at[Main] = "socket" /\ at' = [at EXCEPT ![Main] = "connect"]
        /\ made < MaxSockets
        /\ file' = [file EXCEPT ![Lowest] = made + 1] /\ clientSocket' = Lowest
        /\ UNCHANGED <<link, port, asks, inbox, readThread, reading>>
    BY <1>4 DEF Socket
  <2>2. Lowest \in Fd
    BY <2>1, LowestIsFree
  <2>3. Front' = made + 1 /\ made + 1 \in Sock /\ made + 1 > made
    BY <2>1, <2>2, BoundsAssumption DEF Front, File, TypeOfNet, Fd, Sock
  <2>4. Front' # 0 /\ link'[Front'] = "raw" /\ link[Front'] = "raw"
    BY <2>1, <2>3 DEF Sockets, Sock
  <2>5. \A q \in Reader : AtRest(q)
    BY <2>1 DEF LoginPhase, WindowStage
  <2>6. at'[Main] = "connect" /\ \A q \in Reader : at'[q] = at[q]
    BY <1>0, <2>1 DEF TypeOfThreads
  <2>7. \A q \in Reader : AtRest(q)'
    BY <2>1, <2>5, <2>6 DEF AtRest
  <2>8. WindowStage'
    BY <2>4, <2>6, <2>7 DEF WindowStage
  <2>9. \A q \in Reader : at[q] = "recv" => on[q] # Front'
    BY <1>2, <2>4
  <2>10. \A s \in Sock : port'[s] = "login"
    BY <2>1 DEF LoginPhase
  <2> QED
    BY <1>1, <2>1, <2>5, <2>7, <2>8, <2>9, <2>10
<1>5. ASSUME Connect(Main) PROVE LoginPhase'
  <2>0. at[Main] = "connect"
    BY <1>5 DEF Connect
  <2>1. /\ \A q \in Reader : AtRest(q)
        /\ Front # 0 /\ link[Front] = "raw"
        /\ \A q \in Reader : at[q] = "recv" => on[q] # Front
    BY <1>2, <2>0 DEF LoginPhase, WindowStage
  <2>2. ServerPort(Main) = "login"
    BY DEF ServerPort
  <2>3. CASE UNCHANGED link /\ UNCHANGED port /\ at' = [at EXCEPT ![Main] = "idle"]
    <3>1. UNCHANGED <<file, asks, inbox, conn, sock, on>>
      BY <1>5 DEF Connect
    <3>2. at'[Main] = "idle" /\ \A q \in Reader : at'[q] = at[q]
      BY <1>0, <2>3 DEF TypeOfThreads
    <3>3. \A q \in Reader : AtRest(q)'
      BY <2>1, <2>3, <3>1, <3>2 DEF AtRest
    <3>4. Front' = Front
      BY <3>1 DEF Front, File
    <3>5. WindowStage'
      BY <3>2 DEF WindowStage
    <3>6. \A s \in Sock : port'[s] = "login"
      BY <2>3 DEF LoginPhase
    <3> QED
      BY <1>1, <2>1, <2>3, <3>1, <3>3, <3>4, <3>5, <3>6
  <2>4. CASE /\ at' = [at EXCEPT ![Main] = "create"]
             /\ link' = [link EXCEPT ![Front] = "up"]
             /\ port' = [port EXCEPT ![Front] = "login"]
    <3>1. UNCHANGED <<file, asks, inbox, conn, sock, on>>
      BY <1>5 DEF Connect
    <3>2. at'[Main] = "create" /\ \A q \in Reader : at'[q] = at[q]
      BY <1>0, <2>4 DEF TypeOfThreads
    <3>3. \A s \in Sock : port'[s] = "login"
      BY <2>4 DEF LoginPhase, TypeOfNet
    <3>4. \A q \in Reader : AtRest(q)'
      BY <1>2, <2>1, <3>1, <3>2, <3>3 DEF AtRest
    <3>5. Front' = Front /\ Front \in Sock
      <4>1. Front' = Front
        BY <3>1 DEF Front, File
      <4>2. clientSocket \in Fd /\ Front = file[clientSocket]
        BY <2>1 DEF Front, File, TypeOfThreads, Fd
      <4> QED
        BY <2>1, <4>1, <4>2 DEF TypeOfNet, Sock
    <3>6. link'[Front] = "up" /\ asks'[Front] = <<>> /\ inbox'[Front] = <<>>
      BY <2>1, <2>4, <3>1, <3>5 DEF Sockets, TypeOfNet
    <3>7. \A q \in Reader : at'[q] = "recv" => on'[q] # Front'
      BY <2>1, <3>1, <3>2, <3>5
    <3>8. Quiet(Front)'
      BY <3>5, <3>6 DEF Quiet
    <3>9. WindowStage'
      BY <2>1, <3>2, <3>4, <3>5, <3>6, <3>7, <3>8 DEF WindowStage
    <3> QED
      BY <1>1, <2>1, <2>4, <3>1, <3>3, <3>4, <3>5, <3>9
  <2> QED
    BY <1>5, <2>2, <2>3, <2>4 DEF Connect, Front
<1>6. ASSUME Create(Main) PROVE LoginPhase'
  <2>0. PICK new \in Reader : new = threads + 1
    <3>1. threads < MaxSockets
      BY <1>6 DEF Create
    <3> QED
      BY <3>1, BoundsAssumption DEF TypeOfNet, Reader
  <2>1. /\ at[Main] = "create" /\ readThread' = new
        /\ at' = [at EXCEPT ![new] = "start", ![Main] = "send"]
        /\ UNCHANGED <<net, clientSocket, reading>>
    BY <1>6, <2>0 DEF Create, Handle
  <2>2. at[new] = "none" /\ new # 0
    BY <1>0, <2>0 DEF Sockets, TypeOfNet
  <2>3. /\ \A q \in Reader : AtRest(q)
        /\ Front # 0 /\ link[Front] # "raw" /\ Quiet(Front)
        /\ \A q \in Reader : at[q] = "recv" => on[q] # Front
    BY <2>1 DEF LoginPhase, WindowStage
  <2>4. /\ at'[Main] = "send" /\ at'[new] = "start"
        /\ \A q \in Reader : q # new => at'[q] = at[q]
    <3>1. new \in DOMAIN at /\ Main \in DOMAIN at /\ Reader \subseteq DOMAIN at
      BY <1>0, <2>2 DEF TypeOfThreads
    <3> QED
      BY <1>0, <2>1, <2>2, <3>1
  <2>5. Front' = Front /\ Quiet(Front)'
    <3>1. Front' = Front
      BY <2>1 DEF Front, File
    <3> QED
      BY <2>1, <2>3, <3>1 DEF Quiet
  <2>6. \A q \in Reader : q # new => AtRest(q)'
    BY <2>1, <2>3, <2>4 DEF AtRest
  <2>7. Current(new)' /\ OneRequest(Front)'
    BY <2>1, <2>3, <2>5 DEF Current, OneRequest, Quiet
  <2>8. Stage(new)'
    BY <2>4, <2>7 DEF Stage
  <2>9. WindowStage'
    <3>1. Current(readThread)'
      BY <2>1, <2>3, <2>5 DEF Current
    <3> QED
      BY <2>1, <2>2, <2>4, <2>5, <2>6, <3>1 DEF WindowStage
  <2>10. \A q \in Reader : at'[q] = "recv" /\ on'[q] = Front' => readThread' = q
    BY <2>1, <2>3, <2>4, <2>5
  <2>11. /\ (\A s \in Sock : port[s] = "login")'
         /\ (\A s \in Sock : \A i \in 1..Len(asks[s]) : asks[s][i] # "data")'
    BY <2>1 DEF LoginPhase
  <2>12. (\A q \in Reader : AtRest(q) \/ Stage(q))' /\ (\A q, z \in Reader : ~AtRest(q) /\ ~AtRest(z) => q = z)'
    BY <2>6, <2>8
  <2> QED
    BY <2>9, <2>10, <2>11, <2>12 DEF LoginPhase
<1>7. ASSUME Stop(Main) \/ Join(Main) PROVE LoginPhase'
  <2>1. at[Main] \in {"stop", "join"}
    BY <1>7 DEF Stop, Join, Handles, TypeOfThreads, WindowSteps
  <2>2. UNCHANGED <<net, conn, buffer, sock, on, job>>
    BY <1>7 DEF Stop, Join
  <2>3. CASE UNCHANGED at
    BY <2>2, <2>3, SamePhase DEF phaseVars
  <2>4. CASE at[Main] = "stop" /\ at' = [at EXCEPT ![Main] = "join"]
    <3>1. at'[Main] = "join" /\ \A q \in Reader : at'[q] = at[q]
      BY <1>0, <2>4 DEF TypeOfThreads
    <3>2. Front' = Front /\ (Quiet(Front)' <=> Quiet(Front)) /\ (OneRequest(Front)' <=> OneRequest(Front))
      <4>1. Front' = Front
        BY <2>2 DEF Front, File
      <4> QED
        BY <2>2, <4>1 DEF Quiet, OneRequest
    <3>3. \A q \in Reader : AtRest(q)' <=> AtRest(q)
      BY <2>2, <3>1 DEF AtRest
    <3>4. ASSUME NEW q \in Reader, Stage(q) PROVE Stage(q)'
      <4>1. Current(q)' <=> Current(q)
        BY <2>2, <3>2 DEF Current
      <4>2. Behind(q)' = Behind(q)
        BY <2>2 DEF Behind, File
      <4>3. (Own(q)' <=> Own(q)) /\ (Settled(q)' <=> Settled(q))
        BY <2>2, <3>2, <4>1, <4>2 DEF Own, Settled, Quiet, Connected
      <4> QED
        BY <2>2, <3>1, <3>2, <3>4, <4>1, <4>2, <4>3 DEF Stage
    <3>5. WindowStage'
      <4>1. readThread \in Reader /\ Current(readThread)
        BY <2>4 DEF LoginPhase, WindowStage, TypeOfThreads, Reader
      <4>2. Current(readThread)'
        BY <2>2, <3>2, <4>1 DEF Current
      <4> QED
        BY <2>2, <2>4, <3>1, <3>2, <3>3, <4>1, <4>2 DEF LoginPhase, WindowStage
    <3> QED
      BY <2>2, <3>1, <3>2, <3>3, <3>4, <3>5 DEF LoginPhase
  <2>5. CASE /\ at[Main] = "join" /\ at' = [at EXCEPT ![Main] = "close"]
             /\ at[readThread] = "ended"
    <3>1. AtRest(readThread)
      BY <2>5 DEF AtRest
    <3>2. \A q \in Reader : AtRest(q)
      BY <2>5, <3>1 DEF LoginPhase, WindowStage
    <3>3. at'[Main] = "close" /\ \A q \in Reader : at'[q] = at[q]
      BY <1>0, <2>5 DEF TypeOfThreads
    <3>4. \A q \in Reader : AtRest(q)'
      BY <2>2, <3>2, <3>3 DEF AtRest
    <3>5. WindowStage'
      BY <3>3, <3>4 DEF WindowStage
    <3>6. Front' = Front
      BY <2>2 DEF Front, File
    <3>7. \A q \in Reader : at[q] = "recv" => on[q] # Front' \/ readThread' = q
      BY <2>2, <3>6 DEF LoginPhase
    <3>8. \A s \in Sock : port'[s] = "login"
      BY <2>2 DEF LoginPhase
    <3> QED
      BY <1>1, <2>2, <2>5, <3>2, <3>4, <3>5, <3>7, <3>8
  <2> QED
    BY <1>7, <2>1, <2>3, <2>4, <2>5 DEF Stop, Join, Handles, TypeOfThreads, WindowSteps
<1>8. ASSUME Close(Main) PROVE LoginPhase'
  <2>1. at[Main] = "close" /\ at' = [at EXCEPT ![Main] = "idle"]
        /\ file' = (IF clientSocket = 0 THEN file ELSE [file EXCEPT ![clientSocket] = 0])
        /\ UNCHANGED <<link, port, asks, inbox, sock, on>> /\ clientSocket' = clientSocket
    BY <1>8 DEF Close, AfterClose
  <2>2. Front' = 0
    <3>1. CASE clientSocket = 0
      BY <2>1, <3>1 DEF Front, File
    <3>2. CASE clientSocket # 0
      <4>1. clientSocket \in Fd /\ file' = [file EXCEPT ![clientSocket] = 0]
        BY <2>1, <3>2 DEF TypeOfThreads, Fd
      <4>2. file'[clientSocket] = 0
        BY <4>1 DEF TypeOfNet
      <4> QED
        BY <2>1, <3>2, <4>2 DEF Front, File
    <3> QED
      BY <3>1, <3>2
  <2>3. \A q \in Reader : AtRest(q)
    BY <2>1 DEF LoginPhase, WindowStage
  <2>4. at'[Main] = "idle" /\ \A q \in Reader : at'[q] = at[q]
    BY <1>0, <2>1 DEF TypeOfThreads
  <2>5. \A q \in Reader : AtRest(q)'
    BY <2>1, <2>3, <2>4 DEF AtRest
  <2>6. \A q \in Reader : at[q] = "recv" => on[q] # Front'
    BY <1>2, <2>2 DEF Sock
  <2>7. WindowStage'
    BY <2>4 DEF WindowStage
  <2>8. \A s \in Sock : port'[s] = "login"
    BY <2>1 DEF LoginPhase
  <2> QED
    BY <1>1, <2>1, <2>3, <2>5, <2>6, <2>7, <2>8
<1>9. ASSUME Send PROVE LoginPhase'
  <2>1. at[Main] = "send"
    BY <1>9 DEF Send
  <2>2. /\ readThread \in Reader /\ Current(readThread) /\ Quiet(Front)
        /\ \A q \in Reader : q # readThread => AtRest(q)
        /\ at[readThread] \in {"start", "loop", "recv", "ended"}
        /\ (at[readThread] \in {"loop", "recv"} => sock[readThread] = clientSocket)
        /\ (at[readThread] = "recv" => on[readThread] = Front)
    BY <2>1 DEF LoginPhase, WindowStage, TypeOfThreads, Reader
  <2>3. /\ at' \in {[at EXCEPT ![Main] = "idle"], [at EXCEPT ![Main] = "stop"]}
        /\ UNCHANGED <<file, link, port, inbox, conn, sock, on, job>>
    BY <1>9 DEF Send
  <2>4. (\A q \in Reader : at'[q] = at[q]) /\ at'[Main] \in {"idle", "stop"}
    BY <1>0, <2>3 DEF TypeOfThreads
  <2>5. Front' = Front /\ Front \in Sock
    <3>1. Front' = Front
      BY <2>3 DEF Front, File
    <3>2. Front # 0
      BY <2>2 DEF Current
    <3>3. clientSocket \in Fd /\ Front = file[clientSocket]
      BY <3>2 DEF Front, File, TypeOfThreads, Fd
    <3> QED
      BY <3>1, <3>2, <3>3 DEF TypeOfNet, Sock
  <2>6. \/ UNCHANGED asks
        \/ asks' = [asks EXCEPT ![Front] = <<job[Main].type>>] /\ at' = [at EXCEPT ![Main] = "idle"]
    <3>1. asks[Front] = <<>>
      BY <2>2 DEF Quiet
    <3>2. Append(asks[Front], job[Main].type) = <<job[Main].type>>
      BY <3>1
    <3> QED
      BY <1>9, <3>2 DEF Send, Ask, Front
  <2>7. job[Main].type \in Type
    BY <2>1 DEF TypeOfThreads
  <2>8. OneRequest(Front)' /\ Current(readThread)'
    <3>1. inbox[Front] = <<>> /\ asks[Front] = <<>>
      BY <2>2 DEF Quiet
    <3>2. asks'[Front] = <<>> \/ asks'[Front] = <<job[Main].type>>
      BY <2>5, <2>6, <3>1 DEF TypeOfNet
    <3>3. Len(<<job[Main].type>>) = 1
      OBVIOUS
    <3>4. asks'[Front] = <<>> \/ Len(asks'[Front]) = 1
      BY <3>2, <3>3
    <3>5. OneRequest(Front)'
      BY <2>3, <2>5, <3>1, <3>4 DEF OneRequest, Quiet
    <3> QED
      BY <2>2, <2>3, <2>5, <3>5 DEF Current
  <2>9. ASSUME NEW q \in Reader, q # readThread PROVE AtRest(q)'
    <3>1. AtRest(q) /\ (at[q] = "recv" => on[q] # Front /\ on[q] \in Sock)
      BY <1>2, <2>2, <2>9 DEF LoginPhase
    <3>2. at[q] = "recv" => asks'[on[q]] = asks[on[q]]
      BY <2>5, <2>6, <3>1 DEF TypeOfNet
    <3> QED
      BY <2>3, <2>4, <3>1, <3>2 DEF AtRest
  <2>10. AtRest(readThread)' \/ Stage(readThread)'
    <3>1. CASE at[readThread] = "ended"
      BY <2>2, <2>3, <2>4, <3>1 DEF AtRest
    <3>2. CASE at[readThread] # "ended"
      <4> DEFINE q == readThread
      <4>1. Current(q)' /\ at'[q] = at[q] /\ sock'[q] = sock[q] /\ on'[q] = on[q]
        BY <2>2, <2>3, <2>4, <2>8 DEF Current
      <4>2. Stage(q)'
        BY <2>2, <2>3, <2>5, <2>8, <3>2, <4>1 DEF Stage
      <4> QED
        BY <2>3, <4>2 DEF Stage, Current, Own, Settled, Behind
    <3> QED
      BY <3>1, <3>2
  <2>11. (\A q \in Reader : AtRest(q) \/ Stage(q))' /\ (\A q, z \in Reader : ~AtRest(q) /\ ~AtRest(z) => q = z)'
    <3>1. readThread' = readThread
      BY <2>3
    <3>2. \A q \in Reader : q # readThread => AtRest(q)'
      BY <2>9
    <3>3. \A q \in Reader : AtRest(q)' \/ Stage(q)'
      BY <2>9, <2>10, <3>1 DEF AtRest, Stage, Current, Own, Settled, Behind
    <3> QED
      BY <3>2, <3>3
  <2>12. \A q \in Reader : at'[q] = "recv" /\ on'[q] = Front' => readThread' = q
    BY <2>3, <2>4, <2>5 DEF LoginPhase
  <2>13. \A s \in Sock : \A i \in 1..Len(asks'[s]) : asks'[s][i] # "data"
    <3>1. ASSUME NEW s \in Sock, asks'[s] # asks[s] PROVE asks'[s] = <<job[Main].type>>
      BY <2>5, <2>6, <3>1 DEF TypeOfNet
    <3>2. job[Main].type # "data"
      BY <2>7 DEF Type
    <3>3. ASSUME NEW i \in 1..Len(<<job[Main].type>>) PROVE <<job[Main].type>>[i] # "data"
      BY <3>2
    <3> QED
      BY <3>1, <3>3 DEF LoginPhase
  <2>14. WindowStage'
    <3>1. CASE at'[Main] = "idle"
      BY <3>1 DEF WindowStage
    <3>2. CASE at'[Main] = "stop"
      <4>1. UNCHANGED asks
        BY <1>0, <2>6, <3>2 DEF TypeOfThreads
      <4>2. Quiet(Front)'
        BY <2>2, <2>3, <2>5, <4>1 DEF Quiet
      <4>3. \A q \in Reader : q # readThread => AtRest(q)'
        BY <2>9
      <4> QED
        BY <2>2, <2>3, <2>4, <2>5, <2>8, <3>2, <4>2, <4>3 DEF WindowStage, Current, Reader
    <3> QED
      BY <2>4, <3>1, <3>2
  <2>15. \A s \in Sock : port'[s] = "login"
    BY <2>3 DEF LoginPhase
  <2> QED
    BY <2>11, <2>12, <2>13, <2>14, <2>15 DEF LoginPhase
<1> QED
  BY <1>3, <1>4, <1>5, <1>6, <1>7, <1>8, <1>9
     DEF Window, LoginButton, CreateAccountButton, Opens, Disconnects

\* The steps of the servers.
LEMMA AnswerSent ==
    ASSUME TypeOfNet, TypeOfThreads, Sockets, LoginPhase, NEW s \in Sock, Answer(s)
    PROVE  LoginPhase'
<1>1. /\ link[s] = "up" /\ asks[s] # <<>> /\ port[s] = "login"
      /\ asks' = [asks EXCEPT ![s] = Tail(@)]
      /\ \E type \in Answers(s, Head(asks[s])) :
             inbox' = [inbox EXCEPT ![s] = Append(@, Packet(type, 0))]
      /\ UNCHANGED <<file, link, port, clientSocket, readThread, buffer, at, sock, on, job>>
  BY DEF Answer, Arrives, conn, reading, LoginPhase
<1>2. asks[s] \in Seq(Request) /\ inbox[s] \in Seq(Packets)
  BY DEF TypeOfNet
<1>3. /\ Head(asks[s]) = asks[s][1] /\ 1 \in 1..Len(asks[s])
      /\ Len(Tail(asks[s])) = Len(asks[s]) - 1
      /\ \A i \in 1..Len(Tail(asks[s])) : i + 1 \in 1..Len(asks[s]) /\ Tail(asks[s])[i] = asks[s][i + 1]
  BY <1>1, <1>2
<1>4. Head(asks[s]) \in {"login", "register"}
  <2>1. Head(asks[s]) # "data"
    BY <1>3 DEF LoginPhase
  <2>2. Head(asks[s]) \in Request
    BY <1>1, <1>2
  <2> QED
    BY <2>1, <2>2 DEF Request
<1>5. Answers(s, Head(asks[s])) \subseteq Replies
  BY <1>1, <1>4 DEF Answers, Replies
<1>6. PICK type \in Replies : inbox' = [inbox EXCEPT ![s] = Append(@, Packet(type, 0))]
  BY <1>1, <1>5
<1>7. \A z : z # s => asks'[z] = asks[z] /\ inbox'[z] = inbox[z]
  BY <1>1, <1>6 DEF TypeOfNet
<1>8. ~Quiet(s)
  BY <1>1 DEF Quiet
<1>9. OneRequest(s) => OneRequest(s)'
  <2> SUFFICES ASSUME OneRequest(s) PROVE OneRequest(s)'
    OBVIOUS
  <2>1. inbox[s] = <<>> /\ Len(asks[s]) = 1
    BY <1>1 DEF OneRequest, Quiet
  <2>2. asks'[s] = <<>>
    <3>1. asks'[s] = Tail(asks[s])
      BY <1>1 DEF TypeOfNet
    <3>2. Tail(asks[s]) \in Seq(Request) /\ Len(Tail(asks[s])) = 0
      BY <1>1, <1>2, <1>3, <2>1
    <3> QED
      BY <3>1, <3>2, EmptySeq, Zenon
  <2>3. inbox'[s] = <<Packet(type, 0)>>
    <3>1. inbox'[s] = Append(inbox[s], Packet(type, 0))
      BY <1>6 DEF TypeOfNet
    <3>2. Append(<<>>, Packet(type, 0)) = <<Packet(type, 0)>>
      OBVIOUS
    <3> QED
      BY <2>1, <3>1, <3>2
  <2>4. Len(<<Packet(type, 0)>>) = 1 /\ <<Packet(type, 0)>>[1].type = type
    BY DEF Packet
  <2> QED
    BY <1>6, <2>2, <2>3, <2>4 DEF OneRequest
<1>10. ASSUME NEW q \in Reader PROVE AtRest(q) => AtRest(q)'
  BY <1>1, <1>7 DEF AtRest
<1>11. Front' = Front /\ (Quiet(Front) => Quiet(Front)') /\ (OneRequest(Front) => OneRequest(Front)')
  <2>1. Front' = Front
    BY <1>1 DEF Front, File
  <2>2. CASE Front = s
    BY <1>8, <1>9, <2>1, <2>2 DEF Quiet, OneRequest
  <2>3. CASE Front # s
    BY <1>7, <2>1, <2>3 DEF Quiet, OneRequest
  <2> QED
    BY <2>1, <2>2, <2>3
<1>12. ASSUME NEW q \in Reader, Stage(q) PROVE Stage(q)'
  <2>1. Current(q)' <=> Current(q)
    BY <1>1, <1>11 DEF Current
  <2>2. Behind(q)' = Behind(q)
    BY <1>1 DEF Behind, File
  <2>3. Own(q) => Own(q)'
    BY <1>1, <1>11, <2>1 DEF Own
  <2>4. Quiet(Behind(q)) => Quiet(Behind(q))'
    BY <1>7, <1>8, <2>2 DEF Quiet
  <2>5. Settled(q) => Settled(q)'
    BY <1>1, <1>11, <2>2, <2>4 DEF Settled, Connected
  <2> QED
    BY <1>1, <1>11, <1>12, <2>1, <2>2, <2>3, <2>5 DEF Stage
<1>13. WindowStage'
  <2>1. Current(readThread)' <=> Current(readThread)
    BY <1>1, <1>11 DEF Current
  <2> QED
    BY <1>1, <1>10, <1>11, <2>1 DEF LoginPhase, WindowStage
<1>14. \A z \in Sock : \A i \in 1..Len(asks'[z]) : asks'[z][i] # "data"
  <2>1. asks'[s] = Tail(asks[s])
    BY <1>1 DEF TypeOfNet
  <2>2. \A i \in 1..Len(asks'[s]) : asks'[s][i] # "data"
    BY <1>3, <2>1 DEF LoginPhase
  <2> QED
    BY <1>7, <2>2 DEF LoginPhase
<1> QED
  BY <1>1, <1>10, <1>11, <1>12, <1>13, <1>14 DEF LoginPhase

\* The log-in server ends.
LEMMA DropKept ==
    ASSUME TypeOfNet, LoginPhase, NEW s \in Sock, Drop(s)
    PROVE  LoginPhase'
<1>1. /\ link[s] = "up" /\ link' = [link EXCEPT ![s] = "down"]
      /\ UNCHANGED <<file, port, asks, inbox, clientSocket, readThread, buffer, at, sock, on, job>>
  BY DEF Drop, conn, reading
<1>2. ASSUME NEW z PROVE link'[z] = "raw" <=> link[z] = "raw"
  BY <1>1 DEF TypeOfNet
<1>3. \A q \in Reader : AtRest(q)' <=> AtRest(q)
  BY <1>1 DEF AtRest
<1>4. Front' = Front /\ (Quiet(Front)' <=> Quiet(Front)) /\ (OneRequest(Front)' <=> OneRequest(Front))
  <2>1. Front' = Front
    BY <1>1 DEF Front, File
  <2> QED
    BY <1>1, <2>1 DEF Quiet, OneRequest
<1>5. ASSUME NEW q \in Reader, Stage(q) PROVE Stage(q)'
  <2>1. Current(q)' <=> Current(q)
    BY <1>1, <1>2, <1>4 DEF Current
  <2>2. Behind(q)' = Behind(q)
    BY <1>1 DEF Behind, File
  <2>3. (Own(q)' <=> Own(q)) /\ (Settled(q)' <=> Settled(q))
    BY <1>1, <1>2, <1>4, <2>1, <2>2 DEF Own, Settled, Quiet, Connected
  <2> QED
    BY <1>1, <1>2, <1>4, <1>5, <2>1, <2>2, <2>3 DEF Stage
<1>6. WindowStage'
  <2>1. Current(readThread)' <=> Current(readThread)
    BY <1>1, <1>2, <1>4 DEF Current
  <2> QED
    BY <1>1, <1>2, <1>3, <1>4, <2>1 DEF LoginPhase, WindowStage
<1> QED
  BY <1>1, <1>3, <1>4, <1>5, <1>6 DEF LoginPhase

-----------------------------------------------------------------------------
(* The main server is connected, and keeps its reader.                     *)

\* A reader connects, to the main server if it can.
LEMMA MainConnected ==
    ASSUME TypeOfNet, TypeOfThreads, Sockets, LoginPhase, NEW r \in Reader, Connect(r)
    PROVE  LoginPhase' \/ \E m \in Sock : MainPhase(m)'
<1>0. r # Main /\ r \in Thread /\ Main \in Thread /\ Main \notin Reader /\ Reader \subseteq Thread
  BY DEF Main, Reader, Thread
<1> USE DEF net, conn, reading, Go, Null
<1>1. at[r] = "connect"
  BY DEF Connect
<1>2. ~AtRest(r)
  BY <1>1 DEF AtRest
<1>3. Front # 0 /\ link[Front] = "raw" /\ Behind(r) \in {0, Front}
  BY <1>1, <1>2 DEF LoginPhase, Stage
<1>4. at[Main] = "idle" /\ \A q \in Reader : q # r => AtRest(q)
  BY <1>1, <1>2, OthersRest DEF TypeOfThreads
<1>5. UNCHANGED <<file, asks, inbox, clientSocket, readThread, buffer, sock, on, job>>
  BY DEF Connect
<1>6. Front' = Front /\ Behind(r)' = Behind(r)
  BY <1>5 DEF Front, Behind, File
<1>7. CASE at' = [at EXCEPT ![r] = "ask"] /\ UNCHANGED <<link, port>>
  <2>1. at'[r] = "ask"
    BY <1>0, <1>7 DEF TypeOfThreads
  <2>2. Stage(r)'
    BY <1>3, <1>6, <1>7, <2>1 DEF Stage
  <2>3. PICK to \in {"ask"} : at' = [at EXCEPT ![r] = to]
    BY <1>7
  <2>4. at[r] \notin {"none", "start", "loop", "recv", "ended"} /\ to # "recv"
    BY <1>1
  <2> QED
    BY <1>5, <1>6, <1>7, <2>2, <2>3, <2>4, ReaderStep
<1>8. CASE /\ at' = [at EXCEPT ![r] = "create"]
           /\ link' = [link EXCEPT ![Front] = "up"]
           /\ port' = [port EXCEPT ![Front] = "main"]
  <2>1. PICK m \in Sock : m = Front
    <3>1. clientSocket \in Fd /\ Front = file[clientSocket]
      BY <1>3 DEF Front, File, TypeOfThreads, Fd
    <3> QED
      BY <1>3, <3>1 DEF TypeOfNet, Sock
  <2>2. /\ port'[m] = "main" /\ Front' = m
        /\ \A s \in Sock : s # m => port'[s] = "login"
    BY <1>6, <1>8, <2>1 DEF TypeOfNet, LoginPhase
  <2>3. asks[m] = <<>> /\ inbox[m] = <<>>
    BY <1>3, <2>1 DEF Sockets
  <2>4. /\ \A s \in Sock : \A i \in 1..Len(asks'[s]) : asks'[s][i] = "data" <=> s = m
        /\ \A i \in 1..Len(inbox'[m]) : inbox'[m][i].type = "push"
    <3>1. Len(<<>>) = 0 /\ 1..0 = {}
      OBVIOUS
    <3>2. \A i \in 1..Len(asks'[m]) : asks'[m][i] = "data"
      BY <1>5, <2>3, <3>1
    <3>3. \A i \in 1..Len(inbox'[m]) : inbox'[m][i].type = "push"
      BY <1>5, <2>3, <3>1
    <3>4. \A s \in Sock : s # m => \A i \in 1..Len(asks'[s]) : asks'[s][i] # "data"
      BY <1>5 DEF LoginPhase
    <3> QED
      BY <3>2, <3>3, <3>4
  <2>5. at'[r] = "create" /\ at'[Main] = "idle" /\ \A q \in Reader : q # r => at'[q] = at[q]
    BY <1>0, <1>4, <1>8 DEF TypeOfThreads
  <2>6. ASSUME NEW q \in Reader, q # r PROVE AtRest(q)'
    <3>1. AtRest(q) /\ (at[q] = "recv" => on[q] \in Sock /\ on[q] # m)
      BY <1>3, <1>4, <2>1, <2>6 DEF Sockets
    <3> QED
      BY <1>5, <2>2, <2>5, <2>6, <3>1 DEF AtRest
  <2>7. Serves(r, m)' /\ Attends(r, m)'
    BY <1>3, <1>6, <2>1, <2>5 DEF Serves, Attends
  <2>8. MainPhase(m)'
    BY <2>2, <2>4, <2>5, <2>6, <2>7 DEF MainPhase
  <2> QED
    BY <2>8
<1> QED
  BY <1>0, <1>1, <1>7, <1>8 DEF Connect, ServerPort, Front

-----------------------------------------------------------------------------
(* The connection to the main server.                                      *)

\* A reader that a step leaves alone serves the connection as before.
LEMMA ServesOn ==
    ASSUME NEW m \in Sock, NEW q \in Reader,
           at'[q] = at[q], on'[q] = on[q], sock'[q] = sock[q], job'[q] = job[q], file' = file,
           buffer' = buffer \/ buffer'[1].type \in {"push", "none"},
           readBool => readBool',
           AtRest(q) /\ at[q] = "recv" => UNCHANGED <<port[on[q]], asks[on[q]], inbox[on[q]]>>
    PROVE  /\ AtRest(q) \/ Serves(q, m) => AtRest(q)' \/ Serves(q, m)'
           /\ Attends(q, m) => Attends(q, m)'
<1>1. AtRest(q) => AtRest(q)'
  BY RestKept
<1>2. Behind(q)' = Behind(q)
  BY DEF Behind, File
<1>3. Serves(q, m) => Serves(q, m)'
  BY <1>2 DEF Serves
<1>4. Attends(q, m) => Attends(q, m)'
  BY <1>2 DEF Attends
<1> QED
  BY <1>1, <1>3, <1>4

\* One that attends to it is not at rest.
LEMMA AttendsIsBusy ==
    ASSUME NEW m \in Sock, MainPhase(m), NEW q \in Reader, Attends(q, m)
    PROVE  ~AtRest(q)
BY DEF Attends, AtRest, MainPhase

\* A step of one reader that keeps to its service.
LEMMA ServiceStep ==
    ASSUME TypeOfThreads, TypeOfNet, Sockets, NEW m \in Sock, MainPhase(m), NEW r \in Reader,
           NEW to, at' = [at EXCEPT ![r] = to],
           UNCHANGED <<file, clientSocket, port>>,
           \A q \in Reader : q # r => on'[q] = on[q] /\ sock'[q] = sock[q] /\ job'[q] = job[q],
           buffer' = buffer \/ buffer'[1].type \in {"push", "none"},
           readBool => readBool',
           \A s \in Sock : s # m => UNCHANGED <<asks[s], inbox[s]>>,
           \A i \in 1..Len(asks'[m]) : asks'[m][i] = "data",
           \A i \in 1..Len(inbox'[m]) : inbox'[m][i].type = "push",
           AtRest(r)' \/ Serves(r, m)',
           Attends(r, m) => Attends(r, m)'
    PROVE  MainPhase(m)'
<1>0. Main \in Thread /\ Main \notin Reader /\ Reader \subseteq Thread
  BY DEF Main, Reader, Thread
<1>1. at'[Main] = at[Main] /\ \A q \in Reader : q # r => at'[q] = at[q]
  BY <1>0 DEF TypeOfThreads
<1>2. ASSUME NEW q \in Reader, q # r
      PROVE  /\ AtRest(q)' \/ Serves(q, m)'
             /\ Attends(q, m) => Attends(q, m)'
  <2>1. AtRest(q) /\ at[q] = "recv" => on[q] \in Sock /\ on[q] # m
    BY DEF AtRest, MainPhase, Sockets
  <2>2. AtRest(q) /\ at[q] = "recv" => UNCHANGED <<port[on[q]], asks[on[q]], inbox[on[q]]>>
    BY <1>2, <2>1
  <2>3. AtRest(q) \/ Serves(q, m)
    BY DEF MainPhase
  <2> QED
    BY <1>1, <1>2, <2>2, <2>3, ServesOn
<1>3. \A q \in Reader : AtRest(q)' \/ Serves(q, m)'
  BY <1>2
<1>4. \E q \in Reader : Attends(q, m)'
  BY <1>2 DEF MainPhase
<1>5. Front' = Front
  BY DEF Front, File
<1>6. \A s \in Sock : \A i \in 1..Len(asks'[s]) : asks'[s][i] = "data" <=> s = m
  BY DEF MainPhase
<1> QED
  BY <1>1, <1>3, <1>4, <1>5, <1>6 DEF MainPhase

\* The main thread can only begin another request, and that one crosses.
LEMMA MainIsIdle ==
    ASSUME NEW m \in Sock, MainPhase(m), Window
    PROVE  crossed'
<1>1. ASSUME NEW type \in Type, Click(type) PROVE crossed'
  BY <1>1, AttendsIsBusy DEF Click, MainPhase
<1> QED
  BY <1>1 DEF Window, LoginButton, CreateAccountButton, Type, Opens, Disconnects, Socket, Connect,
     Create, Stop, Join, Close, Send, Handles, Go, MainPhase, Main, Reader

\* Every step of a reader.
LEMMA ServiceKept ==
    ASSUME TypeOfNet, TypeOfThreads, Sockets, NEW m \in Sock, MainPhase(m), NEW r \in Reader,
           Reads(r)
    PROVE  MainPhase(m)'
<1>0. /\ Main \in Thread /\ Main \notin Reader /\ Reader \subseteq Thread
      /\ r # Main /\ r \in Thread /\ m # 0
  BY DEF Main, Reader, Thread, Sock
<1> USE DEF net, conn, reading, past, Go, Null
<1>1. AtRest(r) \/ Serves(r, m)
  BY DEF MainPhase
<1>2. /\ Front = m /\ port[m] = "main" /\ link[m] = "up"
      /\ \A i \in 1..Len(asks[m]) : asks[m][i] = "data"
      /\ \A i \in 1..Len(inbox[m]) : inbox[m][i].type = "push"
      /\ asks[m] \in Seq(Request) /\ inbox[m] \in Seq(Packets)
  BY DEF MainPhase, Sockets, TypeOfNet
<1>3. ASSUME NEW to, at' = [at EXCEPT ![r] = to]
      PROVE  at'[r] = to
  BY <1>0, <1>3 DEF TypeOfThreads
<1>4. ASSUME UNCHANGED <<file, sock>> PROVE Behind(r)' = Behind(r)
  BY <1>4 DEF Behind, File
<1>5. CASE Start(r)
  <2>1. /\ at[r] = "start" /\ at' = [at EXCEPT ![r] = "loop"] /\ readBool' = TRUE
        /\ sock' = [sock EXCEPT ![r] = clientSocket]
        /\ UNCHANGED <<file, port, asks, inbox, clientSocket, buffer, on, job>>
    BY <1>5 DEF Start, Started
  <2>2. at'[r] = "loop" /\ sock'[r] = clientSocket /\ \A q \in Reader : q # r => sock'[q] = sock[q]
    BY <1>3, <2>1 DEF TypeOfThreads
  <2>3. Behind(r)' = m
    BY <1>2, <2>1, <2>2 DEF Behind, Front, File
  <2>4. Serves(r, m)' /\ Attends(r, m)'
    BY <2>1, <2>2, <2>3 DEF Serves, Attends
  <2> QED
    BY <1>2, <2>1, <2>2, <2>4, ServiceStep
<1>6. CASE Loop(r)
  <2>1. /\ at[r] = "loop" /\ Behind(r) \in {0, m}
        /\ UNCHANGED <<file, port, asks, inbox, clientSocket, buffer, job, readBool>>
    BY <1>1, <1>6 DEF Loop, AtRest, Serves
  <2>2. \/ /\ at' = [at EXCEPT ![r] = "recv"] /\ Behind(r) = m
           /\ on' = [on EXCEPT ![r] = m] /\ sock' = sock
        \/ /\ at' = [at EXCEPT ![r] = "ended"] /\ on' = on
           /\ sock' = [sock EXCEPT ![r] = 0] /\ ~(readBool /\ Behind(r) = m)
    BY <1>2, <1>6, <2>1, <1>0 DEF Loop, Behind, Connected
  <2>3. \A q \in Reader : q # r => on'[q] = on[q] /\ sock'[q] = sock[q]
    BY <2>2 DEF TypeOfThreads
  <2>4. ASSUME at' = [at EXCEPT ![r] = "recv"], Behind(r) = m, on' = [on EXCEPT ![r] = m], sock' = sock
        PROVE  MainPhase(m)'
    <3>1. at'[r] = "recv" /\ on'[r] = m /\ Behind(r)' = m
      BY <1>3, <1>4, <2>1, <2>4 DEF TypeOfThreads
    <3>2. Serves(r, m)' /\ (readBool => Attends(r, m)')
      BY <3>1, <2>1 DEF Serves, Attends
    <3>3. Attends(r, m) => readBool
      BY <2>1 DEF Attends
    <3> QED
      BY <1>2, <2>1, <2>3, <2>4, <3>2, <3>3, ServiceStep
  <2>5. ASSUME at' = [at EXCEPT ![r] = "ended"], ~(readBool /\ Behind(r) = m)
        PROVE  MainPhase(m)'
    <3>1. AtRest(r)'
      BY <1>3, <2>5 DEF AtRest
    <3>2. ~Attends(r, m)
      BY <2>1, <2>5 DEF Attends
    <3> QED
      BY <1>2, <2>1, <2>3, <2>5, <3>1, <3>2, ServiceStep
  <2> QED
    BY <2>2, <2>4, <2>5
<1>7. CASE Receive(r)
  <2>1. /\ at[r] = "recv" /\ at' = [at EXCEPT ![r] = "copy"]
        /\ inbox[on[r]] # <<>>
        /\ inbox' = [inbox EXCEPT ![on[r]] = Tail(@)]
        /\ buffer'[1] = Head(inbox[on[r]])
        /\ UNCHANGED <<file, port, asks, clientSocket, readBool, sock, on, job>>
    BY <1>7 DEF Receive
  <2>2. on[r] = m /\ Behind(r) \in {0, m}
    BY <1>1, <2>1 DEF AtRest, Serves
  <2>3. buffer'[1].type = "push"
    BY <1>2, <2>1, <2>2
  <2>4. /\ \A s \in Sock : s # m => inbox'[s] = inbox[s]
        /\ inbox'[m] = Tail(inbox[m])
    BY <2>1, <2>2 DEF TypeOfNet
  <2>5. \A i \in 1..Len(inbox'[m]) : inbox'[m][i].type = "push"
    <3>1. /\ Len(Tail(inbox[m])) = Len(inbox[m]) - 1 /\ Len(inbox[m]) \in Nat
          /\ \A i \in 1..Len(Tail(inbox[m])) : Tail(inbox[m])[i] = inbox[m][i + 1]
      BY <1>2, <2>1, <2>2
    <3> QED
      BY <1>2, <2>4, <3>1
  <2>6. at'[r] = "copy" /\ Behind(r)' = Behind(r)
    BY <1>3, <1>4, <2>1
  <2>7. Serves(r, m)' /\ (Attends(r, m) => Attends(r, m)')
    BY <2>1, <2>2, <2>3, <2>6 DEF Serves, Attends
  <2> QED
    BY <1>2, <2>1, <2>3, <2>4, <2>5, <2>7, ServiceStep
<1>8. CASE Closed(r)
  <2>1. /\ at[r] = "recv" /\ at' = [at EXCEPT ![r] = "ended"] /\ link[on[r]] = "down"
        /\ sock' = [sock EXCEPT ![r] = 0] /\ on' = [on EXCEPT ![r] = 0]
        /\ UNCHANGED <<file, port, asks, inbox, clientSocket, readBool, buffer, job>>
    BY <1>8 DEF Closed
  <2>2. on[r] # m
    BY <1>2, <2>1
  <2>3. AtRest(r)' /\ ~Attends(r, m)
    BY <1>3, <2>1, <2>2 DEF AtRest, Attends
  <2>4. \A q \in Reader : q # r => on'[q] = on[q] /\ sock'[q] = sock[q]
    BY <2>1 DEF TypeOfThreads
  <2> QED
    BY <1>2, <2>1, <2>3, <2>4, ServiceStep
<1>9. CASE Copy(r)
  <2>1. /\ at[r] = "copy" /\ at' = [at EXCEPT ![r] = "handle"]
        /\ UNCHANGED <<file, port, asks, inbox, clientSocket, readBool, buffer, sock, on>>
    BY <1>9 DEF Copy
  <2>2. Behind(r) \in {0, m} /\ buffer[1].type \in {"push", "none"}
    BY <1>1, <2>1 DEF AtRest, Serves
  <2>3. PICK packet \in Read(buffer[1], buffer[2]) : job' = [job EXCEPT ![r] = packet]
    BY <1>9 DEF Copy
  <2>4. packet.type \in {"push", "none"}
    <3>1. NoPacket.type = "none"
      BY DEF NoPacket, Packet
    <3> QED
      BY <2>2, <2>3, <3>1 DEF Read
  <2>5. /\ at'[r] = "handle" /\ Behind(r)' = Behind(r) /\ job'[r] = packet
        /\ \A q \in Reader : q # r => job'[q] = job[q]
    BY <1>0, <1>3, <1>4, <2>1, <2>3 DEF TypeOfThreads
  <2>6. Serves(r, m)' /\ (Attends(r, m) => Attends(r, m)')
    BY <2>1, <2>2, <2>4, <2>5 DEF Serves, Attends
  <2> QED
    BY <1>2, <2>1, <2>5, <2>6, ServiceStep
<1>10. CASE Clear(r)
  <2>1. /\ at[r] = "clear" /\ at' = [at EXCEPT ![r] = "loop"] /\ buffer' = Wiped
        /\ job' = [job EXCEPT ![r] = NoPacket] /\ on' = [on EXCEPT ![r] = 0]
        /\ UNCHANGED <<file, port, asks, inbox, clientSocket, readBool, sock>>
    BY <1>10 DEF Clear
  <2>2. Behind(r) \in {0, m}
    BY <1>1, <2>1 DEF AtRest, Serves
  <2>3. at'[r] = "loop" /\ Behind(r)' = Behind(r) /\ buffer'[1].type = "none"
    BY <1>3, <1>4, <2>1 DEF Wiped, NoPacket, Packet
  <2>4. \A q \in Reader : q # r => job'[q] = job[q] /\ on'[q] = on[q]
    BY <1>0, <2>1 DEF TypeOfThreads
  <2>5. Serves(r, m)' /\ (Attends(r, m) => Attends(r, m)')
    BY <2>1, <2>2, <2>3 DEF Serves, Attends
  <2> QED
    BY <1>2, <2>1, <2>3, <2>4, <2>5, ServiceStep
<1>11. CASE Pushed(r) \/ Invalid(r)
  <2>1. /\ at[r] = "handle" /\ at' = [at EXCEPT ![r] = "clear"]
        /\ UNCHANGED <<file, port, asks, inbox, clientSocket, readBool, buffer, sock, on, job>>
    BY <1>11 DEF Pushed, Invalid, Handles
  <2>2. Behind(r) \in {0, m}
    BY <1>1, <2>1 DEF AtRest, Serves
  <2>3. at'[r] = "clear" /\ Behind(r)' = Behind(r)
    BY <1>3, <1>4, <2>1
  <2>4. Serves(r, m)' /\ (Attends(r, m) => Attends(r, m)')
    BY <2>1, <2>2, <2>3 DEF Serves, Attends
  <2> QED
    BY <1>2, <2>1, <2>4, ServiceStep
<1>12. CASE RequestData(r)
  <2>1. at[r] = "ask" /\ Behind(r) \in {0, m}
    BY <1>1, <1>12 DEF RequestData, Handles, AtRest, Serves
  <2>2. /\ at' = [at EXCEPT ![r] = "clear"]
        /\ asks' = [asks EXCEPT ![m] = Append(@, "data")]
        /\ UNCHANGED <<file, port, inbox, clientSocket, readBool, buffer, sock, on, job>>
    BY <1>0, <1>2, <1>12, <2>1 DEF RequestData, Handles, Sendable, Front, Ask
  <2>3. /\ \A s \in Sock : s # m => asks'[s] = asks[s]
        /\ asks'[m] = Append(asks[m], "data")
    BY <2>2 DEF TypeOfNet
  <2>4. \A i \in 1..Len(asks'[m]) : asks'[m][i] = "data"
    BY <1>2, <2>3
  <2>5. at'[r] = "clear" /\ Behind(r)' = Behind(r)
    BY <1>3, <1>4, <2>2
  <2>6. Serves(r, m)' /\ ~Attends(r, m)
    BY <2>1, <2>5 DEF Serves, Attends
  <2> QED
    BY <1>2, <2>2, <2>3, <2>4, <2>6, ServiceStep
<1>13. CASE Create(r)
  <2>1. PICK new \in Reader : new = threads + 1
    BY <1>13, BoundsAssumption DEF Create, TypeOfNet, Reader
  <2>2. /\ at[r] = "create" /\ at' = [at EXCEPT ![new] = "start", ![r] = "ask"]
        /\ UNCHANGED <<file, port, asks, inbox, clientSocket, readBool, buffer, sock, on, job>>
    BY <1>0, <1>13, <2>1 DEF Create
  <2>3. at[new] = "none"
    BY <2>1 DEF Sockets, TypeOfNet
  <2>4. /\ at'[new] = "start" /\ at'[r] = "ask" /\ at'[Main] = at[Main]
        /\ \A q \in Reader : q \notin {new, r} => at'[q] = at[q]
    BY <1>0, <2>2, <2>3 DEF TypeOfThreads
  <2>5. Serves(new, m)' /\ Attends(new, m)'
    BY <2>4 DEF Serves, Attends
  <2>6. Behind(r) \in {0, m} /\ Behind(r)' = Behind(r)
    BY <1>1, <1>4, <2>2 DEF AtRest, Serves
  <2>7. Serves(r, m)'
    BY <2>4, <2>6 DEF Serves
  <2>8. ASSUME NEW q \in Reader, q \notin {new, r} PROVE AtRest(q)' \/ Serves(q, m)'
    BY <2>2, <2>4, <2>8, ServesOn DEF MainPhase
  <2>9. Front' = Front
    BY <2>2 DEF Front, File
  <2> QED
    BY <2>2, <2>4, <2>5, <2>7, <2>8, <2>9 DEF MainPhase
<1>14. ~(AccountReply(r) \/ FailReply(r) \/ FreeUserData(r) \/ Socket(r) \/ Connect(r)
         \/ Stop(r) \/ Join(r) \/ Close(r))
  BY <1>0, <1>1 DEF AtRest, Serves, AccountReply, FailReply, FreeUserData, Socket, Connect, Stop,
     Join, Close, Handles
<1> QED
  BY <1>5, <1>6, <1>7, <1>8, <1>9, <1>10, <1>11, <1>12, <1>13, <1>14 DEF Reads, Opens, Disconnects

\* Every step of a server.
LEMMA ServersKeepMain ==
    ASSUME TypeOfNet, TypeOfThreads, Sockets, NEW m \in Sock, MainPhase(m), NEW s \in Sock,
           Answer(s) \/ Push(s) \/ Drop(s)
    PROVE  MainPhase(m)'
<1>1. /\ \A z \in Sock : asks[z] \in Seq(Request) /\ inbox[z] \in Seq(Packets)
      /\ port[m] = "main" /\ Front = m
  BY DEF TypeOfNet, MainPhase
<1>2. UNCHANGED <<file, port, clientSocket, readBool, buffer, at, sock, on, job>>
  BY DEF Answer, Push, Drop, conn, reading
<1>3. /\ \A z \in Sock : \A i \in 1..Len(asks'[z]) : asks'[z][i] = "data" <=> z = m
      /\ \A i \in 1..Len(inbox'[m]) : inbox'[m][i].type = "push"
      /\ \A q \in Reader : AtRest(q) /\ at[q] = "recv" =>
             asks'[on[q]] = asks[on[q]] /\ inbox'[on[q]] = inbox[on[q]]
  <2>1. ASSUME NEW n, inbox' = [inbox EXCEPT ![m] = Append(@, Packet("push", n))]
        PROVE  \A i \in 1..Len(inbox'[m]) : inbox'[m][i].type = "push"
    <3>1. inbox'[m] = Append(inbox[m], Packet("push", n))
      BY <2>1 DEF TypeOfNet
    <3>2. Packet("push", n).type = "push" /\ \A i \in 1..Len(inbox[m]) : inbox[m][i].type = "push"
      BY DEF Packet, MainPhase
    <3> QED
      BY <1>1, <3>1, <3>2
  <2>2. ASSUME NEW q \in Reader, AtRest(q), at[q] = "recv"
        PROVE  on[q] \in Sock /\ on[q] # m /\ asks[on[q]] = <<>>
    BY <1>1, <2>2 DEF AtRest, Sockets
  <2>3. CASE Answer(s)
    <3>1. /\ asks[s] # <<>>
          /\ asks' = [asks EXCEPT ![s] = Tail(@)]
          /\ IF Head(asks[s]) = "data" /\ port[s] = "main"
             THEN inbox' = [inbox EXCEPT ![s] = Append(@, Packet("push", 1))]
             ELSE \E type \in Answers(s, Head(asks[s])) :
                      inbox' = [inbox EXCEPT ![s] = Append(@, Packet(type, 0))]
      BY <2>3 DEF Answer, Arrives
    <3>2. /\ Head(asks[s]) = asks[s][1] /\ 1 \in 1..Len(asks[s])
          /\ Len(Tail(asks[s])) = Len(asks[s]) - 1 /\ Len(asks[s]) \in Nat
          /\ \A i \in 1..Len(Tail(asks[s])) :
                 i + 1 \in 1..Len(asks[s]) /\ Tail(asks[s])[i] = asks[s][i + 1]
      BY <1>1, <3>1
    <3>3. asks'[s] = Tail(asks[s]) /\ \A z \in Sock : z # s => asks'[z] = asks[z]
      BY <3>1 DEF TypeOfNet
    <3>4. ASSUME NEW z \in Sock, NEW i \in 1..Len(asks'[z]) PROVE asks'[z][i] = "data" <=> z = m
      <4>1. \A j \in 1..Len(asks[z]) : asks[z][j] = "data" <=> z = m
        BY DEF MainPhase
      <4>2. CASE z # s
        BY <3>3, <3>4, <4>1, <4>2
      <4>3. CASE z = s
        <5>1. asks'[z] = Tail(asks[s]) /\ i \in 1..Len(Tail(asks[s]))
          BY <3>3, <3>4, <4>3
        <5>2. i + 1 \in 1..Len(asks[s]) /\ asks'[z][i] = asks[s][i + 1]
          BY <3>2, <5>1
        <5> QED
          BY <4>1, <4>3, <5>2
      <4> QED
        BY <4>2, <4>3
    <3>5. Head(asks[s]) = "data" <=> s = m
      BY <3>2 DEF MainPhase
    <3>6. CASE s = m
      <4>1. inbox' = [inbox EXCEPT ![m] = Append(@, Packet("push", 1))]
        BY <1>1, <3>1, <3>5, <3>6
      <4>2. \A z \in Sock : z # m => inbox'[z] = inbox[z]
        BY <4>1 DEF TypeOfNet
      <4> QED
        BY <2>1, <2>2, <3>3, <3>4, <3>6, <4>1, <4>2
    <3>7. CASE s # m
      <4>1. PICK type : inbox' = [inbox EXCEPT ![s] = Append(@, Packet(type, 0))]
        BY <3>1, <3>5, <3>7
      <4>2. \A z \in Sock : z # s => inbox'[z] = inbox[z]
        BY <4>1 DEF TypeOfNet
      <4>3. \A i \in 1..Len(inbox'[m]) : inbox'[m][i].type = "push"
        BY <3>7, <4>2 DEF MainPhase
      <4>4. \A q \in Reader : AtRest(q) /\ at[q] = "recv" => on[q] # s
        BY <2>2, <3>1
      <4> QED
        BY <2>2, <3>3, <3>4, <4>2, <4>3, <4>4
    <3> QED
      BY <3>6, <3>7
  <2>4. CASE Push(s)
    <3>1. /\ port[s] = "main" /\ asks' = asks
          /\ inbox' = [inbox EXCEPT ![s] = Append(@, Packet("push", pushed + 1))]
      BY <2>4 DEF Push, Arrives
    <3>2. s = m
      BY <3>1 DEF MainPhase
    <3>3. \A z \in Sock : z # m => inbox'[z] = inbox[z]
      BY <3>1, <3>2 DEF TypeOfNet
    <3>4. \A z \in Sock : \A i \in 1..Len(asks[z]) : asks[z][i] = "data" <=> z = m
      BY DEF MainPhase
    <3> QED
      BY <2>1, <2>2, <3>1, <3>2, <3>3, <3>4
  <2>5. CASE Drop(s)
    <3>1. asks' = asks /\ inbox' = inbox
      BY <2>5 DEF Drop
    <3> QED
      BY <3>1 DEF MainPhase
  <2> QED
    BY <2>3, <2>4, <2>5
<1>4. ASSUME NEW q \in Reader
      PROVE  /\ AtRest(q)' \/ Serves(q, m)'
             /\ Attends(q, m) => Attends(q, m)'
  <2>1. AtRest(q) /\ at[q] = "recv" => UNCHANGED <<port[on[q]], asks[on[q]], inbox[on[q]]>>
    BY <1>2, <1>3
  <2>2. AtRest(q) \/ Serves(q, m)
    BY DEF MainPhase
  <2> QED
    BY <1>2, <2>1, <2>2, ServesOn
<1>5. Front' = Front
  BY <1>2 DEF Front, File
<1>6. \E q \in Reader : Attends(q, m)'
  BY <1>4 DEF MainPhase
<1> QED
  BY <1>2, <1>3, <1>4, <1>5, <1>6 DEF MainPhase

\* No step leaves the two phases.
LEMMA RequestKept ==
    ASSUME TypeOfNet, TypeOfThreads, Sockets, RequestInv, ConnectionNext
    PROVE  RequestInv'
<1> SUFFICES ASSUME ~crossed' PROVE LoginPhase' \/ \E m \in Sock : MainPhase(m)'
  BY DEF RequestInv
<1>1. ~crossed
  <2>1. ASSUME NEW type \in Type, Click(type), crossed PROVE crossed'
    BY <2>1 DEF Click
  <2>2. ASSUME crossed' = crossed PROVE ~crossed
    BY <2>2
  <2>3. CASE Window
    BY <2>1, <2>2, <2>3 DEF Window, LoginButton, CreateAccountButton, Type, Opens, Disconnects,
       Socket, Connect, Create, Stop, Join, Close, Send, past
  <2>4. ASSUME NEW r \in Reader, Reads(r) PROVE crossed' = crossed
    BY <2>4 DEF Reads, Opens, Disconnects, Start, Loop, Receive, Closed, Copy, Clear, AccountReply,
       FailReply, FreeUserData, RequestData, Pushed, Invalid, Socket, Connect, Create, Stop, Join,
       Close, past
  <2>5. ASSUME NEW s \in Sock, Answer(s) \/ Push(s) \/ Drop(s) PROVE crossed' = crossed
    BY <2>5 DEF Answer, Push, Drop, past
  <2> QED
    BY <2>2, <2>3, <2>4, <2>5 DEF ConnectionNext
<1>2. CASE LoginPhase
  <2>1. ASSUME Window PROVE LoginPhase'
    BY <1>2, <2>1, WindowKept
  <2>2. ASSUME NEW r \in Reader, Reads(r) PROVE LoginPhase' \/ \E m \in Sock : MainPhase(m)'
    BY <1>2, <2>2, AnswerKept, LoopKept, AnswerRead, MainConnected DEF Reads, Opens, Disconnects
  <2>3. ASSUME NEW s \in Sock, Answer(s) \/ Push(s) \/ Drop(s) PROVE LoginPhase'
    <3>1. ~Push(s)
      BY <1>2 DEF Push, LoginPhase
    <3> QED
      BY <1>2, <2>3, <3>1, AnswerSent, DropKept
  <2> QED
    BY <2>1, <2>2, <2>3 DEF ConnectionNext
<1>3. ASSUME NEW m \in Sock, MainPhase(m) PROVE MainPhase(m)'
  <2>1. ~Window
    BY <1>3, MainIsIdle
  <2> QED
    BY <1>3, <2>1, ServiceKept, ServersKeepMain DEF ConnectionNext
<1> QED
  BY <1>1, <1>2, <1>3 DEF RequestInv

\* The client starts with no request.
LEMMA ConnectionStart == ConnectionInit => ConnectionInv
<1> SUFFICES ASSUME ConnectionInit PROVE ConnectionInv
  OBVIOUS
<1>0. /\ MaxSockets \in Nat \ {0} /\ MaxPushes \in Nat \ {0}
      /\ Main = 0 /\ Main \notin Reader /\ Thread = {0} \cup Reader /\ Null = 0
  BY BoundsAssumption DEF Main, Reader, Thread, Null
<1>1. /\ at[Main] = "idle" /\ \A r \in Reader : at[r] = "none"
      /\ at \in [Thread -> {"idle", "none"}]
  BY <1>0 DEF ConnectionInit
<1>2. NoPacket \in Packets /\ NoPacket.type = "none"
  BY <1>0 DEF NoPacket, Packet, Packets
<1>3. TypeOfNet
  BY <1>0 DEF TypeOfNet, ConnectionInit
<1>4. TypeOfThreads
  <2>1. /\ at \in [Thread -> ReaderSteps \cup WindowSteps]
        /\ at[Main] \in WindowSteps /\ \A r \in Reader : at[r] \in ReaderSteps
        /\ at[Main] \notin {"socket", "connect", "create", "send"}
    BY <1>1 DEF ReaderSteps, WindowSteps
  <2>2. buffer \in Packets \X BOOLEAN /\ job \in [Thread -> Packets]
    BY <1>2 DEF ConnectionInit
  <2>3. sock \in [Reader -> 0..MaxSockets] /\ on \in [Reader -> 0..MaxSockets]
    BY <1>0 DEF ConnectionInit
  <2>4. handled \in [1..MaxPushes -> 0..2]
    BY <1>0 DEF ConnectionInit
  <2>5. /\ clientSocket \in 0..MaxSockets /\ readThread \in 0..MaxSockets
        /\ window \in {"login", "chat"} /\ pushed \in 0..MaxPushes /\ clicks \in Nat
    BY <1>0 DEF ConnectionInit
  <2>6. /\ readBool \in BOOLEAN /\ crossed \in BOOLEAN /\ shared \in BOOLEAN /\ alive \in BOOLEAN
        /\ joined \subseteq 0..MaxSockets
    BY Zenon DEF ConnectionInit
  <2> QED
    BY <2>1, <2>2, <2>3, <2>4, <2>5, <2>6 DEF TypeOfThreads
<1>5. Sockets
  BY <1>0, <1>1 DEF Sockets, ConnectionInit, Reader, Fd, Sock
<1>6. PacketInv
  <2>1. \A s \in Sock : inbox[s] = <<>> /\ 1..Len(inbox[s]) = {}
    BY DEF ConnectionInit
  <2>2. \A r \in Reader : job[r] = NoPacket
    BY <1>0 DEF ConnectionInit
  <2>3. PushesDiffer
    BY <1>2, <2>1, <2>2 DEF PushesDiffer, ConnectionInit
  <2>4. \A r \in Reader : ~Between(r)
    BY <1>1 DEF Between
  <2>5. OneBuffer
    BY <1>1, <2>1, <2>4 DEF OneBuffer, OneBetween, ConnectionInit, Wiped
  <2> QED
    BY <2>3, <2>5 DEF PacketInv
<1>7. LoginPhase
  <2>1. \A r \in Reader : AtRest(r)
    BY <1>1 DEF AtRest
  <2>2. WindowStage
    BY <1>1 DEF WindowStage
  <2> QED
    BY <1>1, <2>1, <2>2 DEF LoginPhase, ConnectionInit
<1> QED
  BY <1>3, <1>4, <1>5, <1>6, <1>7 DEF ConnectionInv, RequestInv

\* Nothing else changes.
LEMMA ConnectionStutter == ConnectionInv /\ UNCHANGED connectionVars => ConnectionInv'
<1> SUFFICES ASSUME ConnectionInv, UNCHANGED connectionVars PROVE ConnectionInv'
  OBVIOUS
<1> USE DEF connectionVars, net, conn, reading, past
<1>1. TypeOfNet'
  BY DEF ConnectionInv, TypeOfNet
<1>2. TypeOfThreads'
  BY DEF ConnectionInv, TypeOfThreads
<1>3. Sockets'
  BY DEF ConnectionInv, Sockets
<1>4. PacketInv'
  BY UntouchedStep DEF ConnectionInv, Untouched
<1>5. RequestInv'
  BY SamePhase DEF ConnectionInv, RequestInv, phaseVars
<1> QED
  BY <1>1, <1>2, <1>3, <1>4, <1>5 DEF ConnectionInv

-----------------------------------------------------------------------------
(* The theorems.                                                           *)

\* The inductive invariant of the client's connections.
THEOREM ConnectionInvariance == ConnectionSpec => []ConnectionInv
<1>1. ConnectionInv /\ ConnectionNext => ConnectionInv'
  BY NetTypesKept, ThreadTypesKept, SocketsKept, PacketsKept, RequestKept DEF ConnectionInv
<1>2. ConnectionInv /\ [ConnectionNext]_connectionVars => ConnectionInv'
  BY <1>1, ConnectionStutter
<1> QED
  BY <1>2, ConnectionStart, PTL DEF ConnectionSpec

\* While no two readers are between recv and memset, what is taken from a socket
\* is dealt with once (read_thread_core, client.c; packet_buffer).
THEOREM PacketsHandledOnce == ConnectionSpec => []HandledOnceAlone
<1>1. ConnectionInv => HandledOnceAlone
  BY DEF ConnectionInv, PacketInv, OneBuffer, HandledOnceAlone
<1> QED
  BY <1>1, ConnectionInvariance, PTL

\* The data request, which carries the session key, is sent to the main server
\* only, unless a log-in or a creation was begun while another was under way
\* (main_server_connect, recognize_packet).
THEOREM KeyGoesToMain == ConnectionSpec => []KeyGoesToMainAlone
<1>1. ConnectionInv => KeyGoesToMainAlone
  <2> SUFFICES ASSUME ConnectionInv, ~crossed,
                      NEW s \in Sock, NEW i \in 1..Len(asks[s]), asks[s][i] = "data"
               PROVE  port[s] = "main"
    BY DEF KeyGoesToMainAlone
  <2>1. ~LoginPhase
    BY DEF LoginPhase
  <2>2. PICK m \in Sock : MainPhase(m)
    BY <2>1 DEF ConnectionInv, RequestInv
  <2> QED
    BY <2>2 DEF MainPhase
<1> QED
  BY <1>1, ConnectionInvariance, PTL

\* Under the same condition the connection to the main server always has a
\* reader, although read_thread_bool was cleared by the one that made it
\* (disconnect_any_server, read_thread_core).
THEOREM MainKeepsReader == ConnectionSpec => []MainHasReaderAlone
<1>1. ConnectionInv => MainHasReaderAlone
  <2> SUFFICES ASSUME ConnectionInv, ~crossed, NEW s \in Sock, port[s] = "main"
               PROVE  \E r \in Reader : at[r] = "create" \/ ReadsOn(r, s)
    BY DEF MainHasReaderAlone
  <2>1. ~LoginPhase
    BY DEF LoginPhase
  <2>2. PICK m \in Sock : MainPhase(m)
    BY <2>1 DEF ConnectionInv, RequestInv
  <2>3. m = s
    BY <2>2 DEF MainPhase
  <2>4. PICK r \in Reader : Attends(r, s)
    BY <2>2, <2>3 DEF MainPhase
  <2>5. at[r] = "create" \/ ReadsOn(r, s)
    BY <2>2, <2>3, <2>4 DEF Attends, ReadsOn, Front, Behind, Between, MainPhase
  <2> QED
    BY <2>5
<1> QED
  BY <1>1, ConnectionInvariance, PTL
=============================================================================
