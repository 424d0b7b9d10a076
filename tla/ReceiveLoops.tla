---------------------------- MODULE ReceiveLoops ----------------------------
(***************************************************************************)
(* How the two server processes take packets from their clients            *)
(* (server_thread of server.c, login_thread of login.c and the two accept  *)
(* loops).  A process accepts in one thread, which hands the address of    *)
(* its one newSocket to a new thread per connection, and all threads of a  *)
(* process receive into one static buffer.  A step is one system call or   *)
(* one access to what the threads share.  What a packet asks for is in     *)
(* Accounts, RoomMessages, Friends, Presence and LoginTransfer.            *)
(***************************************************************************)
EXTENDS Integers, Sequences, FiniteSets

CONSTANTS Conn,       \* connections of clients
          MaxFd,      \* bound: process -> the descriptors it may have
          MaxThreads, \* bound: threads of both processes at a time
          MaxSends    \* bound: packets of a connection

Process == {"login", "main"}
ASSUME BoundsAssumption ==
    MaxFd \in [Process -> Nat \ {0}] /\ {MaxThreads, MaxSends} \subseteq Nat \ {0}

Fd      == 1..(MaxFd["login"] + MaxFd["main"])
Thread  == 1..MaxThreads
None    == 0
Nobody  == "nobody"
ASSUME NobodyAssumption == Nobody \notin Conn

Invalid == <<Nobody, 0>>

VARIABLES
    phase,     \* of each connection: "new", "queued", "open", "closed"
    at,        \* the process it was made to
    stream,    \* bytes that were not received yet, as packets
    sends,     \* packets sent
    replies,   \* what came back: <<packet, taken>>
    file,      \* the descriptors of each process
    newSocket, \* of each process: a descriptor, or None for -1
    accepting, \* the next step of each accept loop: "accept" or "create"
    buffer,    \* server_packet_buffer and packet_buffer
    pc,        \* the next step of each thread
    home,      \* its process
    sock,      \* its newSocket
    packet,    \* its copy of the buffer
    got,       \* history: the packet its recv returned
    slipped,   \* history: processes that accepted before a thread had its socket
    spoilt,    \* history: processes whose buffer changed before a thread's copy
    merged     \* history: connections of which one recv returned two packets

clients == <<phase, at, sends>>
threads == <<pc, home, sock, packet, got>>
history == <<slipped, spoilt, merged>>
vars    == <<clients, stream, replies, file, newSocket, accepting, buffer, threads, history>>

Init ==
    /\ phase = [c \in Conn |-> "new"]
    /\ at = [c \in Conn |-> "login"]
    /\ stream = [c \in Conn |-> <<>>]
    /\ sends = [c \in Conn |-> 0]
    /\ replies = [c \in Conn |-> {}]
    /\ file = [p \in Process |-> [f \in Fd |-> Nobody]]
    /\ newSocket = [p \in Process |-> None]
    /\ accepting = [p \in Process |-> "accept"]
    /\ buffer = [p \in Process |-> Invalid]
    /\ pc = [t \in Thread |-> "none"]
    /\ home = [t \in Thread |-> "login"]
    /\ sock = [t \in Thread |-> None]
    /\ packet = [t \in Thread |-> Invalid]
    /\ got = [t \in Thread |-> Invalid]
    /\ slipped = {} /\ spoilt = {} /\ merged = {}

-----------------------------------------------------------------------------
(* The clients *)

Dial(c, p) ==
    /\ phase[c] = "new"
    /\ phase' = [phase EXCEPT ![c] = "queued"]
    /\ at' = [at EXCEPT ![c] = p]
    /\ UNCHANGED <<stream, sends, replies, file, newSocket, accepting, buffer, threads, history>>

SendPacket(c) ==
    /\ phase[c] \in {"queued", "open"} /\ sends[c] < MaxSends
    /\ at[c] = "login" => sends[c] = 0
    /\ sends' = [sends EXCEPT ![c] = @ + 1]
    /\ stream' = [stream EXCEPT ![c] = Append(@, <<c, sends[c] + 1>>)]
    /\ UNCHANGED <<phase, at, replies, file, newSocket, accepting, buffer, threads, history>>

Hang(c) ==
    /\ phase[c] = "open"
    /\ phase' = [phase EXCEPT ![c] = "closed"]
    /\ UNCHANGED <<at, stream, sends, replies, file, newSocket, accepting, buffer, threads, history>>

-----------------------------------------------------------------------------
(* The accept loops *)

Free(p) == {f \in 1..MaxFd[p] : file[p][f] = Nobody}

Waiting(p) == \E t \in Thread : pc[t] = "start" /\ home[t] = p

Accept(p) ==
    /\ accepting[p] = "accept"
    /\ accepting' = [accepting EXCEPT ![p] = "create"]
    /\ slipped' = IF Waiting(p) THEN slipped \cup {p} ELSE slipped
    /\ \/ \E c \in Conn, f \in Free(p) :
            /\ phase[c] = "queued" /\ at[c] = p
            /\ \A g \in Free(p) : f <= g
            /\ phase' = [phase EXCEPT ![c] = "open"]
            /\ file' = [file EXCEPT ![p][f] = c]
            /\ newSocket' = [newSocket EXCEPT ![p] = f]
       \/ \* No descriptor is left: -1 is given to a thread like any other.
          /\ Free(p) = {} /\ \E c \in Conn : phase[c] = "queued" /\ at[c] = p
          /\ newSocket' = [newSocket EXCEPT ![p] = None]
          /\ UNCHANGED <<phase, file>>
    /\ UNCHANGED <<at, stream, sends, replies, buffer, threads, spoilt, merged>>

Create(p, t) ==
    /\ accepting[p] = "create"
    /\ pc[t] = "none" /\ \A u \in Thread : pc[u] = "none" => t <= u
    /\ accepting' = [accepting EXCEPT ![p] = "accept"]
    /\ pc' = [pc EXCEPT ![t] = "start"]
    /\ home' = [home EXCEPT ![t] = p]
    /\ UNCHANGED <<clients, stream, replies, file, newSocket, buffer, sock, packet, got, history>>

-----------------------------------------------------------------------------
(* The threads *)

Go(t, from, to) == pc[t] = from /\ pc' = [pc EXCEPT ![t] = to]

\* Fault: the thread looks at the accept loop's variable again.
LatePeer(t) ==
    IF newSocket[home[t]] = None THEN Nobody ELSE file[home[t]][newSocket[home[t]]]

Peer(t) == IF sock[t] = None THEN Nobody ELSE file[home[t]][sock[t]]

\* Fault: the answer is made and not sent.
Unsent(t, answer) == replies

\* send_state_packet and the like: to the socket, if it is one.
Replies(t, answer) ==
    IF Peer(t) = Nobody THEN replies ELSE [replies EXCEPT ![Peer(t)] = @ \cup {answer}]

\* A thread's variables when it has ended.
Ended(t) ==
    /\ sock' = [sock EXCEPT ![t] = None]
    /\ packet' = [packet EXCEPT ![t] = Invalid]
    /\ got' = [got EXCEPT ![t] = Invalid]
    /\ home' = [home EXCEPT ![t] = "login"]

\* *((int *)arg) is newSocket as it is by now.
Start(t) ==
    /\ Go(t, "start", "recv")
    /\ sock' = [sock EXCEPT ![t] = newSocket[home[t]]]
    /\ UNCHANGED <<clients, stream, replies, file, newSocket, accepting, buffer, home, packet,
                   got, history>>

\* A thread of the process has received and not copied yet.
Copying(p, t) == \E u \in Thread \ {t} : home[u] = p /\ pc[u] = "copy"

Spoils(t) == spoilt' = IF Copying(home[t], t) THEN spoilt \cup {home[t]} ELSE spoilt

\* recv returns what has arrived: one packet, or all of them as one.
Receive(t) ==
    LET c == Peer(t) IN
    /\ Go(t, "recv", "copy")
    /\ c # Nobody /\ stream[c] # <<>>
    /\ got' = [got EXCEPT ![t] = Head(stream[c])]
    /\ buffer' = [buffer EXCEPT ![home[t]] = Head(stream[c])]
    /\ Spoils(t)
    /\ \/ stream' = [stream EXCEPT ![c] = Tail(@)] /\ UNCHANGED merged
       \/ /\ Len(stream[c]) > 1
          /\ stream' = [stream EXCEPT ![c] = <<>>] /\ merged' = merged \cup {c}
    /\ UNCHANGED <<clients, replies, file, newSocket, accepting, home, sock, packet, slipped>>

\* n == 0, or -1 for a descriptor that is not open.  login_thread sends fail and
\* ends, as for every n <= 4; server_thread cleans up after its user (Presence).
NoPacket(t) ==
    LET c == Peer(t) IN
    /\ c # Nobody => stream[c] = <<>> /\ phase[c] = "closed"
    /\ \/ home[t] = "main" /\ Go(t, "recv", "close")
          /\ UNCHANGED <<home, sock, packet, got>>
       \/ home[t] = "login" /\ Go(t, "recv", "none") /\ Ended(t)
    /\ UNCHANGED <<clients, stream, replies, file, newSocket, accepting, buffer, history>>

\* memcpy of n bytes: the thread's own packet, or the beginning of another's
\* with what is left of its own, or zeros.
Bytes(t) ==
    IF buffer[home[t]] = got[t] THEN {got[t]} ELSE {buffer[home[t]], Invalid}

Copy(t) ==
    /\ Go(t, "copy", "handle")
    /\ \E bytes \in Bytes(t) : packet' = [packet EXCEPT ![t] = bytes]
    /\ UNCHANGED <<clients, stream, replies, file, newSocket, accepting, buffer, home, sock,
                   got, history>>

\* recognize_packet or recognize_login_packet, and the answer to this socket.
Handle(t) ==
    /\ Go(t, "handle", "wipe")
    /\ replies' = Replies(t, <<packet[t], packet[t] # Invalid>>)
    /\ UNCHANGED <<clients, stream, file, newSocket, accepting, buffer, home, sock, packet,
                   got, history>>

\* memset; login_thread has done its work and leaves the socket open.
Wipe(t) ==
    /\ buffer' = [buffer EXCEPT ![home[t]] = Invalid]
    /\ Spoils(t)
    /\ \/ /\ home[t] = "main" /\ Go(t, "wipe", "recv")
          /\ packet' = [packet EXCEPT ![t] = Invalid]
          /\ got' = [got EXCEPT ![t] = Invalid]
          /\ UNCHANGED <<home, sock>>
       \/ home[t] = "login" /\ Go(t, "wipe", "none") /\ Ended(t)
    /\ UNCHANGED <<clients, stream, replies, file, newSocket, accepting, slipped, merged>>

\* Fault: the descriptor is closed only when a client's connection failed.
Leaked(t) == file

Released(t) == IF sock[t] = None THEN file ELSE [file EXCEPT ![home[t]][sock[t]] = Nobody]

Close(t) ==
    /\ Go(t, "close", "none")
    /\ file' = Released(t)
    /\ Ended(t)
    /\ UNCHANGED <<clients, stream, replies, newSocket, accepting, buffer, history>>

Serve(t) ==
    \/ Start(t) \/ Receive(t) \/ NoPacket(t)
    \/ Copy(t) \/ Handle(t) \/ Wipe(t) \/ Close(t)

Loop(p) == Accept(p) \/ \E t \in Thread : Create(p, t)

Client(c) == (\E p \in Process : Dial(c, p)) \/ SendPacket(c) \/ Hang(c)

Next ==
    \/ \E c \in Conn : Client(c)
    \/ \E p \in Process : Loop(p)
    \/ \E t \in Thread : Serve(t)

\* The threads of both processes run; clients do as they like.
Spec ==
    /\ Init /\ [][Next]_vars
    /\ \A p \in Process : WF_vars(Loop(p))
    /\ \A t \in Thread : WF_vars(Serve(t))

-----------------------------------------------------------------------------
(* Properties *)

\* What a client is answered is about its own packet and nobody else's, unless
\* accept returned before an earlier thread had read newSocket, or a thread
\* received or wiped while another had still to copy the buffer.
OwnAnswersAlone ==
    \A c \in Conn : at[c] \notin slipped \cup spoilt =>
        \A answer \in replies[c] : answer[1][1] = c /\ answer[2]

Serves(t, f) ==
    /\ home[t] = "main"
    /\ \/ pc[t] = "start" /\ newSocket["main"] = f
       \/ pc[t] \notin {"none", "start"} /\ sock[t] = f

\* Every open connection of the main server has one thread, and no thread uses
\* a descriptor that is not open, unless accept was too early.
ServedByOneAlone ==
    "main" \notin slipped => \A f \in Fd :
        LET ahead == accepting["main"] = "create" /\ newSocket["main"] = f
            those == {t \in Thread : Serves(t, f)}
        IN  Cardinality(those) = IF file["main"][f] = Nobody \/ ahead THEN 0 ELSE 1

\* A packet to the main server is answered in the end, unless threads met in
\* the buffer, accept was too early, or TCP joined packets.
PacketsAnsweredAlone ==
    \A c \in Conn, n \in 1..MaxSends :
        (at[c] = "main" /\ phase[c] = "open" /\ sends[c] >= n)
            ~> \/ <<<<c, n>>, TRUE>> \in replies[c]
               \/ phase[c] = "closed" \/ c \in merged \/ "main" \in slipped \cup spoilt
=============================================================================
