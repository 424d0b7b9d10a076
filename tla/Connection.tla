----------------------------- MODULE Connection -----------------------------
(***************************************************************************)
(* The client's connections (client.c): the GTK main thread opens one to   *)
(* the log-in server for every log-in and every account creation, each     *)
(* with a thread that reads it.  The reader that gets a session key closes *)
(* its own connection and opens the one to the main server.  All share the *)
(* fields of user_data.conn, the flag read_thread_bool and packet_buffer,  *)
(* and a closed descriptor is the next one to be used.  Thread 0 is the    *)
(* main thread, thread i the i-th reader; a step is one system call or one *)
(* access to what is shared.                                               *)
(***************************************************************************)
EXTENDS Integers, Sequences, FiniteSets

CONSTANTS MaxSockets, \* bound: sockets the client opens
          MaxClicks,  \* bound: log-ins and account creations
          MaxPushes,  \* bound: packets of the main server
          MaxDrops    \* bound: connections that a server closes

ASSUME BoundsAssumption == 
    {MaxSockets, MaxClicks, MaxPushes} \subseteq Nat \ {0} /\ MaxDrops \in Nat

Main   == 0
Reader == 1..MaxSockets
Thread == {Main} \cup Reader
Sock   == 1..MaxSockets
Fd     == 1..MaxSockets
Null   == 0
Type   == {"login", "register"}

VARIABLES
    made,    \* sockets opened so far
    threads, \* readers created so far
    file,    \* descriptor -> socket, or Null
    link,    \* socket -> "raw", "up" (connected), "down" (the peer closed it)
    port,    \* socket -> "login" or "main"
    asks,    \* requests the server has of each socket
    inbox,   \* packets that have arrived at each socket
    clientSocket, \* user_data.conn: a descriptor, or Null
    readThread,   \* user_data.conn: a reader, or Null
    readBool,     \* read_thread_bool
    buffer,  \* packet_buffer: <<packet, not mixed with an older one>>
    at,      \* the next step of each thread
    sock,    \* newSocket of each reader
    on,      \* the socket its recv was called for
    job,     \* the packet a reader deals with, the request of the main thread
    window,  \* "login" or "chat"
    pushed,  \* packets the main server has sent
    handled, \* history: how often each of them was dealt with
    joined,  \* history: readers pthread_join has returned for
    crossed, \* history: a click came while an earlier request was under way
    shared,  \* history: two readers were between recv and memset
    clicks,
    alive

conn    == <<clientSocket, readThread>>
net     == <<made, file, link, port, asks, inbox>>
reading == <<buffer, sock, on, job>>
past    == <<handled, joined, crossed, shared, clicks>>
connectionVars ==
    <<threads, net, conn, readBool, reading, at, window, pushed, past, alive>>

Packet(type, n) == [type |-> type, n |-> n]
NoPacket        == Packet("none", 0)

ConnectionInit ==
    /\ made = 0 /\ threads = 0
    /\ file  = [f \in Fd |-> Null]
    /\ link  = [s \in Sock |-> "raw"]
    /\ port  = [s \in Sock |-> "login"]
    /\ asks  = [s \in Sock |-> <<>>]
    /\ inbox = [s \in Sock |-> <<>>]
    /\ clientSocket = Null /\ readThread = Null
    /\ readBool = TRUE
    /\ buffer = <<NoPacket, TRUE>>
    /\ at   = [t \in Thread |-> IF t = Main THEN "idle" ELSE "none"]
    /\ sock = [r \in Reader |-> Null]
    /\ on   = [r \in Reader |-> Null]
    /\ job  = [t \in Thread |-> NoPacket]
    /\ window = "login"
    /\ pushed = 0
    /\ handled = [n \in 1..MaxPushes |-> 0]
    /\ joined = {}
    /\ crossed = FALSE /\ shared = FALSE
    /\ clicks = 0
    /\ alive = TRUE

Go(t, from, to) == alive /\ at[t] = from /\ at' = [at EXCEPT ![t] = to]

Handles(r, type, to) == job[r].type = type /\ Go(r, "handle", to)

\* The socket behind a descriptor.
File(f) == IF f = Null THEN Null ELSE file[f]

-----------------------------------------------------------------------------
(* The window *)

\* A reader is at rest when nothing is to come on its connection.
AtRest(r) ==
    \/ at[r] \in {"none", "ended"}
    \/ at[r] = "recv" /\ port[on[r]] = "login" /\ asks[on[r]] = <<>> /\ inbox[on[r]] = <<>>

\* start_request, then log_in or create_account.  An earlier request of the type
\* may have been settled by its time-out, so none need be remembered (Requests).
Click(type) ==
    /\ Go(Main, "idle", "socket")
    /\ clicks < MaxClicks /\ clicks' = clicks + 1
    /\ window = "login"
    /\ job' = [job EXCEPT ![Main] = Packet(type, 0)]
    /\ crossed' = (crossed \/ \E r \in Reader : ~AtRest(r))
    /\ UNCHANGED <<threads, net, conn, readBool, buffer, sock, on, window, pushed,
                   handled, joined, shared, alive>>

\* on_login_button, on_create_account_button
LoginButton         == Click("login")
CreateAccountButton == Click("register")

-----------------------------------------------------------------------------
(* login_server_connect by the main thread, main_server_connect by a reader *)

Lowest == CHOOSE f \in Fd : file[f] = Null /\ \A g \in Fd : file[g] = Null => f <= g

Socket(t) ==
    /\ Go(t, "socket", "connect")
    /\ made < MaxSockets
    /\ made' = made + 1
    /\ file' = [file EXCEPT ![Lowest] = made + 1]
    /\ clientSocket' = Lowest
    /\ UNCHANGED <<threads, link, port, asks, inbox, readThread, readBool, reading, window,
                   pushed, past, alive>>

\* Fault: one port for both servers.
LoginPort(t) == "login"

\* LOGIN_PORT and MAIN_PORT
ServerPort(t) == IF t = Main THEN "login" ELSE "main"

\* connect uses the descriptor that is in user_data.conn now.
Connect(t) ==
    LET s == File(clientSocket) IN
    \/ /\ Go(t, "connect", "create")
       /\ s # Null /\ link[s] = "raw"
       /\ link' = [link EXCEPT ![s] = "up"]
       /\ port' = [port EXCEPT ![s] = ServerPort(t)]
       /\ UNCHANGED <<threads, made, file, asks, inbox, conn, readBool, reading, window,
                      pushed, past, alive>>
    \/ \* No server, or not a socket to connect.  A reader goes on all the same.
       /\ Go(t, "connect", IF t = Main THEN "idle" ELSE "ask")
       /\ UNCHANGED <<threads, net, conn, readBool, reading, window, pushed, past, alive>>

Handle == threads + 1

Create(t) ==
    /\ alive /\ at[t] = "create"
    /\ threads < MaxSockets
    /\ threads' = threads + 1
    /\ readThread' = Handle
    /\ at' = [at EXCEPT ![threads + 1] = "start", ![t] = IF t = Main THEN "send" ELSE "ask"]
    /\ UNCHANGED <<net, clientSocket, readBool, reading, window, pushed, past, alive>>

-----------------------------------------------------------------------------
(* log_in and create_account send the request; disconnect_any_server *)

Sendable(s) == s # Null /\ link[s] = "up"

Ask(s, type) == [asks EXCEPT ![s] = Append(@, type)]

Send ==
    LET s == File(clientSocket) IN
    \/ /\ Go(Main, "send", "idle")
       /\ Sendable(s)
       /\ asks' = Ask(s, job[Main].type)
       /\ UNCHANGED <<threads, made, file, link, port, inbox, conn, readBool, reading, window,
                      pushed, past, alive>>
    \/ \* It failed three times.
       /\ Go(Main, "send", "stop")
       /\ ~Sendable(s)
       /\ UNCHANGED <<threads, net, conn, readBool, reading, window, pushed, past, alive>>

\* After a key the reader disconnects at once.
Stop(t) ==
    /\ Go(t, "stop", "join") \/ Handles(t, "key", "join")
    /\ readBool' = FALSE
    /\ UNCHANGED <<threads, net, conn, reading, window, pushed, past, alive>>

\* Joining oneself fails with EDEADLK.  Joining no thread, or one that was
\* joined before, is undefined.
Join(t) ==
    \/ /\ Go(t, "join", "close")
       /\ \/ t # Main /\ readThread = t /\ UNCHANGED joined
          \/ /\ readThread # Null /\ at[readThread] = "ended"
             /\ joined' = joined \cup {readThread}
       /\ UNCHANGED <<threads, net, conn, readBool, reading, window, pushed,
                      handled, crossed, shared, clicks, alive>>
    \/ /\ alive /\ at[t] = "join"
       /\ readThread \in {Null} \cup joined
       /\ alive' = FALSE
       /\ UNCHANGED <<threads, net, conn, readBool, reading, at, window, pushed, past>>

AfterClose(t) ==
    IF t = Main THEN "idle" ELSE IF job[t].type = "accc" THEN "clear" ELSE "socket"

Close(t) ==
    /\ Go(t, "close", AfterClose(t))
    /\ file' = IF clientSocket = Null THEN file ELSE [file EXCEPT ![clientSocket] = Null]
    /\ UNCHANGED <<threads, made, link, port, asks, inbox, conn, readBool, reading, window,
                   pushed, handled, joined, crossed, shared, clicks, alive>>

-----------------------------------------------------------------------------
(* read_thread_core *)

\* Fault: the flag is left as disconnect_any_server set it.
Unset == readBool

Started == TRUE

\* The argument is the address of user_data.conn.clientSocket.
Start(r) ==
    /\ Go(r, "start", "loop")
    /\ readBool' = Started
    /\ sock' = [sock EXCEPT ![r] = clientSocket]
    /\ UNCHANGED <<threads, net, conn, buffer, on, job, window, pushed, past, alive>>

Connected(s) == s # Null /\ link[s] # "raw"

\* The loop's condition; recv keeps the socket its descriptor stands for now.
Loop(r) ==
    LET s == File(sock[r]) IN
    \/ /\ Go(r, "loop", "recv")
       /\ readBool /\ Connected(s)
       /\ on' = [on EXCEPT ![r] = s]
       /\ UNCHANGED <<threads, net, conn, readBool, buffer, sock, job, window, pushed, past, alive>>
    \/ /\ Go(r, "loop", "ended")
       /\ ~(readBool /\ Connected(s))
       /\ sock' = [sock EXCEPT ![r] = Null]
       /\ UNCHANGED <<threads, net, conn, readBool, buffer, on, job, window, pushed, past, alive>>

Between(r) == at[r] \in {"copy", "handle", "free", "ask", "stop", "join", "close",
                         "socket", "connect", "create", "clear"}

\* Bytes of a longer packet that was not cleared stay behind a shorter one.
Receive(r) ==
    /\ Go(r, "recv", "copy")
    /\ inbox[on[r]] # <<>>
    /\ inbox' = [inbox EXCEPT ![on[r]] = Tail(@)]
    /\ \E clean \in {buffer[1] = NoPacket, TRUE} : buffer' = <<Head(inbox[on[r]]), clean>>
    /\ shared' = (shared \/ \E q \in Reader \ {r} : Between(q))
    /\ UNCHANGED <<threads, made, file, link, port, asks, conn, readBool, sock, on, job, window,
                   pushed, handled, joined, crossed, clicks, alive>>

\* recv returns 0.
Closed(r) ==
    /\ Go(r, "recv", "ended")
    /\ inbox[on[r]] = <<>> /\ link[on[r]] = "down"
    /\ sock' = [sock EXCEPT ![r] = Null]
    /\ on' = [on EXCEPT ![r] = Null]
    /\ UNCHANGED <<threads, net, conn, readBool, buffer, job, window, pushed, past, alive>>

\* What recognize_packet makes of the bytes: a failed log-in with more behind
\* it is long enough to be taken for a key.
Read(packet, clean) ==
    IF clean THEN {packet}
    ELSE IF packet.type = "fail" THEN {packet, Packet("key", 0)}
    ELSE IF packet.type = "push" THEN {packet, NoPacket} ELSE {packet}

Copy(r) ==
    /\ Go(r, "copy", "handle")
    /\ \E packet \in Read(buffer[1], buffer[2]) : job' = [job EXCEPT ![r] = packet]
    /\ UNCHANGED <<threads, net, conn, readBool, buffer, sock, on, window, pushed, past, alive>>

\* Fault: the buffer keeps the packet.
Kept == buffer

Wiped == <<NoPacket, TRUE>>

\* memset, after recognize_packet.
Clear(r) ==
    /\ Go(r, "clear", "loop")
    /\ buffer' = Wiped
    /\ job' = [job EXCEPT ![r] = NoPacket]
    /\ on' = [on EXCEPT ![r] = Null]
    /\ UNCHANGED <<threads, net, conn, readBool, sock, window, pushed, past, alive>>

-----------------------------------------------------------------------------
(* recognize_packet, for the packets that concern the connection *)

\* Signal, and only then disconnect.
AccountReply(r) ==
    /\ Handles(r, "accc", "stop")
    /\ UNCHANGED <<threads, net, conn, readBool, reading, window, pushed, past, alive>>

FailReply(r) ==
    /\ Handles(r, "fail", "free")
    /\ UNCHANGED <<threads, net, conn, readBool, reading, window, pushed, past, alive>>

\* free_user_data sets all of user_data to zero; the socket stays open.
FreeUserData(r) ==
    /\ Go(r, "free", "clear")
    /\ clientSocket' = Null /\ readThread' = Null
    /\ UNCHANGED <<threads, net, readBool, reading, window, pushed, past, alive>>

\* The data request, after connecting and for data;fail.
RequestData(r) ==
    LET s == File(clientSocket) IN
    /\ Go(r, "ask", "clear") \/ Handles(r, "again", "clear")
    /\ asks' = IF Sendable(s) THEN Ask(s, "data") ELSE asks
    /\ UNCHANGED <<threads, made, file, link, port, inbox, conn, readBool, reading, window,
                   pushed, past, alive>>

\* Friends, rooms and messages (LoginTransfer): the last one ends the log-in
\* and shows the chat window.
Pushed(r) ==
    /\ Handles(r, "push", "clear")
    /\ handled' = [handled EXCEPT ![job[r].n] = IF @ = 2 THEN @ ELSE @ + 1]
    /\ window' = IF job[r].n = MaxPushes THEN "chat" ELSE window
    /\ UNCHANGED <<threads, net, conn, readBool, reading, pushed, joined, crossed,
                   shared, clicks, alive>>

\* Nothing, because another thread cleared the buffer.
Invalid(r) ==
    /\ Handles(r, "none", "clear")
    /\ UNCHANGED <<threads, net, conn, readBool, reading, window, pushed, past, alive>>

-----------------------------------------------------------------------------
(* The servers *)

Arrives(s, packet) == inbox' = [inbox EXCEPT ![s] = Append(@, packet)]

\* A request that a server does not know is answered with its own name and fail.
Answers(s, type) ==
    CASE type = "register" -> {"accc"}
      [] type = "login"    -> IF port[s] = "login" THEN {"key", "fail"} ELSE {"fail"}
      [] type = "data"     -> {"again"}

Answer(s) ==
    /\ alive
    /\ link[s] = "up" /\ asks[s] # <<>>
    /\ asks' = [asks EXCEPT ![s] = Tail(@)]
    /\ IF Head(asks[s]) = "data" /\ port[s] = "main"
       THEN /\ pushed = 0 /\ pushed' = 1
            /\ Arrives(s, Packet("push", 1))
       ELSE /\ \E type \in Answers(s, Head(asks[s])) : Arrives(s, Packet(type, 0))
            /\ UNCHANGED pushed
    /\ UNCHANGED <<threads, made, file, link, port, conn, readBool, reading, at, window,
                   past, alive>>

\* The rest of the transfer, and messages.
Push(s) ==
    /\ alive
    /\ link[s] = "up" /\ port[s] = "main"
    /\ pushed \in 1..(MaxPushes - 1)
    /\ pushed' = pushed + 1
    /\ Arrives(s, Packet("push", pushed + 1))
    /\ UNCHANGED <<threads, made, file, link, port, asks, conn, readBool, reading, at, window,
                   past, alive>>

\* The log-in server ends.
Drop(s) ==
    /\ alive
    /\ link[s] = "up" /\ port[s] = "login"
    /\ Cardinality({z \in Sock : link[z] = "down"}) < MaxDrops
    /\ link' = [link EXCEPT ![s] = "down"]
    /\ UNCHANGED <<threads, made, file, port, asks, inbox, conn, readBool, reading, at, window,
                   pushed, past, alive>>

Opens(t) == Socket(t) \/ Connect(t) \/ Create(t)

Disconnects(t) == Stop(t) \/ Join(t) \/ Close(t)

Reads(r) ==
    \/ Start(r) \/ Loop(r) \/ Receive(r) \/ Closed(r)
    \/ Copy(r) \/ Clear(r)
    \/ AccountReply(r) \/ FailReply(r) \/ FreeUserData(r)
    \/ RequestData(r) \/ Pushed(r) \/ Invalid(r)
    \/ Opens(r) \/ Disconnects(r)

Window ==
    \/ LoginButton \/ CreateAccountButton
    \/ Opens(Main) \/ Disconnects(Main) \/ Send

ConnectionNext ==
    \/ Window
    \/ \E r \in Reader : Reads(r)
    \/ \E s \in Sock : Answer(s) \/ Push(s) \/ Drop(s)

ConnectionSpec == ConnectionInit /\ [][ConnectionNext]_connectionVars

-----------------------------------------------------------------------------
(* Properties *)

InHand(n) == \E r \in Reader :
    \/ at[r] = "copy" /\ buffer[1] = Packet("push", n)
    \/ at[r] = "handle" /\ job[r] = Packet("push", n)

Waits(n) == \E s \in Sock : \E i \in 1..Len(inbox[s]) : inbox[s][i] = Packet("push", n)

\* Every packet that was taken from a socket is dealt with once, unless two
\* readers were between recv and memset at one time: they have one buffer.
HandledOnceAlone ==
    ~shared => \A n \in 1..pushed :
        ~Waits(n) => handled[n] = IF InHand(n) THEN 0 ELSE 1

\* The data request with the session key goes to the main server, when no
\* log-in or creation was started while another was under way.
KeyGoesToMainAlone ==
    ~crossed => \A s \in Sock : \A i \in 1..Len(asks[s]) :
        asks[s][i] = "data" => port[s] = "main"

\* A reader that receives from a socket, or will come to it.
ReadsOn(r, s) ==
    \/ at[r] = "start" /\ File(clientSocket) = s
    \/ at[r] = "recv" /\ on[r] = s
    \/ (at[r] = "loop" \/ Between(r)) /\ readBool /\ File(sock[r]) = s

\* The connection to the main server has a reader, under the same condition,
\* although the one that made it has told all readers to stop.
MainHasReaderAlone ==
    ~crossed => \A s \in Sock :
        port[s] = "main" /\ link[s] = "up" =>
            \E r \in Reader : at[r] = "create" \/ ReadsOn(r, s)

=============================================================================
