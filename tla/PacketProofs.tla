---------------------------- MODULE PacketProofs ----------------------------
(***************************************************************************)
(* Theorems about the way of a packet and about what is in it, which no    *)
(* step couples: the loops that receive packets (ReceiveLoops), for any    *)
(* connections, descriptors, threads and packets, and the texts that the   *)
(* packets of messages carry (MessagePackets), for any names, texts, sizes *)
(* and numbers of messages.  The first part proves who serves a descriptor *)
(* and who is answered about what; the second that a client reads what was *)
(* typed.                                                                  *)
(***************************************************************************)
EXTENDS ReceiveLoops, MessagePackets, SequenceTheorems, FiniteSetTheorems,
        WellFoundedInduction, TLAPS

-----------------------------------------------------------------------------
(* I.  The loops of the server and of the login process.                   *)

Message == (Conn \cup {Nobody}) \X Nat
Steps   == {"none", "start", "recv", "copy", "handle", "wipe", "close"}

TypeOK ==
    /\ phase \in [Conn -> {"new", "queued", "open", "closed"}]
    /\ at \in [Conn -> Process]
    /\ stream \in [Conn -> Seq(Message)]
    /\ sends \in [Conn -> Nat]
    /\ replies \in [Conn -> SUBSET (Message \X BOOLEAN)]
    /\ file \in [Process -> [Fd -> Conn \cup {Nobody}]]
    /\ newSocket \in [Process -> Fd \cup {None}]
    /\ accepting \in [Process -> {"accept", "create"}]
    /\ buffer \in [Process -> Message]
    /\ pc \in [Thread -> Steps]
    /\ home \in [Thread -> Process]
    /\ sock \in [Thread -> Fd \cup {None}]
    /\ packet \in [Thread -> Message] /\ got \in [Thread -> Message]
    /\ slipped \subseteq Process /\ spoilt \subseteq Process

\* What is under way from a connection is its own.
StreamsOwn == \A c \in Conn : \A i \in DOMAIN stream[c] : stream[c][i][1] = c

\* A descriptor is a connection made to its process.
FilesOfProcess ==
    \A p \in Process, f \in Fd : file[p][f] # Nobody =>
        phase[file[p][f]] \in {"open", "closed"} /\ at[file[p][f]] = p

AnsweredWasAccepted == \A c \in Conn : phase[c] = "new" => replies[c] = {}

Has(t, p) == home[t] = p /\ pc[t] \notin {"none", "start"}
Starts(t, p) == home[t] = p /\ pc[t] = "start"

\* The new descriptor is on its way to a thread.
Pending(p) == accepting[p] = "create" \/ \E t \in Thread : Starts(t, p)

\* Accept waits for the thread it made, and that is one.
OneStarts(p) ==
    \A t \in Thread : Starts(t, p) =>
        accepting[p] = "accept" /\ \A u \in Thread : Starts(u, p) => u = t

\* No two threads have a descriptor, and the one under way has none yet.
SocketsUnique(p) ==
    \A t \in Thread : Has(t, p) /\ sock[t] # None =>
        /\ file[p][sock[t]] # Nobody
        /\ Pending(p) => sock[t] # newSocket[p]
        /\ \A u \in Thread : Has(u, p) /\ sock[u] = sock[t] => u = t

PendingOpen(p) == Pending(p) /\ newSocket[p] # None => file[p][newSocket[p]] # Nobody

HandedOver == \A p \in Process \ slipped : OneStarts(p) /\ SocketsUnique(p) /\ PendingOpen(p)

\* Every descriptor has a thread, or will have.
Attended(p) ==
    \A f \in Fd : file[p][f] # Nobody =>
        \/ Pending(p) /\ newSocket[p] = f
        \/ \E t \in Thread : Has(t, p) /\ sock[t] = f

OpenServed == "main" \notin slipped => Attended("main")

\* Between recv and memcpy the buffer is the thread's, and so is its copy.
OwnPackets ==
    \A p \in Process \ (slipped \cup spoilt) : \A t \in Thread : home[t] = p =>
        /\ pc[t] = "copy" => buffer[p] = got[t] /\ Peer(t) # Nobody /\ got[t][1] = Peer(t)
        /\ pc[t] = "handle" => Peer(t) # Nobody /\ packet[t][1] = Peer(t)

IInv == /\ TypeOK /\ StreamsOwn /\ FilesOfProcess /\ AnsweredWasAccepted
        /\ HandedOver /\ OpenServed
        /\ OwnPackets /\ OwnAnswersAlone

-----------------------------------------------------------------------------
(* Every conjunct is kept by every step.                                   *)

\* Numbers of descriptors and threads.
LEMMA Numbers ==
    /\ None \notin Fd /\ Fd \subseteq Nat
    /\ \A p \in Process : 1..MaxFd[p] \subseteq Fd
    /\ IsFiniteSet(Thread)
<1>1. MaxFd["login"] \in Nat \ {0} /\ MaxFd["main"] \in Nat \ {0} /\ MaxThreads \in Nat \ {0}
  BY BoundsAssumption DEF Process
<1>2. IsFiniteSet(Thread)
  BY <1>1, FS_Interval DEF Thread
<1> QED
  BY <1>1, <1>2 DEF Process, Fd, None

LEMMA PeerType ==
    ASSUME TypeOK, NEW t \in Thread
    PROVE  Peer(t) \in Conn \cup {Nobody}
BY DEF TypeOK, Peer

LEMMA TypesKept ==
    ASSUME TypeOK, Next
    PROVE  TypeOK'
<1> USE DEF clients, threads, history, Go, TypeOK
<1>0. Invalid \in Message /\ None \in Fd \cup {None}
  BY DEF Invalid, Message
<1>1. ASSUME NEW c \in Conn, Client(c) PROVE TypeOK'
  <2>1. CASE \E p \in Process : Dial(c, p)
    BY <2>1 DEF Dial
  <2>2. CASE SendPacket(c)
    <3>1. <<c, sends[c] + 1>> \in Message
      BY DEF Message
    <3>2. Append(stream[c], <<c, sends[c] + 1>>) \in Seq(Message)
      BY <3>1
    <3> QED
      BY <2>2, <3>2 DEF SendPacket
  <2>3. CASE Hang(c)
    BY <2>3 DEF Hang
  <2> QED
    BY <1>1, <2>1, <2>2, <2>3 DEF Client
<1>2. ASSUME NEW p \in Process, Accept(p) PROVE TypeOK'
  <2>1. slipped' \subseteq Process
    BY <1>2 DEF Accept
  <2>2. phase' \in [Conn -> {"new", "queued", "open", "closed"}]
    BY ZenonT(30), <1>2 DEF Accept
  <2>3. newSocket' \in [Process -> Fd \cup {None}] /\ file' \in [Process -> [Fd -> Conn \cup {Nobody}]]
    <3>1. ASSUME NEW c \in Conn, NEW f \in Free(p), newSocket' = [newSocket EXCEPT ![p] = f],
                 file' = [file EXCEPT ![p][f] = c]
          PROVE  /\ newSocket' \in [Process -> Fd \cup {None}]
                 /\ file' \in [Process -> [Fd -> Conn \cup {Nobody}]]
      <4>1. f \in Fd
        BY <3>1, Numbers DEF Free
      <4> QED
        BY <3>1, <4>1
    <3>2. CASE newSocket' = [newSocket EXCEPT ![p] = None] /\ file' = file
      BY <1>0, <3>2
    <3> QED
      BY <1>2, <3>1, <3>2 DEF Accept
  <2> QED
    BY <1>2, <2>1, <2>2, <2>3 DEF Accept
<1>3. ASSUME NEW p \in Process, NEW t \in Thread, Create(p, t) PROVE TypeOK'
  BY <1>3 DEF Create, Steps
<1>4. ASSUME NEW t \in Thread, Serve(t) PROVE TypeOK'
  <2>0. home[t] \in Process /\ sock[t] \in Fd \cup {None}
    OBVIOUS
  <2>1. CASE Start(t)
    <3>1. sock' \in [Thread -> Fd \cup {None}]
      BY <2>0, <2>1 DEF Start
    <3>2. pc' \in [Thread -> Steps]
      BY <2>1 DEF Start, Steps
    <3> QED
      BY <2>1, <3>1, <3>2 DEF Start
  <2>2. CASE Receive(t)
    <3>1. Peer(t) \in Conn /\ stream[Peer(t)] \in Seq(Message) /\ stream[Peer(t)] # <<>>
      BY <2>2, PeerType DEF Receive
    <3>2. Head(stream[Peer(t)]) \in Message /\ Tail(stream[Peer(t)]) \in Seq(Message)
      BY <3>1
    <3>3. stream' \in [Conn -> Seq(Message)]
      <4>1. <<>> \in Seq(Message)
        OBVIOUS
      <4>2. \/ stream' = [stream EXCEPT ![Peer(t)] = Tail(stream[Peer(t)])]
            \/ stream' = [stream EXCEPT ![Peer(t)] = <<>>]
        BY <2>2, <3>1 DEF Receive
      <4> HIDE DEF Go
      <4> QED
        BY <3>1, <3>2, <4>1, <4>2
    <3>4. spoilt' \subseteq Process
      BY <2>0, <2>2 DEF Receive, Spoils
    <3>5. got' \in [Thread -> Message] /\ buffer' \in [Process -> Message]
      BY <2>0, <2>2, <3>2 DEF Receive
    <3>6. pc' \in [Thread -> Steps]
      BY <2>2 DEF Receive, Steps
    <3> QED
      BY <2>2, <3>3, <3>4, <3>5, <3>6 DEF Receive
  <2>3. CASE NoPacket(t)
    <3>1. pc' \in [Thread -> Steps]
      BY <2>3 DEF NoPacket, Steps
    <3>2. CASE UNCHANGED <<home, sock, packet, got>>
      BY <2>3, <3>1, <3>2 DEF NoPacket
    <3>3. CASE Ended(t)
      BY <1>0, <2>3, <3>1, <3>3 DEF NoPacket, Ended, Process
    <3> QED
      BY <2>3, <3>2, <3>3 DEF NoPacket
  <2>4. CASE Copy(t)
    <3>1. Bytes(t) \subseteq Message
      BY <1>0, <2>0 DEF Bytes
    <3>2. packet' \in [Thread -> Message]
      BY <2>4, <3>1 DEF Copy
    <3>3. pc' \in [Thread -> Steps]
      BY <2>4 DEF Copy, Steps
    <3> QED
      BY <2>4, <3>2, <3>3 DEF Copy
  <2>5. CASE Handle(t)
    <3>1. <<packet[t], packet[t] # Invalid>> \in Message \X BOOLEAN
      OBVIOUS
    <3>2. replies' \in [Conn -> SUBSET (Message \X BOOLEAN)]
      BY <2>5, <3>1, PeerType DEF Handle, Replies
    <3> QED
      BY <2>5, <3>2 DEF Handle, Steps
  <2>6. CASE Wipe(t)
    <3>1. spoilt' \subseteq Process /\ buffer' \in [Process -> Message]
      BY <1>0, <2>0, <2>6 DEF Wipe, Spoils
    <3> QED
      BY ZenonT(30), <1>0, <2>6, <3>1 DEF Wipe, Ended, Steps, Process
  <2>7. CASE Close(t)
    <3>1. file' \in [Process -> [Fd -> Conn \cup {Nobody}]]
      BY <2>0, <2>7 DEF Close, Released
    <3> QED
      BY <1>0, <2>7, <3>1 DEF Close, Ended, Steps, Process
  <2> QED
    BY <1>4, <2>1, <2>2, <2>3, <2>4, <2>5, <2>6, <2>7 DEF Serve
<1> QED
  BY <1>1, <1>2, <1>3, <1>4 DEF Next, Loop

\* What is known of connections.
LEMMA ConnectionsKept ==
    ASSUME TypeOK, StreamsOwn, FilesOfProcess, AnsweredWasAccepted, Next
    PROVE  StreamsOwn' /\ FilesOfProcess' /\ AnsweredWasAccepted'
<1> USE DEF clients, threads, history, Go
<1>t. /\ phase \in [Conn -> {"new", "queued", "open", "closed"}] /\ at \in [Conn -> Process]
      /\ stream \in [Conn -> Seq(Message)] /\ sends \in [Conn -> Nat]
      /\ file \in [Process -> [Fd -> Conn \cup {Nobody}]]
      /\ \A p \in Process, f \in Fd : file[p][f] \in Conn \cup {Nobody}
  BY DEF TypeOK
<1>1. ASSUME NEW c \in Conn, Client(c)
      PROVE  StreamsOwn' /\ FilesOfProcess' /\ AnsweredWasAccepted'
  <2>1. CASE \E p \in Process : Dial(c, p)
    <3>1. FilesOfProcess'
      BY <1>t, <2>1 DEF Dial, FilesOfProcess
    <3> QED
      BY <1>t, <2>1, <3>1 DEF Dial, StreamsOwn, AnsweredWasAccepted
  <2>2. CASE SendPacket(c)
    <3>1. StreamsOwn'
      <4>1. stream[c] \in Seq(Message) /\ stream' = [stream EXCEPT ![c] = Append(stream[c], <<c, sends[c] + 1>>)]
        BY <1>t, <2>2 DEF SendPacket
      <4>2. \A i \in DOMAIN Append(stream[c], <<c, sends[c] + 1>>) :
                Append(stream[c], <<c, sends[c] + 1>>)[i][1] = c
        <5>1. ASSUME NEW i \in DOMAIN Append(stream[c], <<c, sends[c] + 1>>)
              PROVE  Append(stream[c], <<c, sends[c] + 1>>)[i][1] = c
          <6>1. CASE i \in DOMAIN stream[c]
            BY <4>1, <6>1 DEF StreamsOwn
          <6>2. CASE i = Len(stream[c]) + 1
            BY <4>1, <6>2
          <6> QED
            BY <4>1, <6>1, <6>2
        <5> QED
          BY <5>1
      <4> QED
        BY <1>t, <4>1, <4>2 DEF StreamsOwn
    <3> QED
      BY <2>2, <3>1 DEF SendPacket, FilesOfProcess, AnsweredWasAccepted
  <2>3. CASE Hang(c)
    BY <1>t, <2>3 DEF Hang, StreamsOwn, FilesOfProcess, AnsweredWasAccepted
  <2> QED
    BY <1>1, <2>1, <2>2, <2>3 DEF Client
<1>2. ASSUME NEW p \in Process, Accept(p)
      PROVE  StreamsOwn' /\ FilesOfProcess' /\ AnsweredWasAccepted'
  <2>1. ASSUME NEW c \in Conn, NEW f \in Free(p), phase[c] = "queued", at[c] = p,
               phase' = [phase EXCEPT ![c] = "open"], file' = [file EXCEPT ![p][f] = c]
        PROVE  FilesOfProcess' /\ AnsweredWasAccepted'
    <3>1. f \in Fd
      BY <2>1, Numbers DEF Free
    <3> QED
      BY <1>2, <1>t, <2>1, <3>1 DEF Accept, FilesOfProcess, AnsweredWasAccepted
  <2>0. UNCHANGED <<at, replies, stream>>
    BY <1>2 DEF Accept
  <2>2. ASSUME UNCHANGED <<phase, file>> PROVE FilesOfProcess' /\ AnsweredWasAccepted'
    <3>1. FilesOfProcess'
      BY <2>0, <2>2 DEF FilesOfProcess
    <3>2. AnsweredWasAccepted'
      BY <2>0, <2>2 DEF AnsweredWasAccepted
    <3> QED
      BY <3>1, <3>2
  <2>3. StreamsOwn'
    BY <2>0 DEF StreamsOwn
  <2> QED
    BY <1>2, <2>1, <2>2, <2>3 DEF Accept
<1>3. ASSUME NEW p \in Process, NEW t \in Thread, Create(p, t)
      PROVE  StreamsOwn' /\ FilesOfProcess' /\ AnsweredWasAccepted'
  BY <1>3 DEF Create, StreamsOwn, FilesOfProcess, AnsweredWasAccepted
<1>4. ASSUME NEW t \in Thread, Serve(t)
      PROVE  StreamsOwn' /\ FilesOfProcess' /\ AnsweredWasAccepted'
  <2>0. home[t] \in Process /\ (sock[t] = None \/ sock[t] \in Fd)
    BY DEF TypeOK
  <2>1. CASE Receive(t)
    <3>1. Peer(t) \in Conn /\ stream[Peer(t)] \in Seq(Message) /\ stream[Peer(t)] # <<>>
      BY <1>t, <2>1, PeerType DEF Receive
    <3>2. \A i \in DOMAIN Tail(stream[Peer(t)]) : Tail(stream[Peer(t)])[i][1] = Peer(t)
      <4>1. \A i \in DOMAIN Tail(stream[Peer(t)]) :
                i + 1 \in DOMAIN stream[Peer(t)] /\ Tail(stream[Peer(t)])[i] = stream[Peer(t)][i + 1]
        BY <3>1
      <4> QED
        BY <3>1, <4>1 DEF StreamsOwn
    <3>3. \/ stream' = [stream EXCEPT ![Peer(t)] = Tail(stream[Peer(t)])]
          \/ stream' = [stream EXCEPT ![Peer(t)] = <<>>]
      BY <2>1, <3>1 DEF Receive
    <3>4. StreamsOwn'
      <4>1. ASSUME NEW d \in Conn, NEW i \in DOMAIN stream'[d] PROVE stream'[d][i][1] = d
        <5>1. CASE d # Peer(t)
          BY <1>t, <3>1, <3>3, <4>1, <5>1 DEF StreamsOwn
        <5>2. CASE d = Peer(t) /\ stream'[d] = Tail(stream[d])
          BY <3>2, <4>1, <5>2
        <5>3. CASE d = Peer(t) /\ stream'[d] = <<>>
          BY <4>1, <5>3
        <5> QED
          BY <1>t, <3>1, <3>3, <5>1, <5>2, <5>3
      <4> QED
        BY <4>1 DEF StreamsOwn
    <3> QED
      BY <2>1, <3>4 DEF Receive, FilesOfProcess, AnsweredWasAccepted
  <2>2. CASE Handle(t)
    <3>1. Peer(t) # Nobody => phase[Peer(t)] # "new"
      BY <2>0 DEF Peer, FilesOfProcess
    <3>2. AnsweredWasAccepted'
      BY <1>t, <2>2, <3>1 DEF Handle, Replies, AnsweredWasAccepted
    <3> QED
      BY <2>2, <3>2 DEF Handle, StreamsOwn, FilesOfProcess
  <2>3. CASE Close(t)
    <3>1. \A p \in Process, f \in Fd : file'[p][f] \in {Nobody, file[p][f]}
      BY <1>t, <2>0, <2>3 DEF Close, Released
    <3>2. FilesOfProcess'
      BY <2>3, <3>1 DEF Close, FilesOfProcess
    <3> QED
      BY <2>3, <3>2 DEF Close, StreamsOwn, AnsweredWasAccepted
  <2>4. CASE Start(t) \/ NoPacket(t) \/ Copy(t) \/ Wipe(t)
    BY <2>4 DEF Start, NoPacket, Copy, Wipe, StreamsOwn, FilesOfProcess, AnsweredWasAccepted
  <2> QED
    BY <1>4, <2>1, <2>2, <2>3, <2>4 DEF Serve
<1> QED
  BY <1>1, <1>2, <1>3, <1>4 DEF Next, Loop

\* Nothing that concerns a process has changed.
LEMMA Undisturbed ==
    ASSUME NEW p \in Process, OneStarts(p), SocketsUnique(p), PendingOpen(p),
           accepting'[p] = accepting[p], newSocket'[p] = newSocket[p], file'[p] = file[p],
           \A t \in Thread : /\ Starts(t, p)' <=> Starts(t, p)
                             /\ Has(t, p)' <=> Has(t, p)
                             /\ Has(t, p) => sock'[t] = sock[t]
    PROVE  /\ OneStarts(p)' /\ SocketsUnique(p)' /\ PendingOpen(p)'
           /\ Attended(p) => Attended(p)'
<1>1. Pending(p)' <=> Pending(p)
  BY DEF Pending, Starts
<1>2. OneStarts(p)'
  BY DEF OneStarts, Starts
<1>3. SocketsUnique(p)'
  BY <1>1 DEF SocketsUnique, Has
<1>4. PendingOpen(p)'
  BY <1>1 DEF PendingOpen
<1>5. Attended(p) => Attended(p)'
  BY <1>1 DEF Attended, Has
<1> QED
  BY <1>2, <1>3, <1>4, <1>5

\* A descriptor goes from accept to one thread, and back when that has closed it.
LEMMA AcceptKeeps ==
    ASSUME TypeOK, HandedOver, OpenServed, NEW p \in Process, Accept(p)
    PROVE  HandedOver' /\ OpenServed'
<1> USE DEF clients, threads
<1>0. /\ file \in [Process -> [Fd -> Conn \cup {Nobody}]] /\ newSocket \in [Process -> Fd \cup {None}]
      /\ accepting \in [Process -> {"accept", "create"}] /\ Nobody \notin Conn
      /\ \A t \in Thread : sock[t] \in Fd \cup {None}
  BY NobodyAssumption DEF TypeOK
<1>1. UNCHANGED <<pc, home, sock>> /\ slipped \subseteq slipped'
  BY DEF Accept
<1>2. ASSUME NEW q \in Process \ {p}, q \notin slipped
      PROVE  /\ OneStarts(q)' /\ SocketsUnique(q)' /\ PendingOpen(q)'
             /\ Attended(q) => Attended(q)'
  <2>1. accepting'[q] = accepting[q] /\ newSocket'[q] = newSocket[q] /\ file'[q] = file[q]
    BY <1>0, <1>2 DEF Accept
  <2>2. \A t \in Thread : (Starts(t, q)' <=> Starts(t, q)) /\ (Has(t, q)' <=> Has(t, q))
    BY <1>1 DEF Starts, Has
  <2> QED
    BY <1>1, <1>2, <2>1, <2>2, Undisturbed DEF HandedOver
<1>3. ASSUME p \notin slipped'
      PROVE  /\ OneStarts(p)' /\ SocketsUnique(p)' /\ PendingOpen(p)'
             /\ Attended(p) => Attended(p)'
  <2>1. p \notin slipped /\ (\A t \in Thread : ~Starts(t, p)) /\ ~Pending(p)
    BY <1>3 DEF Accept, Waiting, Starts, Pending
  <2>2. \A t \in Thread : ~Starts(t, p)' /\ (Has(t, p)' <=> Has(t, p)) /\ sock'[t] = sock[t]
    BY <1>1, <2>1 DEF Starts, Has
  <2>3. OneStarts(p)' /\ Pending(p)'
    BY <1>0, <2>2 DEF OneStarts, Pending, Accept
  <2>4. ASSUME NEW c \in Conn, NEW f \in Free(p), newSocket' = [newSocket EXCEPT ![p] = f],
               file' = [file EXCEPT ![p][f] = c]
        PROVE  SocketsUnique(p)' /\ PendingOpen(p)' /\ (Attended(p) => Attended(p)')
    <3>1. f \in Fd /\ file[p][f] = Nobody /\ newSocket'[p] = f /\ file'[p][f] = c
      BY <1>0, <2>4, Numbers DEF Free
    <3>2. \A g \in Fd \ {f} : file'[p][g] = file[p][g]
      BY <1>0, <2>4, <3>1
    <3>3. \A t \in Thread : Has(t, p) /\ sock[t] # None => sock[t] # f
      BY <2>1, <3>1 DEF HandedOver, SocketsUnique
    <3>4. SocketsUnique(p)'
      BY <1>0, <2>1, <2>2, <3>1, <3>2, <3>3 DEF HandedOver, SocketsUnique
    <3>5. PendingOpen(p)'
      BY <1>0, <3>1 DEF PendingOpen
    <3>6. Attended(p) => Attended(p)'
      BY <2>1, <2>2, <2>3, <3>1, <3>2 DEF Attended
    <3> QED
      BY <3>4, <3>5, <3>6
  <2>5. ASSUME newSocket' = [newSocket EXCEPT ![p] = None], file' = file
        PROVE  SocketsUnique(p)' /\ PendingOpen(p)' /\ (Attended(p) => Attended(p)')
    <3>1. newSocket'[p] = None
      BY <1>0, <2>5
    <3> QED
      <4>1. SocketsUnique(p)'
        BY <2>1, <2>2, <2>5, <3>1 DEF HandedOver, SocketsUnique
      <4>2. PendingOpen(p)'
        BY <3>1 DEF PendingOpen
      <4>3. Attended(p) => Attended(p)'
        BY <2>1, <2>2, <2>5 DEF Attended
      <4> QED
        BY <4>1, <4>2, <4>3
  <2> QED
    BY <2>3, <2>4, <2>5 DEF Accept
<1> QED
  BY <1>1, <1>2, <1>3 DEF HandedOver, OpenServed, Process

\* A thread of the process goes on, with or without its descriptor.
LEMMA ThreadKeeps ==
    ASSUME TypeOK, HandedOver, OpenServed, NEW t \in Thread, Serve(t)
    PROVE  HandedOver' /\ OpenServed'
<1> USE DEF clients, threads, history, Go
<1> PICK p \in Process : home[t] = p
  BY DEF TypeOK
<1>0. /\ file \in [Process -> [Fd -> Conn \cup {Nobody}]] /\ newSocket \in [Process -> Fd \cup {None}]
      /\ pc \in [Thread -> Steps] /\ home \in [Thread -> Process]
      /\ sock \in [Thread -> Fd \cup {None}]
      /\ \A u \in Thread : sock[u] \in Fd \cup {None}
  BY DEF TypeOK
<1>1. UNCHANGED <<accepting, newSocket, slipped>>
  BY DEF Serve, Start, Receive, NoPacket, Copy, Handle, Wipe, Close
<1>2. \A u \in Thread \ {t} : pc'[u] = pc[u] /\ home'[u] = home[u] /\ sock'[u] = sock[u]
  BY <1>0 DEF Serve, Start, Receive, NoPacket, Copy, Handle, Wipe, Close, Ended
<1>3. \A u \in Thread \ {t}, q \in Process :
          (Starts(u, q)' <=> Starts(u, q)) /\ (Has(u, q)' <=> Has(u, q))
  BY <1>2 DEF Starts, Has
\* The other process.
<1>4. ASSUME NEW q \in Process \ {p}, q \notin slipped
      PROVE  /\ OneStarts(q)' /\ SocketsUnique(q)' /\ PendingOpen(q)'
             /\ Attended(q) => Attended(q)'
  <2>1. ~Starts(t, q) /\ ~Has(t, q)
    BY <1>4 DEF Starts, Has
  <2>2. ~Starts(t, q)' /\ ~Has(t, q)'
    BY <1>0, <1>4 DEF Starts, Has, Serve, Start, Receive, NoPacket, Copy, Handle, Wipe, Close, Ended
  <2>3. file'[q] = file[q]
    BY <1>0, <1>4 DEF Serve, Start, Receive, NoPacket, Copy, Handle, Wipe, Close, Released
  <2> QED
    BY <1>1, <1>2, <1>3, <1>4, <2>1, <2>2, <2>3, Undisturbed DEF HandedOver
\* Its own.
<1>5. ASSUME p \notin slipped
      PROVE  /\ OneStarts(p)' /\ SocketsUnique(p)' /\ PendingOpen(p)'
             /\ p = "main" /\ Attended(p) => Attended("main")'
  <2>0. OneStarts(p) /\ SocketsUnique(p) /\ PendingOpen(p)
    BY <1>0, <1>5 DEF HandedOver
  <2>1. CASE Start(t)
    <3>1. Starts(t, p) /\ ~Has(t, p) /\ accepting[p] = "accept" /\ Pending(p)
      BY <1>0, <2>0, <2>1 DEF Start, Starts, Has, OneStarts, Pending
    <3>2. home' = home /\ file' = file /\ sock'[t] = newSocket[p] /\ pc'[t] = "recv"
      BY <1>0, <2>1 DEF Start
    <3>3. Has(t, p)' /\ \A u \in Thread : ~Starts(u, p)'
      BY <1>0, <1>3, <2>0, <3>1, <3>2 DEF OneStarts, Starts, Has
    <3>4. ~Pending(p)' /\ OneStarts(p)' /\ PendingOpen(p)'
      BY <1>1, <3>1, <3>2, <3>3 DEF Pending, OneStarts, PendingOpen
    <3>5. SocketsUnique(p)'
      <4>1. ASSUME NEW u \in Thread \ {t}, Has(u, p)', sock'[u] # None
            PROVE  /\ Has(u, p) /\ sock'[u] = sock[u] /\ file[p][sock[u]] # Nobody
                   /\ sock[u] # newSocket[p]
                   /\ \A v \in Thread \ {t} : Has(v, p)' /\ sock'[v] = sock'[u] => v = u
        BY <1>2, <1>3, <2>0, <3>1, <4>1 DEF SocketsUnique
      <4>2. sock'[t] # None => file[p][sock'[t]] # Nobody
        BY <2>0, <3>1, <3>2 DEF PendingOpen
      <4>3. \A v \in Thread \ {t} : Has(v, p)' /\ sock'[v] # None => sock'[v] # sock'[t]
        BY <3>2, <4>1
      <4> QED
        BY <3>2, <3>4, <4>1, <4>2, <4>3 DEF SocketsUnique
    <3>6. Attended(p) => Attended(p)'
      BY <1>0, <1>2, <1>3, <3>1, <3>2, <3>3 DEF Attended
    <3> QED
      BY <3>2, <3>4, <3>5, <3>6
  <2>2. CASE /\ pc[t] \notin {"none", "start"} /\ pc'[t] \notin {"none", "start"}
             /\ home'[t] = home[t] /\ sock'[t] = sock[t] /\ file' = file
    <3>1. \A u \in Thread : /\ Starts(u, p)' <=> Starts(u, p)
                            /\ Has(u, p)' <=> Has(u, p)
                            /\ sock'[u] = sock[u]
      BY <1>0, <1>2, <1>3, <2>2 DEF Starts, Has
    <3> QED
      BY <1>0, <1>1, <2>0, <2>2, <3>1, Undisturbed
  <2>3. CASE /\ pc[t] \notin {"none", "start"} /\ pc'[t] = "none"
             /\ \/ p = "login" /\ file' = file
                \/ file' = Released(t)
    <3>1. Has(t, p) /\ ~Has(t, p)' /\ \A u \in Thread : Starts(u, p)' <=> Starts(u, p)
      BY <1>0, <1>3, <2>3 DEF Starts, Has
    <3>2. \A f \in Fd : f # sock[t] => file'[p][f] = file[p][f]
      BY <1>0, <2>3 DEF Released
    <3>3. OneStarts(p)' /\ (Pending(p)' <=> Pending(p))
      BY <1>1, <2>0, <3>1 DEF OneStarts, Pending
    <3>4. SocketsUnique(p)'
      BY <1>0, <1>1, <1>2, <1>3, <2>0, <3>1, <3>2, <3>3 DEF SocketsUnique
    <3>5. PendingOpen(p)'
      <4>1. Pending(p) /\ newSocket[p] # None => newSocket[p] # sock[t] /\ newSocket[p] \in Fd
        BY <1>0, <2>0, <3>1 DEF SocketsUnique
      <4> QED
        BY <1>1, <2>0, <3>2, <3>3, <4>1 DEF PendingOpen
    <3>6. p = "main" /\ Attended(p) => Attended(p)'
      <4>1. ASSUME p = "main", Attended(p), NEW f \in Fd, file'[p][f] # Nobody
            PROVE  (Pending(p)' /\ newSocket'[p] = f) \/ \E u \in Thread : Has(u, p)' /\ sock'[u] = f
        <5>1. sock[t] # None => file'[p][sock[t]] = Nobody
          BY <1>0, <2>3, <4>1 DEF Released
        <5>2. f # sock[t] /\ file[p][f] # Nobody
          BY <1>0, <3>2, <4>1, <5>1, Numbers
        <5> QED
          BY <1>1, <1>2, <1>3, <3>3, <4>1, <5>2 DEF Attended
      <4>2. ASSUME p = "main", Attended(p), NEW f \in Fd, file'["main"][f] # Nobody
            PROVE  \/ Pending("main")' /\ newSocket'["main"] = f
                   \/ \E u \in Thread : Has(u, "main")' /\ sock'[u] = f
        BY <4>1, <4>2
      <4> QED
        BY <4>2 DEF Attended
    <3> QED
      BY <3>3, <3>4, <3>5, <3>6
  <2>4. CASE Receive(t) \/ Copy(t) \/ Handle(t)
    BY <1>0, <2>2, <2>4 DEF Receive, Copy, Handle
  <2>5. CASE NoPacket(t)
    BY <1>0, <2>2, <2>3, <2>5 DEF NoPacket
  <2>6. CASE Wipe(t)
    BY <1>0, <2>2, <2>3, <2>6 DEF Wipe
  <2>7. CASE Close(t)
    BY <1>0, <2>3, <2>7 DEF Close
  <2> QED
    BY <2>1, <2>4, <2>5, <2>6, <2>7 DEF Serve
<1>6. HandedOver'
  BY <1>1, <1>4, <1>5 DEF HandedOver
<1>7. OpenServed'
  BY <1>0, <1>1, <1>4, <1>5 DEF OpenServed, Process
<1> QED
  BY <1>6, <1>7

LEMMA ServingKept ==
    ASSUME TypeOK, HandedOver, OpenServed, Next
    PROVE  HandedOver' /\ OpenServed'
<1> USE DEF clients, threads, history, Go
<1>1. ASSUME NEW c \in Conn, Client(c) PROVE HandedOver' /\ OpenServed'
  <2>1. UNCHANGED <<file, newSocket, accepting, pc, home, sock, slipped>>
    BY <1>1 DEF Client, Dial, SendPacket, Hang
  <2> QED
    BY <2>1 DEF HandedOver, OneStarts, SocketsUnique, PendingOpen, OpenServed, Attended, Pending,
        Starts, Has
<1>2. ASSUME NEW p \in Process, NEW t \in Thread, Create(p, t) PROVE HandedOver' /\ OpenServed'
  <2>0. pc \in [Thread -> Steps] /\ home \in [Thread -> Process] /\ accepting \in [Process -> {"accept", "create"}]
    BY DEF TypeOK
  <2>1. UNCHANGED <<file, newSocket, sock, slipped>> /\ accepting[p] = "create" /\ accepting'[p] = "accept"
    BY <1>2, <2>0 DEF Create
  <2>2. \A u \in Thread, q \in Process : Has(u, q)' <=> Has(u, q)
    BY <1>2, <2>0 DEF Create, Has
  <2>3. /\ Starts(t, p)' /\ \A u \in Thread \ {t}, q \in Process : Starts(u, q)' <=> Starts(u, q)
        /\ \A q \in Process \ {p} : ~Starts(t, q) /\ ~Starts(t, q)'
    BY <1>2, <2>0 DEF Create, Starts
  <2>4. ASSUME NEW q \in Process \ {p}, q \notin slipped
        PROVE  /\ OneStarts(q)' /\ SocketsUnique(q)' /\ PendingOpen(q)'
               /\ Attended(q) => Attended(q)'
    <3>1. accepting'[q] = accepting[q]
      BY <1>2, <2>0, <2>4 DEF Create
    <3>2. \A u \in Thread : (Starts(u, q)' <=> Starts(u, q)) /\ (Has(u, q)' <=> Has(u, q)) /\ sock'[u] = sock[u]
      BY <2>1, <2>2, <2>3, <2>4
    <3> QED
      BY <2>1, <2>4, <3>1, <3>2, Undisturbed DEF HandedOver
  <2>5. ASSUME p \notin slipped
        PROVE  /\ OneStarts(p)' /\ SocketsUnique(p)' /\ PendingOpen(p)'
               /\ Attended(p) => Attended(p)'
    <3>1. Pending(p) /\ Pending(p)'
      BY <2>1, <2>3 DEF Pending
    <3>2. \A u \in Thread : ~Starts(u, p)
      BY <2>1, <2>5 DEF HandedOver, OneStarts
    <3>3. OneStarts(p)'
      BY <2>1, <2>3, <3>2 DEF OneStarts
    <3>4. SocketsUnique(p)' /\ PendingOpen(p)'
      BY <2>1, <2>2, <2>5, <3>1 DEF HandedOver, SocketsUnique, PendingOpen
    <3>5. Attended(p) => Attended(p)'
      BY <2>1, <2>2, <3>1 DEF Attended
    <3> QED
      BY <3>3, <3>4, <3>5
  <2> QED
    BY <2>1, <2>4, <2>5 DEF HandedOver, OpenServed, Process
<1> QED
  BY <1>1, <1>2, AcceptKeeps, ThreadKeeps DEF Next, Loop

\* A packet is its sender's from recv to the answer.
LEMMA OwnKept ==
    ASSUME TypeOK, StreamsOwn, FilesOfProcess, AnsweredWasAccepted, HandedOver, OwnPackets,
           OwnAnswersAlone, Next
    PROVE  OwnPackets' /\ OwnAnswersAlone'
<1> USE DEF clients, threads, history, Go
<1>0. /\ at \in [Conn -> Process] /\ replies \in [Conn -> SUBSET (Message \X BOOLEAN)]
      /\ file \in [Process -> [Fd -> Conn \cup {Nobody}]] /\ buffer \in [Process -> Message]
      /\ pc \in [Thread -> Steps] /\ home \in [Thread -> Process] /\ sock \in [Thread -> Fd \cup {None}]
      /\ packet \in [Thread -> Message] /\ got \in [Thread -> Message]
      /\ Nobody \notin Conn
  BY NobodyAssumption DEF TypeOK
<1>1. ASSUME NEW c \in Conn, Client(c) PROVE OwnPackets' /\ OwnAnswersAlone'
  <2>1. /\ UNCHANGED <<file, buffer, pc, home, sock, packet, got, slipped, spoilt, replies>>
        /\ at' = at \/ (phase[c] = "new" /\ \E p \in Process : at' = [at EXCEPT ![c] = p])
    BY <1>1 DEF Client, Dial, SendPacket, Hang
  <2>2. OwnPackets'
    BY <2>1 DEF OwnPackets, Peer
  <2>3. \A d \in Conn : at'[d] = at[d] \/ replies'[d] = {}
    BY <1>0, <2>1 DEF AnsweredWasAccepted
  <2>4. OwnAnswersAlone'
    BY <2>1, <2>3 DEF OwnAnswersAlone
  <2> QED
    BY <2>2, <2>4
<1>2. ASSUME NEW p \in Process, Accept(p) PROVE OwnPackets' /\ OwnAnswersAlone'
  <2>1. UNCHANGED <<at, buffer, pc, home, sock, packet, got, spoilt, replies>> /\ slipped \subseteq slipped'
    BY <1>2 DEF Accept
  <2>2. \A q \in Process, f \in Fd : file[q][f] # Nobody => file'[q][f] = file[q][f]
    <3>1. ASSUME NEW c \in Conn, NEW f \in Free(p), file' = [file EXCEPT ![p][f] = c]
          PROVE  \A q \in Process, g \in Fd : file[q][g] # Nobody => file'[q][g] = file[q][g]
      <4>1. f \in Fd /\ file[p][f] = Nobody
        BY <3>1, Numbers DEF Free
      <4> QED
        BY <1>0, <3>1, <4>1
    <3>2. file' = file \/ \E c \in Conn, f \in Free(p) : file' = [file EXCEPT ![p][f] = c]
      BY <1>2 DEF Accept
    <3> QED
      BY <3>1, <3>2
  <2>3. \A t \in Thread : Peer(t) # Nobody => Peer(t)' = Peer(t)
    BY <1>0, <2>1, <2>2 DEF Peer
  <2>4. OwnPackets'
    BY <2>1, <2>3 DEF OwnPackets
  <2> QED
    BY <2>1, <2>4 DEF OwnAnswersAlone
<1>3. ASSUME NEW p \in Process, NEW t \in Thread, Create(p, t) PROVE OwnPackets' /\ OwnAnswersAlone'
  <2>1. UNCHANGED <<at, file, buffer, sock, packet, got, slipped, spoilt, replies>>
    BY <1>3 DEF Create
  <2>2. \A u \in Thread : pc'[u] \in {"copy", "handle"} => pc'[u] = pc[u] /\ home'[u] = home[u]
    BY <1>0, <1>3 DEF Create
  <2>3. OwnPackets'
    BY <2>1, <2>2 DEF OwnPackets, Peer
  <2> QED
    BY <2>1, <2>3 DEF OwnAnswersAlone
<1>4. ASSUME NEW t \in Thread, Serve(t) PROVE OwnPackets' /\ OwnAnswersAlone'
  <2>0. at' = at /\ slipped' = slipped /\ spoilt \subseteq spoilt'
    BY <1>4 DEF Serve, Start, Receive, NoPacket, Copy, Handle, Wipe, Close, Spoils
  <2>1. \A u \in Thread \ {t} : /\ pc'[u] = pc[u] /\ home'[u] = home[u] /\ sock'[u] = sock[u]
                                 /\ packet'[u] = packet[u] /\ got'[u] = got[u]
    BY <1>0, <1>4 DEF Serve, Start, Receive, NoPacket, Copy, Handle, Wipe, Close, Ended
  \* No other thread loses its descriptor.
  <2>2. ASSUME NEW u \in Thread \ {t}, home[u] \notin slipped, pc[u] \in {"copy", "handle"},
               Peer(u) # Nobody
        PROVE  Peer(u)' = Peer(u)
    <3>1. CASE file' = file
      BY <2>1, <2>2, <3>1 DEF Peer
    <3>2. CASE Close(t)
      <4>1. sock[u] # None /\ Has(u, home[u])
        BY <2>2 DEF Peer, Has
      <4>2. home[t] = home[u] => sock[t] # sock[u]
        <5>1. ASSUME home[t] = home[u], sock[t] = sock[u] PROVE FALSE
          <6>1. Has(t, home[u])
            BY <3>2, <5>1 DEF Close, Has
          <6> QED
            BY <1>0, <2>2, <4>1, <5>1, <6>1 DEF HandedOver, SocketsUnique
        <5> QED
          BY <5>1
      <4>3. file'[home[u]][sock[u]] = file[home[u]][sock[u]]
        BY <1>0, <3>2, <4>1, <4>2 DEF Close, Released
      <4> QED
        BY <2>1, <2>2, <4>1, <4>3 DEF Peer
    <3> QED
      BY <1>4, <3>1, <3>2 DEF Serve, Start, Receive, NoPacket, Copy, Handle, Wipe
  \* Nor its buffer, unless that is noted.
  <2>3. ASSUME NEW u \in Thread \ {t}, home[u] \notin spoilt', pc[u] = "copy"
        PROVE  buffer'[home[u]] = buffer[home[u]]
    <3>1. CASE buffer' = buffer
      BY <3>1
    <3>2. CASE Spoils(t) /\ \E m : buffer' = [buffer EXCEPT ![home[t]] = m]
      <4>1. home[t] # home[u]
        BY <1>0, <2>3, <3>2 DEF Spoils, Copying
      <4> QED
        BY <1>0, <3>2, <4>1
    <3> QED
      BY <1>4, <3>1, <3>2 DEF Serve, Start, Receive, NoPacket, Copy, Handle, Wipe, Close
  <2>4. ASSUME home'[t] \notin slipped' \cup spoilt'
        PROVE  /\ pc'[t] = "copy" => /\ buffer'[home'[t]] = got'[t]
                                     /\ Peer(t)' # Nobody /\ got'[t][1] = Peer(t)'
               /\ pc'[t] = "handle" => Peer(t)' # Nobody /\ packet'[t][1] = Peer(t)'
    <3>1. CASE Receive(t)
      <4>1. UNCHANGED <<file, home, sock>> /\ pc'[t] = "copy"
        BY <1>0, <3>1 DEF Receive
      <4>2. Peer(t) \in Conn /\ stream[Peer(t)] \in Seq(Message) /\ stream[Peer(t)] # <<>>
        BY <3>1, PeerType DEF Receive, TypeOK
      <4>3. Head(stream[Peer(t)])[1] = Peer(t)
        <5>1. Head(stream[Peer(t)]) = stream[Peer(t)][1] /\ 1 \in DOMAIN stream[Peer(t)]
          BY <4>2
        <5> QED
          BY <4>2, <5>1 DEF StreamsOwn
      <4>4. Peer(t)' = Peer(t)
        BY <4>1 DEF Peer
      <4>5. got'[t] = Head(stream[Peer(t)]) /\ buffer'[home[t]] = Head(stream[Peer(t)])
        BY <1>0, <3>1 DEF Receive
      <4> QED
        BY <1>0, <4>1, <4>2, <4>3, <4>4, <4>5
    <3>2. CASE Copy(t)
      <4>1. UNCHANGED <<file, home, sock>> /\ pc[t] = "copy" /\ pc'[t] = "handle"
        BY <1>0, <3>2 DEF Copy
      <4>2. Peer(t)' = Peer(t) /\ home[t] \notin slipped \cup spoilt
        BY <2>0, <2>4, <4>1 DEF Peer
      <4>3. buffer[home[t]] = got[t] /\ Peer(t) # Nobody /\ got[t][1] = Peer(t)
        BY <1>0, <4>1, <4>2 DEF OwnPackets
      <4>4. packet'[t] = got[t]
        BY <1>0, <3>2, <4>3 DEF Copy, Bytes
      <4> QED
        BY <4>1, <4>2, <4>3, <4>4
    <3>3. CASE pc'[t] \notin {"copy", "handle"}
      BY <3>3
    <3> QED
      BY <1>0, <1>4, <3>1, <3>2, <3>3 DEF Serve, Start, NoPacket, Handle, Wipe, Close
  <2>5. OwnPackets'
    <3>1. ASSUME NEW u \in Thread \ {t}, home'[u] \notin slipped' \cup spoilt'
          PROVE  /\ pc'[u] = "copy" => /\ buffer'[home'[u]] = got'[u]
                                       /\ Peer(u)' # Nobody /\ got'[u][1] = Peer(u)'
                 /\ pc'[u] = "handle" => Peer(u)' # Nobody /\ packet'[u][1] = Peer(u)'
      BY <1>0, <2>0, <2>1, <2>2, <2>3, <3>1 DEF OwnPackets
    <3> QED
      BY <2>4, <3>1 DEF OwnPackets
  <2>6. OwnAnswersAlone'
    <3>1. CASE replies' = replies
      BY <2>0, <3>1 DEF OwnAnswersAlone
    <3>2. CASE Handle(t) /\ Peer(t) # Nobody
      <4>1. Peer(t) \in Conn /\ at[Peer(t)] = home[t]
        BY <1>0, <3>2, PeerType DEF Peer, FilesOfProcess
      <4>2. home[t] \notin slipped \cup spoilt => packet[t][1] = Peer(t) /\ packet[t] # Invalid
        BY <1>0, <3>2 DEF Handle, OwnPackets, Invalid
      <4>3. replies' = [replies EXCEPT ![Peer(t)] = @ \cup {<<packet[t], packet[t] # Invalid>>}]
        BY <3>2 DEF Handle, Replies
      <4>4. ASSUME NEW c \in Conn, at[c] \notin slipped \cup spoilt, NEW answer \in replies'[c]
            PROVE  answer[1][1] = c /\ answer[2]
        <5>1. CASE answer \in replies[c]
          BY <4>4, <5>1 DEF OwnAnswersAlone
        <5>2. CASE c = Peer(t) /\ answer = <<packet[t], packet[t] # Invalid>>
          <6>1. packet[t][1] = c /\ packet[t] # Invalid
            BY <4>1, <4>2, <4>4, <5>2
          <6>2. answer[1] = packet[t] /\ answer[2] = (packet[t] # Invalid)
            BY <5>2
          <6> QED
            BY <6>1, <6>2
        <5> QED
          BY <1>0, <4>1, <4>3, <4>4, <5>1, <5>2
      <4> QED
        BY <2>0, <4>4 DEF OwnAnswersAlone
    <3> QED
      BY <1>4, <3>1, <3>2 DEF Serve, Start, Receive, NoPacket, Copy, Handle, Wipe, Close, Replies
  <2> QED
    BY <2>5, <2>6
<1> QED
  BY <1>1, <1>2, <1>3, <1>4 DEF Next, Loop

-----------------------------------------------------------------------------
(* The invariant and what follows from it.                                 *)

LEMMA Initial ==
    ASSUME Init
    PROVE  IInv
<1>1. None \in Fd \cup {None} /\ Invalid \in Message /\ <<>> \in Seq(Message)
  BY DEF Invalid, Message
<1>2. TypeOK
  BY <1>1 DEF Init, TypeOK, Process, Steps
<1>3. StreamsOwn /\ FilesOfProcess /\ AnsweredWasAccepted /\ OwnPackets /\ OwnAnswersAlone
  BY DEF Init, StreamsOwn, FilesOfProcess, AnsweredWasAccepted, OwnPackets, OwnAnswersAlone
<1>4. HandedOver
  BY DEF Init, HandedOver, OneStarts, SocketsUnique, PendingOpen, Pending, Starts, Has
<1>5. OpenServed
  BY DEF Init, OpenServed, Attended, Process
<1> QED
  BY <1>2, <1>3, <1>4, <1>5 DEF IInv

LEMMA StepKept ==
    ASSUME IInv, [Next]_vars
    PROVE  IInv'
<1>1. CASE Next
  BY <1>1, TypesKept, ConnectionsKept, ServingKept, OwnKept DEF IInv
<1>2. CASE UNCHANGED vars
  <2> USE <1>2 DEF vars, clients, threads, history, IInv
  <2>1. TypeOK' /\ StreamsOwn' /\ FilesOfProcess' /\ AnsweredWasAccepted'
    BY DEF TypeOK, StreamsOwn, FilesOfProcess, AnsweredWasAccepted
  <2>2. HandedOver' /\ OpenServed'
    BY DEF HandedOver, OpenServed, Attended, OneStarts, SocketsUnique, PendingOpen, Pending,
           Starts, Has
  <2>3. OwnPackets' /\ OwnAnswersAlone'
    BY DEF OwnPackets, OwnAnswersAlone, Peer
  <2> QED
    BY <2>1, <2>2, <2>3
<1> QED
  BY <1>1, <1>2

\* Who has which descriptor, from accept to close, and whose packet is in the
\* buffer, from recv to memcpy, in every reachable state.
THEOREM Invariance == Spec => []IInv
<1>1. Init => IInv
  BY Initial
<1>2. IInv /\ [Next]_vars => IInv'
  BY StepKept
<1> QED
  BY <1>1, <1>2, PTL DEF Spec

\* The types of the variables of both processes.
THEOREM TypeCorrect == Spec => []TypeOK
<1>1. IInv => TypeOK
  BY DEF IInv
<1> QED
  BY <1>1, Invariance, PTL

\* However the threads of a process interleave over its one buffer and its one
\* newSocket, a client is answered about its own packets only, as long as accept
\* was never too early and no two threads met in the buffer.
THEOREM AnswersAreOwn == Spec => []OwnAnswersAlone
<1>1. IInv => OwnAnswersAlone
  BY DEF IInv
<1> QED
  BY <1>1, Invariance, PTL

LEMMA OneServes ==
    ASSUME TypeOK, HandedOver, OpenServed
    PROVE  ServedByOneAlone
<1>0. /\ file \in [Process -> [Fd -> Conn \cup {Nobody}]] /\ pc \in [Thread -> Steps]
      /\ "main" \in Process /\ None \notin Fd
      /\ accepting \in [Process -> {"accept", "create"}]
  BY Numbers DEF TypeOK, Process
<1> SUFFICES ASSUME "main" \notin slipped, NEW f \in Fd
             PROVE  Cardinality({t \in Thread : Serves(t, f)}) =
                        IF file["main"][f] = Nobody
                             \/ (accepting["main"] = "create" /\ newSocket["main"] = f)
                        THEN 0 ELSE 1
  BY DEF ServedByOneAlone
<1>1. OneStarts("main") /\ SocketsUnique("main") /\ PendingOpen("main") /\ Attended("main")
  BY <1>0 DEF HandedOver, OpenServed
<1>2. \A t \in Thread : Serves(t, f) <=> \/ Starts(t, "main") /\ newSocket["main"] = f
                                         \/ Has(t, "main") /\ sock[t] = f
  BY DEF Serves, Starts, Has
<1>3. CASE file["main"][f] = Nobody
  <2>1. \A t \in Thread : ~Serves(t, f)
    BY <1>0, <1>1, <1>2, <1>3 DEF SocketsUnique, PendingOpen, Pending
  <2> QED
    BY <1>3, <2>1, FS_EmptySet
<1>4. CASE accepting["main"] = "create" /\ newSocket["main"] = f
  <2>1. \A t \in Thread : ~Serves(t, f)
    BY <1>0, <1>1, <1>2, <1>4 DEF SocketsUnique, OneStarts, Pending
  <2> QED
    BY <1>4, <2>1, FS_EmptySet
<1>5. CASE file["main"][f] # Nobody /\ ~(accepting["main"] = "create" /\ newSocket["main"] = f)
  <2>1. PICK t \in Thread : Serves(t, f)
    BY <1>0, <1>1, <1>2, <1>5 DEF Attended, Pending
  <2>2. \A u \in Thread : Serves(u, f) => u = t
    BY <1>0, <1>1, <1>2, <2>1 DEF SocketsUnique, OneStarts, Pending
  <2>3. {u \in Thread : Serves(u, f)} = {t}
    BY <2>1, <2>2
  <2> QED
    BY <1>5, <2>3, FS_Singleton
<1> QED
  BY <1>3, <1>4, <1>5

\* From accept to close a connection of the main server has exactly one thread,
\* and a thread never has a descriptor that is not open, as long as every thread
\* read newSocket before the next accept.
THEOREM ServedByOne == Spec => []ServedByOneAlone
<1>1. IInv => ServedByOneAlone
  BY OneServes DEF IInv
<1> QED
  BY <1>1, Invariance, PTL

-----------------------------------------------------------------------------
(* II.  What the packets of messages carry.                                *)

\* A string, and one without a semicolon.
Chars    == Seq(Int)
NoSep(s) == \A j \in 1..Len(s) : s[j] # Sep

\* Two fields.
Joined(a, b) == a \o (<<Sep>> \o b)

\* The fields before the text.
Header(id, name, size, rest) ==
    Joined(<<id>>, Joined(name, Joined(<<Date>>, Joined(<<size>>, rest))))

Said         == [by : User, text : Seq({Sep, Letter}) \ {<<>>}]
RmsgPacket   == [type : {"rmsg"}, chars : Chars, ids : Seq(Nat \ {0}),
                 aligned : BOOLEAN, countable : BOOLEAN, live : BOOLEAN]
RoomPacket   == [type : {"room"}, amount : Nat]
Packer       == [at : {"packing"}, left : Seq(Said), packet : Chars, ids : Seq(Nat \ {0}),
                 first : BOOLEAN]
ShownMessage == [says : [id : Nat, by : Chars, text : Chars], of : Nat, sound : BOOLEAN,
                 live : BOOLEAN]

PacketsTypeOK ==
    /\ typed \in Seq(Said) /\ stored \in Seq(Said)
    /\ toServer \in Seq([by : User, chars : Chars])
    /\ server \in {NotAsked, Done} \cup Packer
    /\ toClient \in Seq(RmsgPacket \cup RoomPacket)
    /\ pending \in BOOLEAN /\ refused \in BOOLEAN
    /\ amount \in Nat \cup {Unknown}
    /\ view \in Seq(ShownMessage)

\* What is stored is what was typed, cut to a message; the last may be on its way.
StoredIsTyped ==
    /\ Len(typed) = Len(stored) + Len(toServer)
    /\ \A i \in 1..Len(stored) :
          stored[i] = [by |-> typed[i].by, text |-> Cut(typed[i].text, MessageMax)]
    /\ toServer # <<>> =>
          LET m == typed[Len(typed)] IN toServer = <<[by |-> m.by, chars |-> SmsgPacket(m.text)]>>

\* The message that a packet is made of.
Sent(live, id) == IF live THEN stored[id] ELSE ReadBack(stored[id])

\* The packet is its structs and nothing else.
Structs(chars, ids, live) ==
    \E rest \in [1..Len(ids) + 1 -> Chars] :
        /\ chars = Prefix \o rest[1]
        /\ rest[Len(ids) + 1] = <<>>
        /\ \A k \in 1..Len(ids) :
              rest[k] = MessageStruct(ids[k], Sent(live, ids[k])) \o rest[k + 1]

NextId == IF server.ids = <<>> THEN 1 ELSE Last(server.ids) + 1

PackingInOrder ==
    server.at = "packing" =>
        /\ NextId + Len(server.left) <= Len(stored) + 1
        /\ \A j \in 1..Len(server.left) : server.left[j] = ReadBack(stored[NextId + j - 1])
        /\ \A k \in 1..Len(server.ids) : server.ids[k] < NextId
        /\ server.ids = <<>> => server.left # <<>> /\ server.packet = Prefix
        /\ server.first => Structs(server.packet, server.ids, FALSE)

\* What a reader finds at p is message m of that id.
Carries(live, id, m, p) ==
    LET size == Len(m.text)
        rest == Skip(p, 4)
    IN /\ p = Header(id, Names[m.by], size, rest)
       /\ rest # Null
       /\ IF live THEN \E n \in TextLost : n <= size /\ Cut(rest, size) = Cut(m.text, size - n)
          ELSE Cut(rest, size) = m.text

Carried(q) ==
    /\ \A k \in 1..Len(q.ids) : q.ids[k] <= Len(stored)
    /\ q.aligned => /\ q.ids # <<>>
                    /\ \E p \in Chars : /\ q.chars = Prefix \o p
                                         /\ Carries(q.live, q.ids[1], Sent(q.live, q.ids[1]), p)
    /\ q.countable => /\ q.ids # <<>>
                      /\ Structs(q.chars, q.ids, q.live)
                      /\ \A k \in 1..Len(q.ids) : NoSep(Sent(q.live, q.ids[k]).text)

PacketsCarried ==
    \A i \in 1..Len(toClient) : toClient[i].type = "rmsg" => Carried(toClient[i])

\* The entry is what was typed, as far as it gets.
EntryRight(v) ==
    v.sound =>
        LET m == typed[v.of]
        IN /\ v.of \in 1..Len(typed) /\ v.says.id = v.of
           /\ Len(Names[m.by]) < NameMax => v.says.by = Names[m.by]
           /\ IF v.live
              THEN \E n \in TextLost :
                      v.says.text = Cut(m.text, Least(MessageMax, Len(m.text)) - n)
              ELSE v.says.text = Cut(m.text, MessageMax - 1)

PacketsInv ==
    /\ PacketsTypeOK /\ StoredIsTyped /\ PackingInOrder /\ PacketsCarried
    /\ \A k \in 1..Len(view) : EntryRight(view[k])
    /\ SoundPacketsAreRead

\* The parts of a packet that the reader shows.
Counted(body, lacking) == UNION {1..Least(n, lacking) : n \in Counts(body)}

\* The messages stored so far stay as they are.
StoredGrows ==
    /\ Len(stored) <= Len(stored') /\ \A i \in 1..Len(stored) : stored'[i] = stored[i]

\* The strings a pointer comes to while it passes n semicolons.
Run(p, n, g) == g = [k \in 0..n |-> IF k = 0 THEN p ELSE After(g[k - 1])]

\* A non-empty set of numbers has a least one.
LEMMA LeastOf ==
  ASSUME NEW S \in SUBSET Nat, S # {}
  PROVE  \E i \in S : \A j \in S : i <= j
<1>1. PICK x \in S : \A y \in S : ~(<<y, x>> \in OpToRel(<, Nat))
  BY NatLessThanWellFounded, WFMin
<1>2. \A y \in S : ~(y < x)
  BY <1>1 DEF OpToRel
<1> QED
  BY <1>2

\* strchr finds the first semicolon.
LEMMA FirstSemicolon ==
  ASSUME NEW p \in Chars, NEW i \in 1..Len(p), p[i] = Sep, \A j \in 1..i - 1 : p[j] # Sep
  PROVE  SelectInSeq(p, IsSep) = i
<1> DEFINE I == {j \in 1..Len(p) : IsSep(p[j])}
<1>1. i \in I /\ I \subseteq Nat /\ \A j \in I : i <= j
  BY DEF IsSep, Chars
<1>2. \A j \in I : (\A k \in I : j <= k) => j = i
  BY <1>1
<1>3. (CHOOSE j \in I : \A k \in I : j <= k) = i
  BY <1>1, <1>2
<1> QED
  BY <1>1, <1>3 DEF SelectInSeq, Min

\* Without one strchr returns NULL.
LEMMA NoSemicolon ==
  ASSUME NEW p \in Chars, NoSep(p)
  PROVE  SelectInSeq(p, IsSep) = 0
BY DEF SelectInSeq, IsSep, NoSep, Chars

\* What strchr returns in general.
LEMMA SemicolonIndex ==
  ASSUME NEW p \in Chars
  PROVE  SelectInSeq(p, IsSep) \in 0..Len(p)
<1>1. CASE NoSep(p)
  BY <1>1, NoSemicolon DEF Chars
<1>2. CASE ~NoSep(p)
  <2> DEFINE S == {j \in 1..Len(p) : p[j] = Sep}
  <2>1. S # {} /\ S \in SUBSET Nat
    BY <1>2 DEF NoSep, Chars
  <2> HIDE DEF S
  <2>2. PICK i \in S : \A j \in S : i <= j
    BY <2>1, LeastOf
  <2> USE DEF S
  <2>3. i \in 1..Len(p) /\ p[i] = Sep /\ \A j \in 1..i - 1 : p[j] # Sep
    BY <2>2 DEF Chars
  <2>4. SelectInSeq(p, IsSep) = i
    BY <2>3, FirstSemicolon
  <2> QED
    BY <2>3, <2>4
<1> QED
  BY <1>1, <1>2

\* A string of one character.
LEMMA OneChar ==
  ASSUME NEW c \in Int
  PROVE  <<c>> \in Chars /\ Len(<<c>>) = 1 /\ <<c>>[1] = c
BY DEF Chars

\* Strings of one length and with the same characters are the same.
LEMMA SameChars ==
  ASSUME NEW s \in Chars, NEW t \in Chars, Len(s) = Len(t), \A i \in 1..Len(t) : s[i] = t[i]
  PROVE  s = t
BY SeqEqual DEF Chars

\* What follows and what precedes the first semicolon.
LEMMA SplitAtSemicolon ==
  ASSUME NEW a \in Chars, NEW b \in Chars, NoSep(a)
  PROVE  /\ After(a \o (<<Sep>> \o b)) = b
         /\ Field(a \o (<<Sep>> \o b)) = a
         /\ a \o (<<Sep>> \o b) \in Chars
<1> DEFINE r == <<Sep>> \o b
           p == a \o r
           n == Len(a)
<1>1. Sep \in Int
  BY DEF Sep
<1>2. <<Sep>> \in Chars /\ Len(<<Sep>>) = 1 /\ <<Sep>>[1] = Sep
  BY <1>1, OneChar
<1>3. /\ r \in Chars /\ Len(r) = 1 + Len(b)
      /\ \A i \in 1..1 + Len(b) : r[i] = IF i <= 1 THEN Sep ELSE b[i - 1]
  BY <1>2, ConcatProperties DEF Chars
<1> HIDE DEF r
<1>4. /\ p \in Chars /\ Len(p) = n + Len(r)
      /\ \A i \in 1..n + Len(r) : p[i] = IF i <= n THEN a[i] ELSE r[i - n]
  BY <1>3, ConcatProperties DEF Chars
<1> HIDE DEF p
<1>5. n \in Nat /\ Len(b) \in Nat
  BY DEF Chars
<1>6. n + 1 \in 1..Len(p) /\ p[n + 1] = Sep /\ \A j \in 1..n : p[j] # Sep
  BY <1>3, <1>4, <1>5 DEF NoSep
<1>7. SelectInSeq(p, IsSep) = n + 1
  <2>1. \A j \in 1..(n + 1) - 1 : p[j] # Sep
    BY <1>5, <1>6
  <2> QED
    BY <1>4, <1>6, <2>1, FirstSemicolon
<1>8. After(p) = SubSeq(p, n + 2, Len(p)) /\ Field(p) = SubSeq(p, 1, n)
  BY <1>5, <1>7 DEF After, Field
<1>9. SubSeq(p, n + 2, Len(p)) = b
  <2>1. \A i \in n + 2..Len(p) : p[i] \in Int
    BY <1>4, <1>5 DEF Chars
  <2>2. /\ SubSeq(p, n + 2, Len(p)) \in Seq(Int)
        /\ Len(SubSeq(p, n + 2, Len(p))) = IF n + 2 <= Len(p) THEN Len(p) - (n + 2) + 1 ELSE 0
        /\ \A i \in 1..Len(p) - (n + 2) + 1 : SubSeq(p, n + 2, Len(p))[i] = p[n + 2 + i - 1]
    BY <1>3, <1>4, <1>5, <2>1, SubSeqProperties
  <2>3. Len(SubSeq(p, n + 2, Len(p))) = Len(b)
    BY <1>3, <1>4, <1>5, <2>2
  <2>4. ASSUME NEW i \in 1..Len(b) PROVE SubSeq(p, n + 2, Len(p))[i] = b[i]
    <3>1. SubSeq(p, n + 2, Len(p))[i] = p[n + 2 + i - 1]
      BY <1>3, <1>4, <1>5, <2>2, <2>4
    <3>2. n + 2 + i - 1 \in 1..n + Len(r) /\ ~(n + 2 + i - 1 <= n) /\ n + 2 + i - 1 - n = i + 1
      BY <1>3, <1>5, <2>4
    <3>3. p[n + 2 + i - 1] = r[i + 1]
      BY <1>4, <3>2
    <3>4. i + 1 \in 1..1 + Len(b) /\ ~(i + 1 <= 1) /\ (i + 1) - 1 = i
      BY <1>5, <2>4
    <3>5. r[i + 1] = b[i]
      BY <1>3, <3>4
    <3> QED
      BY <3>1, <3>3, <3>5
  <2>5. SubSeq(p, n + 2, Len(p)) \in Chars
    BY <2>2 DEF Chars
  <2> QED
    BY <2>3, <2>4, <2>5, SameChars
<1>10. SubSeq(p, 1, n) = a
  <2>1. \A i \in 1..n : p[i] = a[i] /\ a[i] \in Int
    <3>1. \A i \in 1..n : p[i] = a[i]
      BY <1>3, <1>4, <1>5
    <3>2. \A i \in 1..n : a[i] \in Int
      BY DEF Chars
    <3> QED
      BY <3>1, <3>2
  <2>2. /\ SubSeq(p, 1, n) \in Seq(Int)
        /\ Len(SubSeq(p, 1, n)) = IF 1 <= n THEN n - 1 + 1 ELSE 0
        /\ \A i \in 1..n - 1 + 1 : SubSeq(p, 1, n)[i] = p[1 + i - 1]
    BY <1>5, <2>1, SubSeqProperties
  <2>3. Len(SubSeq(p, 1, n)) = Len(a) /\ \A i \in 1..Len(a) : SubSeq(p, 1, n)[i] = a[i]
    BY <1>5, <2>1, <2>2
  <2>4. SubSeq(p, 1, n) \in Chars
    BY <2>2 DEF Chars
  <2> QED
    BY <2>3, <2>4, SameChars
<1> USE DEF p, r
<1> QED
  BY <1>4, <1>8, <1>9, <1>10

\* NULL stays NULL, and so does what no semicolon is in.
LEMMA AfterNothing ==
  ASSUME NEW p \in Chars, NoSep(p)
  PROVE  After(p) = Null /\ Field(p) = p
BY NoSemicolon DEF After, Field

\* What follows the first semicolon is a string.
LEMMA AfterChars ==
  ASSUME NEW p \in Chars
  PROVE  After(p) \in Chars
<1> DEFINE i == SelectInSeq(p, IsSep)
<1>1. i \in 0..Len(p) /\ Len(p) \in Nat
  BY SemicolonIndex DEF Chars
<1> HIDE DEF i
<1>2. \A k \in i + 1..Len(p) : p[k] \in Int
  BY <1>1 DEF Chars
<1>3. SubSeq(p, i + 1, Len(p)) \in Seq(Int)
  BY <1>1, <1>2, SubSeqProperties
<1>4. Null \in Chars
  BY DEF Null, Chars
<1> QED
  BY <1>3, <1>4 DEF After, i, Chars

\* The strings that a pointer passes exist and are the only ones.
LEMMA RunExists ==
  ASSUME NEW p, NEW n \in Nat
  PROVE  \E g : Run(p, n, g)
<1> DEFINE S == {m \in Nat : ~\E g : Run(p, m, g)}
<1>1. Run(p, 0, [k \in 0..0 |-> p])
  <2> DEFINE g == [k \in 0..0 |-> p]
  <2>1. \A k \in 0..0 : k = 0
    OBVIOUS
  <2> QED
    BY <2>1 DEF Run
<1>2. ASSUME NEW m \in Nat, NEW g, Run(p, m, g)
      PROVE  Run(p, m + 1, [k \in 0..m + 1 |-> IF k <= m THEN g[k] ELSE After(g[m])])
  <2> DEFINE h == [k \in 0..m + 1 |-> IF k <= m THEN g[k] ELSE After(g[m])]
  <2>1. \A k \in 0..m : g[k] = IF k = 0 THEN p ELSE After(g[k - 1])
    BY <1>2 DEF Run
  <2>2. \A k \in 0..m + 1 : h[k] = IF k <= m THEN g[k] ELSE After(g[m])
    OBVIOUS
  <2>3. DOMAIN h = 0..m + 1 /\ h = [k \in 0..m + 1 |-> h[k]]
    OBVIOUS
  <2> HIDE DEF h
  <2>4. ASSUME NEW k \in 0..m + 1 PROVE h[k] = IF k = 0 THEN p ELSE After(h[k - 1])
    <3>1. CASE k = 0
      BY <2>1, <2>2, <3>1
    <3>2. CASE k \in 1..m
      <4>1. k - 1 \in 0..m /\ k \in 0..m /\ k # 0
        BY <3>2
      <4>2. h[k] = g[k] /\ h[k - 1] = g[k - 1]
        BY <2>2, <4>1
      <4>3. g[k] = After(g[k - 1])
        BY <2>1, <4>1
      <4> QED
        BY <4>1, <4>2, <4>3
    <3>3. CASE k = m + 1
      <4>1. k - 1 = m /\ k # 0 /\ ~(k <= m)
        BY <3>3
      <4>2. h[k] = After(g[m]) /\ h[m] = g[m]
        BY <2>2, <3>3
      <4> QED
        BY <4>1, <4>2
    <3> QED
      BY <3>1, <3>2, <3>3
  <2>5. h = [k \in 0..m + 1 |-> IF k = 0 THEN p ELSE After(h[k - 1])]
    BY <2>3, <2>4
  <2> QED
    BY <2>5 DEF Run, h
<1>3. SUFFICES ASSUME S # {} PROVE FALSE
  OBVIOUS
<1>4. PICK m \in S : \A j \in S : m <= j
  BY <1>3, LeastOf
<1>5. m # 0
  BY <1>1, <1>4
<1>6. m - 1 \in Nat /\ ~(m - 1 \in S)
  BY <1>4, <1>5
<1>7. PICK g : Run(p, m - 1, g)
  BY <1>6
<1>8. (m - 1) + 1 = m
  BY <1>6
<1>9. \E h : Run(p, m, h)
  <2>1. Run(p, (m - 1) + 1, [k \in 0..(m - 1) + 1 |-> IF k <= m - 1 THEN g[k] ELSE After(g[m - 1])])
    BY <1>2, <1>6, <1>7
  <2> QED
    BY <1>8, <2>1
<1> QED
  BY <1>4, <1>9

\* A longer walk begins like a shorter one.
LEMMA RunsAgree ==
  ASSUME NEW p, NEW n \in Nat, NEW m \in Nat, n <= m, NEW g, NEW h, Run(p, n, g), Run(p, m, h)
  PROVE  \A k \in 0..n : g[k] = h[k]
<1> DEFINE S == {k \in 0..n : g[k] # h[k]}
<1>1. \A k \in 0..n : g[k] = IF k = 0 THEN p ELSE After(g[k - 1])
  BY DEF Run
<1>2. \A k \in 0..m : h[k] = IF k = 0 THEN p ELSE After(h[k - 1])
  BY DEF Run
<1>3. SUFFICES ASSUME S # {} PROVE FALSE
  OBVIOUS
<1>4. S \in SUBSET Nat
  OBVIOUS
<1>5. PICK k \in S : \A j \in S : k <= j
  BY <1>3, <1>4, LeastOf
<1>6. k # 0
  BY <1>1, <1>2, <1>5
<1>7. k - 1 \in 0..n /\ ~(k - 1 \in S) /\ k \in 0..m
  BY <1>5, <1>6
<1>8. g[k - 1] = h[k - 1]
  BY <1>7
<1>9. g[k] = h[k]
  BY <1>1, <1>2, <1>5, <1>6, <1>7, <1>8
<1> QED
  BY <1>5, <1>9

\* Skip is where such a walk ends.
LEMMA SkipIsRun ==
  ASSUME NEW p, NEW n \in Nat
  PROVE  \E g : Run(p, n, g) /\ Skip(p, n) = g[n]
<1> DEFINE from == CHOOSE g : g = [k \in 0..n |-> IF k = 0 THEN p ELSE After(g[k - 1])]
<1>1. \E g : g = [k \in 0..n |-> IF k = 0 THEN p ELSE After(g[k - 1])]
  BY RunExists DEF Run
<1>2. from = [k \in 0..n |-> IF k = 0 THEN p ELSE After(from[k - 1])]
  BY <1>1
<1>3. Skip(p, n) = from[n]
  BY DEF Skip
<1> QED
  BY <1>2, <1>3 DEF Run

\* No semicolon passed: where it began.
LEMMA SkipZero ==
  ASSUME NEW p
  PROVE  Skip(p, 0) = p
<1>1. PICK g : Run(p, 0, g) /\ Skip(p, 0) = g[0]
  BY SkipIsRun
<1> QED
  BY <1>1 DEF Run

\* One semicolon more: strchr(p, ';') + 1 of where the walk was.
LEMMA SkipNext ==
  ASSUME NEW p, NEW n \in Nat
  PROVE  Skip(p, n + 1) = After(Skip(p, n))
<1>1. PICK g : Run(p, n, g) /\ Skip(p, n) = g[n]
  BY SkipIsRun
<1>2. n + 1 \in Nat
  OBVIOUS
<1>3. PICK h : Run(p, n + 1, h) /\ Skip(p, n + 1) = h[n + 1]
  BY <1>2, SkipIsRun
<1>4. \A k \in 0..n : g[k] = h[k]
  BY <1>1, <1>2, <1>3, RunsAgree
<1>5. n + 1 \in 0..n + 1 /\ n + 1 # 0 /\ (n + 1) - 1 = n
  OBVIOUS
<1>6. h[n + 1] = After(h[n])
  BY <1>3, <1>5 DEF Run
<1> QED
  BY <1>1, <1>3, <1>4, <1>6

\* A walk along a string stays in it.
LEMMA SkipChars ==
  ASSUME NEW p \in Chars, NEW n \in Nat
  PROVE  Skip(p, n) \in Chars
<1> DEFINE S == {m \in Nat : Skip(p, m) \notin Chars}
<1>1. SUFFICES ASSUME S # {} PROVE FALSE
  OBVIOUS
<1>2. PICK m \in S : \A j \in S : m <= j
  BY <1>1, LeastOf
<1>3. m # 0
  BY <1>2, SkipZero
<1>4. m - 1 \in Nat /\ ~(m - 1 \in S) /\ (m - 1) + 1 = m
  BY <1>2, <1>3
<1>5. Skip(p, m) = After(Skip(p, m - 1))
  BY <1>4, SkipNext
<1> QED
  BY <1>2, <1>4, <1>5, AfterChars

\* Two walks are one.
LEMMA SkipTwice ==
  ASSUME NEW p, NEW n \in Nat, NEW m \in Nat
  PROVE  Skip(Skip(p, n), m) = Skip(p, n + m)
<1> DEFINE S == {j \in Nat : Skip(Skip(p, n), j) # Skip(p, n + j)}
<1>1. SUFFICES ASSUME S # {} PROVE FALSE
  OBVIOUS
<1>2. PICK j \in S : \A i \in S : j <= i
  BY <1>1, LeastOf
<1>3. j # 0
  <2>1. Skip(Skip(p, n), 0) = Skip(p, n + 0)
    BY SkipZero
  <2> QED
    BY <1>2, <2>1
<1>4. j - 1 \in Nat /\ ~(j - 1 \in S) /\ (j - 1) + 1 = j /\ n + (j - 1) \in Nat
  BY <1>2, <1>3
<1>5. (n + (j - 1)) + 1 = n + j
  BY <1>4
<1>6. Skip(Skip(p, n), j) = After(Skip(Skip(p, n), j - 1))
  BY <1>4, SkipNext
<1>7. Skip(p, n + j) = After(Skip(p, n + (j - 1)))
  BY <1>4, <1>5, SkipNext
<1> QED
  BY <1>2, <1>4, <1>6, <1>7

\* The walk gives up at NULL.
LEMMA SkipNull ==
  ASSUME NEW n \in Nat
  PROVE  Skip(Null, n) = Null
<1> DEFINE S == {m \in Nat : Skip(Null, m) # Null}
<1>1. SUFFICES ASSUME S # {} PROVE FALSE
  OBVIOUS
<1>2. PICK m \in S : \A j \in S : m <= j
  BY <1>1, LeastOf
<1>3. m # 0
  BY <1>2, SkipZero
<1>4. m - 1 \in Nat /\ ~(m - 1 \in S) /\ (m - 1) + 1 = m
  BY <1>2, <1>3
<1>5. Skip(Null, m) = After(Skip(Null, m - 1))
  BY <1>4, SkipNext
<1>6. After(Null) = Null
  <2>1. Null \in Chars /\ NoSep(Null)
    BY DEF Null, Chars, NoSep, Sep
  <2> QED
    BY <2>1, AfterNothing
<1> QED
  BY <1>2, <1>4, <1>5, <1>6

\* The empty string and NULL, which the model has as a string.
LEMMA EmptyChars ==
  /\ <<>> \in Chars /\ Len(<<>>) = 0 /\ NoSep(<<>>)
  /\ Null \in Chars /\ Null # <<>> /\ Len(Null) = 1 /\ NoSep(Null)
BY DEF Null, Chars, NoSep, Sep

\* Nothing follows the end.
LEMMA SkipEnd ==
  ASSUME NEW n \in Nat \ {0}
  PROVE  Skip(<<>>, n) = Null
<1>1. n - 1 \in Nat /\ n = 1 + (n - 1)
  OBVIOUS
<1>2. Skip(<<>>, 1) = Null
  BY SkipZero, SkipNext, EmptyChars, AfterNothing
<1>3. Skip(Skip(<<>>, 1), n - 1) = Skip(<<>>, 1 + (n - 1))
  BY <1>1, SkipTwice
<1> QED
  BY <1>1, <1>2, <1>3, SkipNull

\* The two fields of a string that is made of two.
LEMMA JoinedSplit ==
  ASSUME NEW a \in Chars, NEW b \in Chars, NoSep(a)
  PROVE  After(Joined(a, b)) = b /\ Field(Joined(a, b)) = a /\ Joined(a, b) \in Chars
BY SplitAtSemicolon DEF Joined

\* Four fields and what follows them.
LEMMA FourFieldsRead ==
  ASSUME NEW a \in Chars, NEW b \in Chars, NEW c \in Chars, NEW d \in Chars, NEW r \in Chars,
         NoSep(a), NoSep(b), NoSep(c), NoSep(d),
         NEW p, p = Joined(a, Joined(b, Joined(c, Joined(d, r))))
  PROVE  /\ p \in Chars /\ Field(p) = a
         /\ Skip(p, 1) = Joined(b, Joined(c, Joined(d, r))) /\ Field(Skip(p, 1)) = b
         /\ Skip(p, 2) = Joined(c, Joined(d, r))
         /\ Skip(p, 3) = Joined(d, r)
         /\ Skip(p, 4) = r
<1>1. Joined(d, r) \in Chars /\ After(Joined(d, r)) = r
  BY JoinedSplit
<1>2. Joined(c, Joined(d, r)) \in Chars /\ After(Joined(c, Joined(d, r))) = Joined(d, r)
  BY <1>1, JoinedSplit
<1>3. /\ Joined(b, Joined(c, Joined(d, r))) \in Chars
      /\ Field(Joined(b, Joined(c, Joined(d, r)))) = b
      /\ After(Joined(b, Joined(c, Joined(d, r)))) = Joined(c, Joined(d, r))
  BY <1>2, JoinedSplit
<1>4. p \in Chars /\ Field(p) = a /\ After(p) = Joined(b, Joined(c, Joined(d, r)))
  BY <1>3, JoinedSplit
<1>5. Skip(p, 0 + 1) = After(Skip(p, 0)) /\ Skip(p, 1 + 1) = After(Skip(p, 1))
  BY SkipNext
<1>6. Skip(p, 2 + 1) = After(Skip(p, 2)) /\ Skip(p, 3 + 1) = After(Skip(p, 3))
  BY SkipNext
<1>7. Skip(p, 0) = p
  BY SkipZero
<1>8. 0 + 1 = 1 /\ 1 + 1 = 2 /\ 2 + 1 = 3 /\ 3 + 1 = 4
  OBVIOUS
<1>9. Skip(p, 1) = Joined(b, Joined(c, Joined(d, r)))
  BY <1>4, <1>5, <1>7, <1>8
<1>10. Skip(p, 2) = Joined(c, Joined(d, r))
  BY <1>3, <1>5, <1>8, <1>9
<1>11. Skip(p, 3) = Joined(d, r)
  BY <1>2, <1>6, <1>8, <1>10
<1>12. Skip(p, 4) = r
  BY <1>1, <1>6, <1>8, <1>11
<1> QED
  BY <1>3, <1>4, <1>9, <1>10, <1>11, <1>12

\* atoi reads the number that the field begins with.
LEMMA AtoiRead ==
  ASSUME NEW n \in Nat, NEW b \in Chars
  PROVE  Atoi(Joined(<<n>>, b)) = n /\ Joined(<<n>>, b) # <<>>
<1>1. <<n>> \in Chars /\ Len(<<n>>) = 1 /\ <<n>>[1] = n /\ <<Sep>> \in Chars /\ Len(<<Sep>>) = 1
  BY OneChar DEF Sep
<1>2. <<Sep>> \o b \in Chars /\ Len(<<Sep>> \o b) = 1 + Len(b) /\ Len(b) \in Nat
  BY <1>1, ConcatProperties DEF Chars
<1> DEFINE r == <<Sep>> \o b
           p == <<n>> \o r
<1> HIDE DEF r
<1>3. /\ p \in Chars /\ Len(p) = 1 + Len(r)
      /\ \A i \in 1..1 + Len(r) : p[i] = IF i <= 1 THEN <<n>>[i] ELSE r[i - 1]
  BY <1>1, <1>2, ConcatProperties DEF Chars, r
<1>4. Len(r) \in Nat
  BY <1>2 DEF r
<1>5. p[1] = n /\ Len(p) # 0
  BY <1>1, <1>3, <1>4
<1> HIDE DEF p
<1>6. p # <<>> /\ Head(p) = n
  BY <1>3, <1>5 DEF Chars
<1>7. Joined(<<n>>, b) = p
  BY DEF Joined, p, r
<1> QED
  BY <1>6, <1>7 DEF Atoi

\* It never returns less than 0: the packets have no negative numbers.
LEMMA AtoiNat ==
  ASSUME NEW p \in Chars
  PROVE  Atoi(p) \in Nat
BY DEF Atoi, Chars

\* A field of a string is a string.
LEMMA FieldChars ==
  ASSUME NEW p \in Chars
  PROVE  Field(p) \in Chars
<1> DEFINE i == SelectInSeq(p, IsSep)
<1>1. i \in 0..Len(p) /\ Len(p) \in Nat
  BY SemicolonIndex DEF Chars
<1> HIDE DEF i
<1>2. \A k \in 1..i - 1 : p[k] \in Int
  BY <1>1 DEF Chars
<1>3. i - 1 \in Int
  BY <1>1
<1>4. SubSeq(p, 1, i - 1) \in Seq(Int)
  BY <1>2, <1>3, SubSeqProperties
<1> QED
  BY <1>4 DEF Field, i, Chars

\* The beginning of a sequence is one of the same elements.
LEMMA CutSeq ==
  ASSUME NEW S, NEW s \in Seq(S), NEW n \in Int
  PROVE  Cut(s, n) \in Seq(S)
<1> DEFINE l == Least(n, Len(s))
<1>1. l \in Int /\ l <= Len(s) /\ Len(s) \in Nat
  BY DEF Least
<1> HIDE DEF l
<1>2. \A i \in 1..l : s[i] \in S
  BY <1>1
<1>3. SubSeq(s, 1, l) \in Seq(S)
  BY <1>1, <1>2, SubSeqProperties
<1> QED
  BY <1>3 DEF Cut, l

\* The first n elements, or all.
LEMMA CutIs ==
  ASSUME NEW S, NEW s \in Seq(S), NEW n \in Nat
  PROVE  /\ Cut(s, n) \in Seq(S)
         /\ Len(Cut(s, n)) = Least(n, Len(s))
         /\ \A i \in 1..Least(n, Len(s)) : Cut(s, n)[i] = s[i]
<1> DEFINE l == Least(n, Len(s))
<1>1. l \in Int /\ l <= Len(s) /\ Len(s) \in Nat /\ l >= 0
  BY DEF Least
<1> HIDE DEF l
<1>2. \A i \in 1..l : s[i] \in S
  BY <1>1
<1>3. /\ SubSeq(s, 1, l) \in Seq(S)
      /\ Len(SubSeq(s, 1, l)) = IF 1 <= l THEN l - 1 + 1 ELSE 0
      /\ \A i \in 1..l - 1 + 1 : SubSeq(s, 1, l)[i] = s[1 + i - 1]
  BY <1>1, <1>2, SubSeqProperties
<1>4. l - 1 + 1 = l
  BY <1>1
<1>5. \A i \in 1..l : SubSeq(s, 1, l)[i] = s[i]
  BY <1>3, <1>4
<1>6. Len(SubSeq(s, 1, l)) = l
  BY <1>1, <1>3
<1> QED
  BY <1>3, <1>5, <1>6 DEF Cut, l

\* Cut twice is cut to the shorter length.
LEMMA CutTwice ==
  ASSUME NEW S, NEW s \in Seq(S), NEW n \in Nat, NEW m \in Nat
  PROVE  Cut(Cut(s, n), m) = Cut(s, Least(n, m))
<1> DEFINE a == Cut(s, n)
           b == Cut(a, m)
           c == Cut(s, Least(n, m))
<1>1. Len(s) \in Nat /\ Least(n, m) \in Nat
  BY DEF Least
<1>2. /\ a \in Seq(S) /\ Len(a) = Least(n, Len(s))
      /\ \A i \in 1..Least(n, Len(s)) : a[i] = s[i]
  BY CutIs
<1> HIDE DEF a
<1>3. /\ b \in Seq(S) /\ Len(b) = Least(m, Len(a))
      /\ \A i \in 1..Least(m, Len(a)) : b[i] = a[i]
  BY <1>2, CutIs
<1>4. /\ c \in Seq(S) /\ Len(c) = Least(Least(n, m), Len(s))
      /\ \A i \in 1..Least(Least(n, m), Len(s)) : c[i] = s[i]
  BY <1>1, CutIs
<1> HIDE DEF b, c
<1>5. Len(b) = Len(c)
  BY <1>1, <1>2, <1>3, <1>4 DEF Least
<1>6. \A i \in 1..Len(b) : b[i] = c[i]
  BY <1>1, <1>2, <1>3, <1>4 DEF Least
<1>7. b = c
  BY <1>3, <1>4, <1>5, <1>6, SeqEqual
<1> QED
  BY <1>7 DEF a, b, c

\* Nothing is cut off what is short enough.
LEMMA CutAll ==
  ASSUME NEW S, NEW s \in Seq(S), NEW n \in Nat, n >= Len(s)
  PROVE  Cut(s, n) = s
<1>1. Len(s) \in Nat /\ Least(n, Len(s)) = Len(s)
  BY DEF Least
<1>2. SubSeq(s, 1, Len(s)) = s
  BY SubSeqFull
<1> QED
  BY <1>1, <1>2 DEF Cut

\* Cutting what is longer leaves the beginning alone.
LEMMA CutOfConcat ==
  ASSUME NEW S, NEW s \in Seq(S), NEW t \in Seq(S), NEW n \in Nat, n <= Len(s)
  PROVE  Cut(s \o t, n) = Cut(s, n)
<1>1. /\ s \o t \in Seq(S) /\ Len(s \o t) = Len(s) + Len(t)
      /\ \A i \in 1..Len(s) + Len(t) : (s \o t)[i] = IF i <= Len(s) THEN s[i] ELSE t[i - Len(s)]
  BY ConcatProperties
<1> DEFINE u == s \o t
<1> HIDE DEF u
<1>2. Len(s) \in Nat /\ Len(t) \in Nat
  OBVIOUS
<1>3. /\ Cut(u, n) \in Seq(S) /\ Len(Cut(u, n)) = Least(n, Len(u))
      /\ \A i \in 1..Least(n, Len(u)) : Cut(u, n)[i] = u[i]
  BY <1>1, CutIs DEF u
<1>4. /\ Cut(s, n) \in Seq(S) /\ Len(Cut(s, n)) = Least(n, Len(s))
      /\ \A i \in 1..Least(n, Len(s)) : Cut(s, n)[i] = s[i]
  BY CutIs
<1>5. Least(n, Len(u)) = n /\ Least(n, Len(s)) = n
  BY <1>1, <1>2 DEF Least, u
<1>6. \A i \in 1..n : Cut(u, n)[i] = Cut(s, n)[i]
  BY <1>1, <1>2, <1>3, <1>4, <1>5 DEF u
<1> QED
  BY <1>3, <1>4, <1>5, <1>6, SeqEqual DEF u

\* The cut falls into the second part.
LEMMA CutOfBoth ==
  ASSUME NEW S, NEW s \in Seq(S), NEW t \in Seq(S), NEW n \in Nat
  PROVE  Cut(s \o t, Len(s) + n) = s \o Cut(t, n)
<1> DEFINE u == s \o t
           c == Cut(t, n)
           v == s \o c
           w == Cut(u, Len(s) + n)
<1>1. Len(s) \in Nat /\ Len(t) \in Nat /\ Len(s) + n \in Nat
  OBVIOUS
<1>2. /\ u \in Seq(S) /\ Len(u) = Len(s) + Len(t)
      /\ \A i \in 1..Len(s) + Len(t) : u[i] = IF i <= Len(s) THEN s[i] ELSE t[i - Len(s)]
  BY ConcatProperties
<1>3. c \in Seq(S) /\ Len(c) = Least(n, Len(t)) /\ \A i \in 1..Least(n, Len(t)) : c[i] = t[i]
  BY CutIs
<1> HIDE DEF u, c
<1>4. /\ v \in Seq(S) /\ Len(v) = Len(s) + Len(c)
      /\ \A i \in 1..Len(s) + Len(c) : v[i] = IF i <= Len(s) THEN s[i] ELSE c[i - Len(s)]
  BY <1>3, ConcatProperties
<1>5. /\ w \in Seq(S) /\ Len(w) = Least(Len(s) + n, Len(u))
      /\ \A i \in 1..Least(Len(s) + n, Len(u)) : w[i] = u[i]
  BY <1>1, <1>2, CutIs
<1> HIDE DEF v, w
<1>6. Len(w) = Len(v)
  BY <1>1, <1>2, <1>3, <1>4, <1>5 DEF Least
<1>7. Len(w) <= Len(u) /\ Least(n, Len(t)) <= Len(t)
  BY <1>1, <1>2, <1>5 DEF Least
<1>8. ASSUME NEW i \in 1..Len(w) PROVE w[i] = v[i]
  <2>1. w[i] = u[i] /\ i \in 1..Len(s) + Len(t) /\ i \in 1..Len(s) + Len(c)
    BY <1>1, <1>2, <1>4, <1>5, <1>6, <1>7, <1>8
  <2>2. CASE i <= Len(s)
    BY <1>2, <1>4, <2>1, <2>2
  <2>3. CASE ~(i <= Len(s))
    <3>1. i - Len(s) \in 1..Least(n, Len(t))
      BY <1>1, <1>3, <2>1, <2>3 DEF Least
    <3> QED
      BY <1>2, <1>3, <1>4, <2>1, <2>3, <3>1
  <2> QED
    BY <2>2, <2>3
<1>9. w = v
  BY <1>4, <1>5, <1>6, <1>8, SeqEqual
<1> QED
  BY <1>9 DEF u, c, v, w

\* Strings written one after the other are a string.
LEMMA ConcatChars ==
  \A a, b \in Chars : a \o b \in Chars
BY ConcatProperties DEF Chars

\* snprintf writes the same whatever is put together first.
LEMMA Regroup ==
  \A a, b, c \in Chars : (a \o b) \o c = a \o (b \o c)
<1>1. ASSUME NEW a \in Chars, NEW b \in Chars, NEW c \in Chars
      PROVE  (a \o b) \o c = a \o (b \o c)
  BY ConcatAssociative DEF Chars
<1> QED
  BY <1>1

\* Two literal characters are one and one.
LEMMA LiteralTwo ==
  ASSUME NEW a \in Int, NEW b \in Int
  PROVE  <<a, b>> = <<a>> \o <<b>> /\ <<a, b>> \in Chars
<1>1. <<a>> \in Chars /\ <<b>> \in Chars /\ <<a, b>> \in Chars
  BY DEF Chars
<1>2. /\ <<a>> \o <<b>> \in Seq(Int) /\ Len(<<a>> \o <<b>>) = Len(<<a>>) + Len(<<b>>)
      /\ \A i \in 1..Len(<<a>>) + Len(<<b>>) :
           (<<a>> \o <<b>>)[i] = IF i <= Len(<<a>>) THEN <<a>>[i] ELSE <<b>>[i - Len(<<a>>)]
  BY <1>1, ConcatProperties DEF Chars
<1>3. Len(<<a>>) = 1 /\ Len(<<b>>) = 1 /\ Len(<<a, b>>) = 2
  OBVIOUS
<1>4. <<a>>[1] = a /\ <<b>>[1] = b /\ <<a, b>>[1] = a /\ <<a, b>>[2] = b
  OBVIOUS
<1> DEFINE x == <<a>> \o <<b>>
<1>5. x \in Seq(Int) /\ Len(x) = 2 /\ x[1] = a /\ x[2] = b
  BY <1>2, <1>3, <1>4
<1> HIDE DEF x
<1>6. <<a, b>> = x
  BY <1>1, <1>3, <1>4, <1>5, SeqEqual DEF Chars
<1> QED
  BY <1>1, <1>6 DEF x

\* Literals, taken apart in front of what follows them.
LEMMA PairThen ==
  ASSUME NEW a \in Int, NEW b \in Int, NEW x \in Chars
  PROVE  <<a, b>> \o x = <<a>> \o (<<b>> \o x) /\ <<a, b>> \o x \in Chars
<1>1. <<a>> \in Chars /\ <<b>> \in Chars /\ <<a, b>> \in Chars
  BY LiteralTwo DEF Chars
<1>2. (<<a>> \o <<b>>) \o x = <<a>> \o (<<b>> \o x)
  BY <1>1, Regroup, ZenonT(20)
<1>3. <<a, b>> = <<a>> \o <<b>>
  BY LiteralTwo
<1> QED
  BY <1>1, <1>2, <1>3, ConcatChars, ZenonT(20)

\* Two fields of one character each.
LEMMA TwoFields ==
  ASSUME NEW a \in Int, NEW b \in Int, NEW x \in Chars
  PROVE  <<a, Sep, b, Sep>> \o x = Joined(<<a>>, Joined(<<b>>, x))
<1> DEFINE y == <<a, Sep>>
           z == <<b, Sep>>
           w == <<a, Sep, b, Sep>>
           u == y \o z
<1>1. Sep \in Int
  BY DEF Sep
<1>2. y \in Seq(Int) /\ z \in Seq(Int) /\ Len(y) = 2 /\ Len(z) = 2
  BY <1>1
<1>3. y[1] = a /\ y[2] = Sep /\ z[1] = b /\ z[2] = Sep
  OBVIOUS
<1>4. w \in Seq(Int) /\ Len(w) = 4 /\ w[1] = a /\ w[2] = Sep /\ w[3] = b /\ w[4] = Sep
  BY <1>1
<1>5. y \o x = Joined(<<a>>, x) /\ z \o x = Joined(<<b>>, x) /\ z \o x \in Chars
  BY <1>1, PairThen DEF Joined
<1>6. PICK v \in Chars : v = z \o x
  BY <1>5
<1>7. y \o v = Joined(<<a>>, v)
  BY <1>1, PairThen DEF Joined
<1> HIDE DEF y, z, w
<1>8. /\ u \in Seq(Int) /\ Len(u) = Len(y) + Len(z)
      /\ \A i \in 1..Len(y) + Len(z) : u[i] = IF i <= Len(y) THEN y[i] ELSE z[i - Len(y)]
  BY <1>2, ConcatProperties
<1>9. u \o x = y \o (z \o x)
  BY <1>2, Regroup, ZenonT(20) DEF Chars
<1> HIDE DEF u
<1>10. u[1] = y[1] /\ u[2] = y[2] /\ u[3] = z[1] /\ u[4] = z[2] /\ Len(u) = 4
  BY <1>2, <1>8
<1>11. \A i \in 1..4 : i = 1 \/ i = 2 \/ i = 3 \/ i = 4
  OBVIOUS
<1>12. \A i \in 1..4 : u[i] = w[i]
  BY <1>3, <1>4, <1>10, <1>11
<1>13. u = w
  BY <1>4, <1>8, <1>10, <1>12, SeqEqual
<1>14. w \o x = Joined(<<a>>, Joined(<<b>>, x))
  BY <1>5, <1>6, <1>7, <1>9, <1>13, Zenon
<1> QED
  BY <1>14 DEF w

\* They are a string.
LEMMA TwoFieldsChars ==
  ASSUME NEW a \in Int, NEW b \in Int, NEW x \in Chars
  PROVE  Joined(<<a>>, Joined(<<b>>, x)) \in Chars
<1>1. <<a>> \in Chars /\ <<b>> \in Chars /\ <<Sep>> \in Chars
  BY DEF Chars, Sep
<1>2. <<Sep>> \o x \in Chars
  BY <1>1, ConcatChars
<1>3. Joined(<<b>>, x) \in Chars
  BY <1>1, <1>2, ConcatChars DEF Joined
<1>4. <<Sep>> \o Joined(<<b>>, x) \in Chars
  BY <1>1, <1>3, ConcatChars
<1> QED
  BY <1>1, <1>4, ConcatChars, ZenonT(20) DEF Joined

\* The codes of the model are characters, none of them a semicolon.
LEMMA CodesAreChars ==
  /\ Sep \in Int /\ Rmsg \in Int /\ Smsg \in Int /\ Key \in Int /\ Room \in Int
  /\ Date \in Nat /\ Sep # Rmsg /\ Sep # Smsg /\ Sep # Key /\ Sep # Room /\ Sep # Date
BY SizesAssumption DEF Sep, Rmsg, Smsg, Key, Room, Date

\* A character other than a semicolon is a field.
LEMMA NoSepOne ==
  ASSUME NEW c \in Int, c # Sep
  PROVE  NoSep(<<c>>) /\ <<c>> \in Chars
BY OneChar DEF NoSep

\* rmsg;<chat_id>; and what follows.
LEMMA PrefixThen ==
  ASSUME NEW p \in Chars
  PROVE  Skip(Prefix \o p, 2) = p /\ Prefix \o p \in Chars
<1>1. Prefix \o p = Joined(<<Rmsg>>, Joined(<<Room>>, p))
  BY CodesAreChars, TwoFields DEF Prefix
<1>2. NoSep(<<Rmsg>>) /\ <<Rmsg>> \in Chars /\ NoSep(<<Room>>) /\ <<Room>> \in Chars
  BY CodesAreChars, NoSepOne
<1>3. After(Joined(<<Room>>, p)) = p /\ Joined(<<Room>>, p) \in Chars
  BY <1>2, JoinedSplit
<1>4. /\ After(Joined(<<Rmsg>>, Joined(<<Room>>, p))) = Joined(<<Room>>, p)
      /\ Joined(<<Rmsg>>, Joined(<<Room>>, p)) \in Chars
  BY <1>2, <1>3, JoinedSplit
<1> DEFINE q == Prefix \o p
<1>5. After(q) = Joined(<<Room>>, p) /\ q \in Chars
  BY <1>1, <1>4
<1> HIDE DEF q
<1>6. Skip(q, 0) = q /\ Skip(q, 0 + 1) = After(Skip(q, 0)) /\ Skip(q, 1 + 1) = After(Skip(q, 1))
  BY SkipZero, SkipNext
<1>7. 0 + 1 = 1 /\ 1 + 1 = 2
  OBVIOUS
<1>8. Skip(q, 2) = p
  BY <1>3, <1>5, <1>6, <1>7
<1> QED
  BY <1>5, <1>8 DEF q

\* The fields of smsg;<session>;<chat_id>;<msg_size>;<message>.
LEMMA SmsgShape ==
  ASSUME NEW t \in Chars
  PROVE  SmsgPacket(t) = Joined(<<Smsg>>, Joined(<<Key>>, Joined(<<Room>>, Joined(<<Len(t)>>, t))))
<1>1. Len(t) \in Int
  BY DEF Chars
<1> DEFINE n == Len(t)
<1>2. n \in Int
  BY <1>1
<1> HIDE DEF n
<1>3. <<Smsg, Sep, Key, Sep>> \in Chars /\ <<Room, Sep, n, Sep>> \in Chars
  BY <1>2, CodesAreChars DEF Chars
<1>4. <<Smsg, Sep, Key, Sep, Room, Sep, n, Sep>> = <<Smsg, Sep, Key, Sep>> \o <<Room, Sep, n, Sep>>
  <2> DEFINE y == <<Smsg, Sep, Key, Sep>>
             z == <<Room, Sep, n, Sep>>
             w == <<Smsg, Sep, Key, Sep, Room, Sep, n, Sep>>
             u == y \o z
  <2>1. Len(y) = 4 /\ Len(z) = 4 /\ w \in Seq(Int) /\ Len(w) = 8
    BY <1>2, CodesAreChars
  <2>2. y[1] = Smsg /\ y[2] = Sep /\ y[3] = Key /\ y[4] = Sep
    OBVIOUS
  <2>3. z[1] = Room /\ z[2] = Sep /\ z[3] = n /\ z[4] = Sep
    OBVIOUS
  <2>4. /\ w[1] = Smsg /\ w[2] = Sep /\ w[3] = Key /\ w[4] = Sep
        /\ w[5] = Room /\ w[6] = Sep /\ w[7] = n /\ w[8] = Sep
    OBVIOUS
  <2>5. y \in Seq(Int) /\ z \in Seq(Int)
    BY <1>3 DEF Chars
  <2> HIDE DEF y, z, w
  <2>6. /\ u \in Seq(Int) /\ Len(u) = Len(y) + Len(z)
        /\ \A i \in 1..Len(y) + Len(z) : u[i] = IF i <= Len(y) THEN y[i] ELSE z[i - Len(y)]
    BY <2>5, ConcatProperties
  <2> HIDE DEF u
  <2>7. /\ u[1] = y[1] /\ u[2] = y[2] /\ u[3] = y[3] /\ u[4] = y[4]
        /\ u[5] = z[1] /\ u[6] = z[2] /\ u[7] = z[3] /\ u[8] = z[4] /\ Len(u) = 8
    BY <2>1, <2>6
  <2>8. \A i \in 1..8 : i \in {1, 2, 3, 4} \/ i \in {5, 6, 7, 8}
    OBVIOUS
  <2>9. \A i \in 1..8 : u[i] = w[i]
    BY <2>2, <2>3, <2>4, <2>7, <2>8
  <2>10. u = w
    BY <2>1, <2>6, <2>7, <2>9, SeqEqual
  <2> QED
    BY <2>10 DEF u, w, y, z
<1>5. <<Room, Sep, n, Sep>> \o t = Joined(<<Room>>, Joined(<<n>>, t))
  BY <1>2, CodesAreChars, TwoFields
<1>6. Joined(<<Room>>, Joined(<<n>>, t)) \in Chars
  BY <1>2, CodesAreChars, TwoFieldsChars
<1>7. <<Smsg, Sep, Key, Sep>> \o Joined(<<Room>>, Joined(<<n>>, t))
        = Joined(<<Smsg>>, Joined(<<Key>>, Joined(<<Room>>, Joined(<<n>>, t))))
  <2> DEFINE x == Joined(<<Room>>, Joined(<<n>>, t))
  <2>1. x \in Chars
    BY <1>6
  <2> HIDE DEF x
  <2>2. <<Smsg, Sep, Key, Sep>> \o x = Joined(<<Smsg>>, Joined(<<Key>>, x))
    BY <2>1, CodesAreChars, TwoFields
  <2> QED
    BY <2>2 DEF x
<1>8. (<<Smsg, Sep, Key, Sep>> \o <<Room, Sep, n, Sep>>) \o t
        = <<Smsg, Sep, Key, Sep>> \o (<<Room, Sep, n, Sep>> \o t)
  BY <1>3, Regroup, ZenonT(20)
<1>9. <<Smsg, Sep, Key, Sep, Room, Sep, n, Sep>> \o t
        = Joined(<<Smsg>>, Joined(<<Key>>, Joined(<<Room>>, Joined(<<n>>, t))))
  BY <1>4, <1>5, <1>7, <1>8, Zenon
<1> QED
  BY <1>9 DEF SmsgPacket, n

\* A message has an author with a name and a text that is not empty.
LEMMA SaidText ==
  ASSUME NEW m \in Said
  PROVE  /\ m.by \in User /\ Names[m.by] \in Chars /\ NoSep(Names[m.by])
         /\ Len(Names[m.by]) \in 1..NameMax
         /\ m.text \in Chars /\ Len(m.text) \in Nat \ {0}
         /\ m.text \in Seq({Sep, Letter}) /\ \A i \in 1..Len(m.text) : m.text[i] \in {Sep, Letter}
<1>1. m.by \in User /\ m.text \in Seq({Sep, Letter}) /\ m.text # <<>>
  BY DEF Said
<1>2. /\ Names[m.by] \in Seq(Int) /\ Len(Names[m.by]) \in 1..NameMax
      /\ \A i \in DOMAIN Names[m.by] : Names[m.by][i] < Key
  BY <1>1, SizesAssumption
<1>3. \A i \in 1..Len(Names[m.by]) : Names[m.by][i] # Sep
  BY <1>2 DEF Key, Sep
<1>4. {Sep, Letter} \subseteq Int
  BY DEF Sep, Letter
<1>5. m.text \in Seq(Int)
  BY <1>1, <1>4, SeqMonotonic
<1>6. Len(m.text) \in Nat \ {0}
  BY <1>1, EmptySeq
<1>7. \A i \in 1..Len(m.text) : m.text[i] \in {Sep, Letter}
  BY <1>1, ElementOfSeq
<1> QED
  BY <1>1, <1>2, <1>3, <1>5, <1>6, <1>7 DEF Chars, NoSep

\* What next_msg_struct and extract_next_msg_struct find in the fields.
LEMMA HeaderRead ==
  ASSUME NEW id \in Nat, NEW name \in Chars, NoSep(name), NEW n \in Nat, NEW rest \in Chars,
         NEW p, p = Header(id, name, n, rest)
  PROVE  /\ p \in Chars /\ p # <<>> /\ Atoi(p) = id
         /\ Field(Skip(p, 1)) = name /\ Atoi(Skip(p, 3)) = n /\ Skip(p, 4) = rest
<1>1. id # Sep /\ n # Sep /\ Date # Sep /\ id \in Int /\ n \in Int /\ Date \in Int
  BY CodesAreChars DEF Sep
<1>2. /\ NoSep(<<id>>) /\ <<id>> \in Chars /\ NoSep(<<Date>>) /\ <<Date>> \in Chars
      /\ NoSep(<<n>>) /\ <<n>> \in Chars
  BY <1>1, NoSepOne
<1>3. p = Joined(<<id>>, Joined(name, Joined(<<Date>>, Joined(<<n>>, rest))))
  BY DEF Header
<1>4. /\ p \in Chars
      /\ Skip(p, 1) = Joined(name, Joined(<<Date>>, Joined(<<n>>, rest)))
      /\ Field(Skip(p, 1)) = name
      /\ Skip(p, 3) = Joined(<<n>>, rest)
      /\ Skip(p, 4) = rest
  BY <1>2, <1>3, FourFieldsRead
<1>5. Joined(<<n>>, rest) \in Chars
  BY <1>2, JoinedSplit
<1>6. Joined(<<Date>>, Joined(<<n>>, rest)) \in Chars
  BY <1>2, <1>5, JoinedSplit
<1>7. Joined(name, Joined(<<Date>>, Joined(<<n>>, rest))) \in Chars
  BY <1>6, JoinedSplit
<1>8. Atoi(p) = id /\ p # <<>>
  BY <1>3, <1>7, AtoiRead
<1>9. Atoi(Skip(p, 3)) = n
  BY <1>4, AtoiRead
<1> QED
  BY <1>4, <1>8, <1>9

\* The literals of the packets are strings.
LEMMA LiteralsAreChars ==
  ASSUME NEW a \in Int, NEW b \in Int
  PROVE  /\ <<a, Sep>> \in Chars /\ <<a, Sep, b, Sep>> \in Chars /\ <<Sep>> \in Chars
         /\ <<Sep, a, Sep, b, Sep>> \in Chars
BY DEF Chars, Sep

\* One field of one character.
LEMMA OneField ==
  ASSUME NEW a \in Int, NEW x \in Chars
  PROVE  <<a, Sep>> \o x = Joined(<<a>>, x) /\ Joined(<<a>>, x) \in Chars
<1>1. Sep \in Int
  BY DEF Sep
<1> QED
  BY <1>1, PairThen DEF Joined

\* A field in front of a string makes a string.
LEMMA NextField ==
  ASSUME NEW a \in Chars, NEW x \in Chars
  PROVE  Joined(a, x) \in Chars
<1>1. <<Sep>> \in Chars
  BY DEF Chars, Sep
<1>2. <<Sep>> \o x \in Chars
  BY <1>1, ConcatChars, ZenonT(20)
<1> QED
  BY <1>2, ConcatChars, ZenonT(20) DEF Joined

\* The semicolon after the name, apart from the fields behind it.
LEMMA LiteralSplit ==
  ASSUME NEW a \in Int, NEW b \in Int
  PROVE  <<Sep, a, Sep, b, Sep>> = <<Sep>> \o <<a, Sep, b, Sep>>
<1> DEFINE f == <<a, Sep, b, Sep>>
           g == <<Sep, a, Sep, b, Sep>>
           s == <<Sep>>
           u == s \o f
<1>1. s \in Seq(Int) /\ f \in Seq(Int) /\ g \in Seq(Int)
  BY LiteralsAreChars DEF Chars
<1>2. Len(s) = 1 /\ s[1] = Sep /\ Len(f) = 4 /\ Len(g) = 5
  OBVIOUS
<1>3. f[1] = a /\ f[2] = Sep /\ f[3] = b /\ f[4] = Sep
  OBVIOUS
<1>4. g[1] = Sep /\ g[2] = a /\ g[3] = Sep /\ g[4] = b /\ g[5] = Sep
  OBVIOUS
<1> HIDE DEF s, f, g
<1>5. /\ u \in Seq(Int) /\ Len(u) = Len(s) + Len(f)
      /\ \A i \in 1..Len(s) + Len(f) : u[i] = IF i <= Len(s) THEN s[i] ELSE f[i - Len(s)]
  BY <1>1, ConcatProperties
<1> HIDE DEF u
<1>6. Len(u) = 5 /\ u[1] = s[1] /\ u[2] = f[1] /\ u[3] = f[2] /\ u[4] = f[3] /\ u[5] = f[4]
  BY <1>2, <1>5
<1>7. \A i \in 1..5 : i \in {1, 2, 3, 4, 5}
  OBVIOUS
<1>8. \A i \in 1..5 : g[i] = u[i]
  BY <1>2, <1>3, <1>4, <1>6, <1>7
<1>9. g = u
  BY <1>1, <1>2, <1>5, <1>6, <1>8, SeqEqual
<1> QED
  BY <1>9 DEF g, u, s, f

\* What get_message_packet writes: id, name, date, size and text, each with a
\* semicolon behind it.
LEMMA StructShape ==
  ASSUME NEW id \in Nat, NEW m \in Said, NEW r \in Chars
  PROVE  /\ MessageStruct(id, m) \in Chars
         /\ m.text \o (<<Sep>> \o r) \in Chars
         /\ MessageStruct(id, m) \o r
              = Header(id, Names[m.by], Len(m.text), m.text \o (<<Sep>> \o r))
<1> DEFINE N == Names[m.by]
           T == m.text
           n == Len(m.text)
           A == <<id, Sep>>
           S == <<Sep>>
           F == <<Date, Sep, n, Sep>>
           G == <<Sep, Date, Sep, n, Sep>>
           M == MessageStruct(id, m)
           t == T \o (S \o r)
           h == Joined(<<Date>>, Joined(<<n>>, t))
           k == Joined(N, h)
<1>1. N \in Chars /\ T \in Chars /\ n \in Int
  BY SaidText
<1>2. id \in Int /\ Date \in Int
  BY CodesAreChars
<1>3. A \in Chars /\ G \in Chars
  BY <1>1, <1>2, LiteralsAreChars, Zenon
<1>4. S \in Chars /\ F \in Chars
  BY <1>1, <1>2, LiteralsAreChars, Zenon
<1>5. G = S \o F
  BY <1>1, <1>2, LiteralSplit, Zenon
<1>6. M = (((A \o N) \o G) \o T) \o S
  BY DEF MessageStruct, UserName
<1> HIDE DEF N, T, S, G, M
<1>7. S \o r \in Chars
  BY <1>4, ConcatChars, ZenonT(20)
<1>8. t \in Chars
  BY <1>1, <1>7, ConcatChars, ZenonT(20)
<1> HIDE DEF t
<1>9. F \o t = h /\ h \in Chars
  BY <1>1, <1>2, <1>8, TwoFields, TwoFieldsChars, Zenon
<1> HIDE DEF F
<1>10. k \in Chars
  BY <1>1, <1>9, NextField, Zenon
<1> HIDE DEF h
<1>11. S \o h = G \o t
  <2>1. (S \o F) \o t = S \o (F \o t)
    BY <1>4, <1>8, Regroup, ZenonT(20)
  <2> QED
    BY <1>5, <1>9, <2>1, Zenon
<1>12. k = N \o (G \o t)
  <2>1. k = N \o (S \o h)
    BY DEF Joined, S
  <2> QED
    BY <1>11, <2>1, Zenon
<1> HIDE DEF k
<1>13. A \o k = Joined(<<id>>, k)
  BY <1>2, <1>10, OneField, Zenon
<1> HIDE DEF A
<1> DEFINE b == A \o N
           c == b \o G
           d == c \o T
<1>14. b \in Chars
  BY <1>1, <1>3, ConcatChars, ZenonT(20)
<1>15. b \o (G \o t) = A \o (N \o (G \o t))
  <2>1. N \in Chars /\ A \in Chars
    BY <1>1, <1>3
  <2>2. G \o t \in Chars
    BY <1>3, <1>8, ConcatChars, ZenonT(20)
  <2> QED
    BY <2>1, <2>2, Regroup, ZenonT(20)
<1> HIDE DEF b
<1>16. c \in Chars
  BY <1>3, <1>14, ConcatChars, ZenonT(20)
<1>17. c \o t = b \o (G \o t)
  <2>1. G \in Chars
    BY <1>3
  <2> QED
    BY <2>1, <1>8, <1>14, Regroup, ZenonT(20)
<1> HIDE DEF c
<1>18. d \in Chars
  BY <1>1, <1>16, ConcatChars, ZenonT(20)
<1>19. d \o (S \o r) = c \o t
  <2>1. T \in Chars
    BY <1>1
  <2> QED
    BY <2>1, <1>7, <1>16, Regroup, ZenonT(20) DEF t
<1> HIDE DEF d
<1>20. (d \o S) \o r = d \o (S \o r)
  <2>1. S \in Chars
    BY <1>4
  <2> QED
    BY <2>1, <1>18, Regroup, ZenonT(20)
<1>21. M = d \o S
  BY <1>6 DEF d, c, b
<1>22. M \o r = Joined(<<id>>, k)
  BY <1>12, <1>13, <1>15, <1>17, <1>19, <1>20, <1>21, Zenon
<1>23. M \in Chars
  BY <1>4, <1>18, <1>21, ConcatChars, ZenonT(20)
<1>24. M \o r = Header(id, N, n, t)
  BY <1>22, Zenon DEF Header, k, h
<1> QED
  BY <1>8, <1>23, <1>24, Zenon DEF M, t, T, S, N

\* The length of two strings is the sum of theirs.
LEMMA ConcatLength ==
  \A a, b \in Chars : Len(a \o b) = Len(a) + Len(b)
BY ConcatProperties DEF Chars

\* How long it is.
LEMMA StructLength ==
  ASSUME NEW id \in Nat, NEW m \in Said
  PROVE  Len(MessageStruct(id, m)) = 8 + Len(Names[m.by]) + Len(m.text)
<1> DEFINE N == Names[m.by]
           T == m.text
           n == Len(m.text)
           A == <<id, Sep>>
           S == <<Sep>>
           G == <<Sep, Date, Sep, n, Sep>>
           b == A \o N
           c == b \o G
           d == c \o T
           M == MessageStruct(id, m)
<1>1. N \in Chars /\ T \in Chars /\ n \in Int /\ Len(N) \in Int /\ Len(T) \in Int
  BY SaidText DEF Chars
<1>2. id \in Int /\ Date \in Int
  BY CodesAreChars
<1>3. A \in Chars /\ S \in Chars /\ G \in Chars
  BY <1>1, <1>2, LiteralsAreChars, Zenon
<1>4. Len(A) = 2 /\ Len(S) = 1 /\ Len(G) = 5
  OBVIOUS
<1>5. M = d \o S
  BY DEF MessageStruct, UserName
<1> HIDE DEF N, T, A, S, G, M
<1>6. b \in Chars /\ Len(b) = Len(A) + Len(N)
  BY <1>1, <1>3, ConcatChars, ConcatLength, Zenon
<1> HIDE DEF b
<1>7. c \in Chars /\ Len(c) = Len(b) + Len(G)
  BY <1>3, <1>6, ConcatChars, ConcatLength, Zenon
<1> HIDE DEF c
<1>8. d \in Chars /\ Len(d) = Len(c) + Len(T)
  BY <1>1, <1>7, ConcatChars, ConcatLength, Zenon
<1> HIDE DEF d
<1>9. Len(M) = Len(d) + Len(S)
  BY <1>3, <1>5, <1>8, ConcatLength, Zenon
<1>10. Len(M) = 8 + Len(N) + Len(T)
  BY <1>1, <1>4, <1>6, <1>7, <1>8, <1>9
<1> QED
  BY <1>10 DEF M, N, T

\* A walk of five semicolons ends behind a struct without a semicolon in it.
LEMMA StructWalk ==
  ASSUME NEW id \in Nat, NEW m \in Said, NoSep(m.text), NEW r \in Chars
  PROVE  Skip(MessageStruct(id, m) \o r, 5) = r
<1>1. Names[m.by] \in Chars /\ NoSep(Names[m.by]) /\ m.text \in Chars /\ Len(m.text) \in Nat
  BY SaidText
<1>2. PICK p : p = MessageStruct(id, m) \o r
  OBVIOUS
<1>3. PICK rest \in Chars : rest = m.text \o (<<Sep>> \o r)
  BY StructShape
<1>4. p = Header(id, Names[m.by], Len(m.text), rest)
  BY <1>2, <1>3, StructShape, Zenon
<1>5. Skip(p, 4) = rest
  BY <1>1, <1>4, HeaderRead
<1>6. After(rest) = r
  BY <1>1, <1>3, SplitAtSemicolon
<1>7. Skip(p, 4 + 1) = After(Skip(p, 4)) /\ 4 + 1 = 5
  BY SkipNext
<1> QED
  BY <1>2, <1>5, <1>6, <1>7

\* What follows the last field does not move the first.
LEMMA JoinedConcat ==
  ASSUME NEW a \in Chars, NEW b \in Chars, NEW x \in Chars
  PROVE  Joined(a, b) \o x = Joined(a, b \o x)
<1> DEFINE S == <<Sep>>
           c == S \o b
<1>1. S \in Chars
  BY DEF Chars, Sep
<1>2. (S \o b) \o x = S \o (b \o x)
  <2> HIDE DEF S
  <2> QED
    BY <1>1, Regroup, ZenonT(20)
<1> HIDE DEF S
<1>3. c \in Chars
  BY <1>1, ConcatChars, ZenonT(20)
<1>4. (a \o c) \o x = a \o (c \o x)
  <2> HIDE DEF c
  <2> QED
    BY <1>3, Regroup, ZenonT(20)
<1>5. (a \o (S \o b)) \o x = a \o (S \o (b \o x))
  BY <1>2, <1>4, Zenon
<1> QED
  BY <1>5 DEF Joined, S

\* The fields before the text are the same whatever the text is.
LEMMA HeaderSplit ==
  ASSUME NEW id \in Nat, NEW name \in Chars, NEW n \in Nat
  PROVE  \E h \in Chars : \A x \in Chars : Header(id, name, n, x) = h \o x
<1> DEFINE I == <<id>>
           D == <<Date>>
           L == <<n>>
           c == Joined(L, <<>>)
           d == Joined(D, c)
           e == Joined(name, d)
           h == Joined(I, e)
<1>1. I \in Chars /\ D \in Chars /\ L \in Chars /\ <<>> \in Chars
  BY CodesAreChars, OneChar, EmptyChars DEF Chars
<1> HIDE DEF I, D, L
<1>2. c \in Chars
  BY <1>1, NextField, Zenon
<1>3. ASSUME NEW x \in Chars PROVE c \o x = Joined(L, x)
  <2>1. PICK none \in Chars : none = <<>>
    BY <1>1
  <2>2. L \in Chars
    BY <1>1
  <2>3. Joined(L, none) \o x = Joined(L, none \o x)
    BY <2>2, JoinedConcat, Zenon
  <2>4. none \o x = x
    BY <2>1, ConcatEmptySeq DEF Chars
  <2> QED
    BY <2>1, <2>3, <2>4
<1> HIDE DEF c
<1>4. d \in Chars /\ \A x \in Chars : d \o x = Joined(D, c \o x)
  BY <1>1, <1>2, NextField, JoinedConcat, Zenon
<1> HIDE DEF d
<1>5. e \in Chars /\ \A x \in Chars : e \o x = Joined(name, d \o x)
  BY <1>4, NextField, JoinedConcat, Zenon
<1> HIDE DEF e
<1>6. h \in Chars /\ \A x \in Chars : h \o x = Joined(I, e \o x)
  BY <1>1, <1>5, NextField, JoinedConcat, Zenon
<1> HIDE DEF h
<1>7. \A x \in Chars : h \o x = Joined(I, Joined(name, Joined(D, Joined(L, x))))
  <2>1. ASSUME NEW x \in Chars
        PROVE  h \o x = Joined(I, Joined(name, Joined(D, Joined(L, x))))
    <3>1. c \o x = Joined(L, x)
      BY <1>3
    <3>2. d \o x = Joined(D, c \o x)
      BY <1>4
    <3>3. e \o x = Joined(name, d \o x)
      BY <1>5
    <3>4. h \o x = Joined(I, e \o x)
      BY <1>6
    <3> QED
      BY <3>1, <3>2, <3>3, <3>4
  <2> QED
    BY <2>1
<1>8. \A x \in Chars : Header(id, name, n, x) = h \o x
  BY <1>7, Zenon DEF Header, I, D, L
<1> QED
  BY <1>6, <1>8

\* The beginning of a string is a string.
LEMMA CutChars ==
  ASSUME NEW s \in Chars, NEW n \in Int
  PROVE  Cut(s, n) \in Chars
BY CutSeq DEF Chars

\* What is cut off a string is cut off its second part.
LEMMA CharsCut ==
  ASSUME NEW s \in Chars, NEW t \in Chars, NEW n \in Nat
  PROVE  Cut(s \o t, Len(s) + n) = s \o Cut(t, n)
BY CutOfBoth DEF Chars

\* No string that starts like a text is the pointer NULL.
LEMMA NotNull ==
  ASSUME NEW s \in Chars, s # <<>> => s[1] \in {Sep, Letter}
  PROVE  s # Null
BY EmptyChars DEF Null, Sep, Letter

\* The text of a message and its beginning.
LEMMA TextThen ==
  ASSUME NEW m \in Said, NEW x \in Chars
  PROVE  /\ m.text \o x \in Chars /\ Len(m.text \o x) = Len(m.text) + Len(x)
         /\ (m.text \o x)[1] \in {Sep, Letter}
         /\ \A n \in 0..Len(m.text) : Cut(m.text \o x, n) = Cut(m.text, n)
<1>1. PICK t \in Seq(Int) : t = m.text
  BY SaidText DEF Chars
<1>2. Len(t) \in Nat \ {0} /\ \A i \in 1..Len(t) : t[i] \in {Sep, Letter}
  BY <1>1, SaidText
<1>3. x \in Seq(Int)
  BY DEF Chars
<1>4. /\ t \o x \in Seq(Int) /\ Len(t \o x) = Len(t) + Len(x)
      /\ \A i \in 1..Len(t) + Len(x) : (t \o x)[i] = IF i <= Len(t) THEN t[i] ELSE x[i - Len(t)]
  BY <1>3, ConcatProperties
<1>5. 1 \in 1..Len(t) + Len(x) /\ 1 <= Len(t) /\ 1 \in 1..Len(t)
  BY <1>2, <1>3
<1>6. (t \o x)[1] = t[1]
  BY <1>4, <1>5
<1>7. \A n \in 0..Len(t) : Cut(t \o x, n) = Cut(t, n)
  <2>1. ASSUME NEW n \in 0..Len(t) PROVE Cut(t \o x, n) = Cut(t, n)
    BY <1>2, <1>3, CutOfConcat
  <2> QED
    BY <2>1
<1>8. t[1] \in {Sep, Letter}
  BY <1>2, <1>5
<1> QED
  BY <1>1, <1>4, <1>6, <1>7, <1>8 DEF Chars

\* A packet is made of its messages.
LEMMA StructCarries ==
  ASSUME NEW live \in BOOLEAN, NEW id \in Nat, NEW m \in Said, NEW r \in Chars,
         NEW p, p = MessageStruct(id, m) \o r
  PROVE  p \in Chars /\ Carries(live, id, m, p)
<1>1. <<Sep>> \in Chars
  BY DEF Chars, Sep
<1>2. PICK x \in Chars : x = <<Sep>> \o r
  BY <1>1, ConcatChars
<1>3. PICK rest \in Chars : rest = m.text \o x
  BY <1>2, TextThen
<1>4. p = Header(id, Names[m.by], Len(m.text), rest)
  BY <1>2, <1>3, StructShape, Zenon
<1>5. Names[m.by] \in Chars /\ NoSep(Names[m.by]) /\ Len(m.text) \in Nat
  BY SaidText
<1>6. p \in Chars /\ Skip(p, 4) = rest
  BY <1>4, <1>5, HeaderRead
<1>7. rest # Null
  BY <1>3, TextThen, NotNull
<1>8. Cut(rest, Len(m.text)) = Cut(m.text, Len(m.text))
  <2>1. Len(m.text) \in 0..Len(m.text)
    BY <1>5
  <2>2. \A n \in 0..Len(m.text) : Cut(m.text \o x, n) = Cut(m.text, n)
    BY TextThen
  <2> QED
    BY <1>3, <2>1, <2>2, Zenon
<1>9. Cut(m.text, Len(m.text)) = m.text
  <2>1. PICK t \in Seq(Int) : t = m.text
    BY SaidText DEF Chars
  <2>2. Cut(t, Len(t)) = t
    BY CutAll
  <2> QED
    BY <2>1, <2>2
<1>10. \E n \in TextLost : n <= Len(m.text) /\ Cut(rest, Len(m.text)) = Cut(m.text, Len(m.text) - n)
  <2>1. 0 \in TextLost /\ 0 <= Len(m.text) /\ Len(m.text) - 0 = Len(m.text)
    BY <1>5 DEF TextLost
  <2> QED
    BY <1>8, <2>1
<1> QED
  BY <1>4, <1>6, <1>7, <1>8, <1>9, <1>10 DEF Carries

\* A live packet that lost its end, but not the field of the text.
LEMMA CurtailedCarries ==
  ASSUME NEW id \in Nat, NEW m \in Said,
         NEW lost \in 1..Digits - 1, lost <= Len(m.text) + 1,
         NEW p, p = Prefix \o MessageStruct(id, m)
  PROVE  \E b \in Chars : Cut(p, Len(p) - lost) = Prefix \o b /\ Carries(TRUE, id, m, b)
<1>1. PICK size \in Nat \ {0} : size = Len(m.text)
  BY SaidText
<1>2. Names[m.by] \in Chars /\ NoSep(Names[m.by]) /\ m.text \in Seq(Int) /\ m.text \in Chars
  BY SaidText DEF Chars
<1>3. <<Sep>> \in Chars /\ Len(<<Sep>>) = 1 /\ <<>> \in Chars
  BY OneChar, EmptyChars DEF Sep
<1>4. PICK x \in Chars : x = m.text \o <<Sep>>
  BY <1>3, TextThen
<1>5. Len(x) = size + 1 /\ x[1] \in {Sep, Letter} /\ \A n \in 0..size : Cut(x, n) = Cut(m.text, n)
  BY <1>1, <1>3, <1>4, TextThen
<1>6. PICK h \in Chars : \A y \in Chars : Header(id, Names[m.by], size, y) = h \o y
  BY <1>2, HeaderSplit
<1>7. MessageStruct(id, m) = h \o x
  <2>1. <<Sep>> \o <<>> = <<Sep>>
    BY <1>3, ConcatEmptySeq DEF Chars
  <2>2. /\ MessageStruct(id, m) \in Chars
        /\ MessageStruct(id, m) \o <<>>
             = Header(id, Names[m.by], Len(m.text), m.text \o (<<Sep>> \o <<>>))
    BY <1>3, StructShape
  <2>3. MessageStruct(id, m) \o <<>> = MessageStruct(id, m)
    BY <2>2, ConcatEmptySeq DEF Chars
  <2>4. Header(id, Names[m.by], size, x) = h \o x
    BY <1>6
  <2> QED
    BY <1>1, <1>4, <2>1, <2>2, <2>3, <2>4, Zenon
<1>8. Prefix \in Chars
  BY CodesAreChars DEF Prefix, Chars
<1>9. lost <= size + 1
  BY <1>1
<1>10. size + 1 - lost \in Nat
  BY <1>9
<1>11. PICK n \in Nat : n = size + 1 - lost
  BY <1>10
<1>12. PICK y \in Chars : y = Cut(x, n)
  BY CutChars
<1>13. PICK s \in Chars : s = h \o x
  BY ConcatChars
<1>14. Len(p) = Len(Prefix) + Len(s) /\ Len(s) = Len(h) + Len(x)
  BY <1>7, <1>8, <1>13, ConcatLength
<1>15. Len(p) - lost = Len(Prefix) + (Len(h) + n) /\ Len(h) + n \in Nat
  <2>1. Len(Prefix) \in Nat /\ Len(h) \in Nat
    BY <1>8 DEF Chars
  <2> QED
    BY <1>5, <1>11, <1>14, <2>1
<1>16. Cut(s, Len(h) + n) = h \o y
  BY <1>12, <1>13, CharsCut
<1>17. Cut(Prefix \o s, Len(Prefix) + (Len(h) + n)) = Prefix \o Cut(s, Len(h) + n)
  BY <1>8, <1>15, CharsCut
<1>18. p = Prefix \o s
  BY <1>7, <1>13
<1>19. PICK b : b = Header(id, Names[m.by], size, y)
  OBVIOUS
<1>20. b = h \o y
  BY <1>6, <1>19
<1>21. Cut(p, Len(p) - lost) = Prefix \o b
  BY <1>15, <1>16, <1>17, <1>18, <1>20
<1>22. b \in Chars /\ Skip(b, 4) = y
  BY <1>1, <1>2, <1>19, HeaderRead
<1>23. x \in Seq(Int) /\ Len(y) = n /\ \A i \in 1..n : y[i] = x[i]
  <2>1. x \in Seq(Int)
    BY DEF Chars
  <2>2. Len(Cut(x, n)) = Least(n, Len(x)) /\ \A i \in 1..Least(n, Len(x)) : Cut(x, n)[i] = x[i]
    BY <2>1, CutIs
  <2>3. Least(n, Len(x)) = n
    BY <1>5, <1>11 DEF Least
  <2> QED
    BY <1>12, <2>1, <2>2, <2>3
<1>24. y # Null
  <2>1. n = 0 => y = <<>>
    BY <1>23, EmptyChars DEF Chars
  <2>2. n # 0 => y[1] = x[1]
    BY <1>11, <1>23
  <2> QED
    BY <1>5, <2>1, <2>2, NotNull
<1>25. n \in 0..size /\ size - (lost - 1) = n /\ lost - 1 \in TextLost /\ lost - 1 <= size
  BY <1>1, <1>11, SizesAssumption DEF TextLost
<1>26. Cut(y, size) = y
  BY <1>1, <1>23, <1>25, CutAll DEF Chars
<1>27. y = Cut(m.text, n)
  BY <1>5, <1>12, <1>25
<1>28. Carries(TRUE, id, m, b)
  BY <1>1, <1>19, <1>22, <1>24, <1>25, <1>26, <1>27 DEF Carries
<1> QED
  BY <1>21, <1>22, <1>28

\* The walk from one message to the next, taken apart.
LEMMA NextStructs ==
  ASSUME NEW p, NEW k \in Nat, NEW j \in Nat
  PROVE  NextStruct(p, k + j) = Skip(NextStruct(p, k), 5 * j)
<1>1. 5 * k \in Nat /\ 5 * j \in Nat /\ 5 * k + 5 * j = 5 * (k + j)
  OBVIOUS
<1>2. Skip(Skip(p, 5 * k), 5 * j) = Skip(p, 5 * k + 5 * j)
  BY <1>1, SkipTwice
<1> QED
  BY <1>1, <1>2 DEF NextStruct

\* One message more is five semicolons more.
LEMMA NextStructOne ==
  ASSUME NEW p, NEW k \in Nat
  PROVE  NextStruct(p, k + 1) = Skip(NextStruct(p, k), 5)
<1>1. 5 * k \in Nat /\ 5 \in Nat /\ 5 * (k + 1) = 5 * k + 5
  OBVIOUS
<1>2. Skip(Skip(p, 5 * k), 5) = Skip(p, 5 * k + 5)
  BY <1>1, SkipTwice
<1> QED
  BY <1>1, <1>2 DEF NextStruct

\* The first loop of the reader comes to at most one number.
LEMMA CountsAtMostOne ==
  ASSUME NEW p
  PROVE  \A a, b \in Counts(p) : a = b
<1>1. ASSUME NEW a \in Counts(p), NEW b \in Counts(p), a < b PROVE FALSE
  <2>1. a \in Nat /\ b \in Nat /\ NextStruct(p, a) = <<>> /\ NextStruct(p, b) = <<>>
    BY DEF Counts
  <2>2. b - a \in Nat /\ a + (b - a) = b /\ 5 * (b - a) \in Nat \ {0}
    BY <1>1, <2>1
  <2>3. PICK d \in Nat : d = b - a
    BY <2>2
  <2>4. NextStruct(p, a + d) = Skip(NextStruct(p, a), 5 * d) /\ a + d = b
    BY <2>1, <2>2, <2>3, NextStructs
  <2>5. Skip(<<>>, 5 * d) = Null
    BY <2>2, <2>3, SkipEnd
  <2> QED
    BY <2>1, <2>4, <2>5, EmptyChars
<1>2. \A a, b \in Counts(p) : a \in Int /\ b \in Int
  BY DEF Counts
<1> QED
  BY <1>1, <1>2

\* A chain of structs, each five semicolons from the next, is counted right.
LEMMA CountsChain ==
  ASSUME NEW n \in Nat \ {0}, NEW rest \in [1..n + 1 -> Chars], rest[n + 1] = <<>>,
         \A k \in 1..n : Skip(rest[k], 5) = rest[k + 1] /\ Len(rest[k]) >= 5 + Len(rest[k + 1])
  PROVE  /\ Counts(rest[1]) = {n}
         /\ \A k \in 0..n : NextStruct(rest[1], k) = rest[k + 1]
<1>1. \A k \in 0..n : NextStruct(rest[1], k) = rest[k + 1]
  <2> DEFINE S == {k \in 0..n : NextStruct(rest[1], k) # rest[k + 1]}
  <2>1. SUFFICES ASSUME S # {} PROVE FALSE
    OBVIOUS
  <2>2. S \in SUBSET Nat
    OBVIOUS
  <2>3. PICK k \in S : \A j \in S : k <= j
    BY <2>1, <2>2, LeastOf
  <2>4. k # 0
    <3>1. NextStruct(rest[1], 0) = rest[1]
      BY SkipZero DEF NextStruct
    <3> QED
      BY <2>3, <3>1
  <2>5. k - 1 \in 0..n /\ ~(k - 1 \in S) /\ k \in 1..n /\ k - 1 \in Nat /\ (k - 1) + 1 = k
    BY <2>3, <2>4
  <2>6. NextStruct(rest[1], k - 1) = rest[k]
    BY <2>5
  <2>7. PICK j \in Nat : j = k - 1
    BY <2>5
  <2>8. NextStruct(rest[1], j + 1) = Skip(NextStruct(rest[1], j), 5) /\ j + 1 = k
    BY <2>5, <2>7, NextStructOne
  <2>9. NextStruct(rest[1], k) = Skip(rest[k], 5)
    BY <2>6, <2>7, <2>8
  <2>10. Skip(rest[k], 5) = rest[k + 1]
    BY <2>5
  <2> QED
    BY <2>3, <2>9, <2>10
<1>2. \A k \in 1..n + 1 : Len(rest[k]) \in Nat /\ Len(rest[k]) >= 5 * (n + 1 - k)
  <2> DEFINE S == {j \in 0..n : Len(rest[n + 1 - j]) < 5 * j}
  <2>1. \A k \in 1..n + 1 : Len(rest[k]) \in Nat
    BY DEF Chars
  <2>2. S = {}
    <3>1. SUFFICES ASSUME S # {} PROVE FALSE
      OBVIOUS
    <3>2. S \in SUBSET Nat
      OBVIOUS
    <3>3. PICK j \in S : \A i \in S : j <= i
      BY <3>1, <3>2, LeastOf
    <3>4. j # 0
      BY <3>3, EmptyChars
    <3>5. j \in 0..n /\ Len(rest[n + 1 - j]) < 5 * j
      BY <3>3
    <3>6. j - 1 \in 0..n /\ j \in 1..n
      BY <3>4, <3>5
    <3>7. ~(j - 1 \in S)
      <4> HIDE DEF S
      <4> QED
        BY <3>3, <3>6
    <3>8. j - 1 \in 0..n /\ ~(j - 1 \in S) /\ j \in 1..n
      BY <3>6, <3>7
    <3>9. n + 1 - j \in 1..n /\ n + 1 - j + 1 = n + 1 - (j - 1) /\ n + 1 - (j - 1) \in 1..n + 1
      BY <3>8
    <3>10. Len(rest[n + 1 - j]) >= 5 + Len(rest[n + 1 - (j - 1)])
      BY <3>9
    <3>11. Len(rest[n + 1 - (j - 1)]) >= 5 * (j - 1)
      BY <2>1, <3>8, <3>9
    <3> QED
      BY <2>1, <3>5, <3>8, <3>9, <3>10, <3>11
  <2>3. ASSUME NEW k \in 1..n + 1 PROVE Len(rest[k]) >= 5 * (n + 1 - k)
    <3>1. n + 1 - k \in 0..n /\ n + 1 - (n + 1 - k) = k
      OBVIOUS
    <3>2. ~(n + 1 - k \in S)
      BY <2>2
    <3> QED
      BY <2>1, <3>1, <3>2
  <2> QED
    BY <2>1, <2>3
<1>3. n \in Counts(rest[1])
  <2>1. PICK l \in Nat : l = Len(rest[1]) /\ l >= 5 * n
    BY <1>2
  <2>2. n \in Nat /\ l >= 5 * n
    BY <2>1
  <2>3. n <= l \div 5 /\ l \div 5 \in Int
    BY <2>2
  <2>4. n \in 1..(l \div 5)
    BY <2>3
  <2>5. NextStruct(rest[1], n) = <<>>
    BY <1>1
  <2> QED
    BY <2>1, <2>4, <2>5 DEF Counts
<1>4. \A a, b \in Counts(rest[1]) : a = b
  BY CountsAtMostOne
<1> QED
  BY <1>1, <1>3, <1>4

\* What a packet is made of is what was typed, cut to MESSAGE_MAX_SIZE and, once
\* redis_room_messages_read has read it back, to one character less.
LEMMA SentSaid ==
  ASSUME PacketsTypeOK, StoredIsTyped, NEW live \in BOOLEAN, NEW id \in 1..Len(stored)
  PROVE  /\ Sent(live, id) \in Said /\ id \in 1..Len(typed) /\ typed[id] \in Said
         /\ Sent(live, id).by = typed[id].by
         /\ live => Sent(live, id).text
                      = Cut(typed[id].text, Least(MessageMax, Len(typed[id].text)))
         /\ ~live => Sent(live, id).text = Cut(typed[id].text, MessageMax - 1)
         /\ Len(Sent(live, id).text) <= MessageMax
         /\ live => Len(Sent(live, id).text) = Least(MessageMax, Len(typed[id].text))
<1>1. /\ typed \in Seq(Said) /\ stored \in Seq(Said)
      /\ toServer \in Seq([by : User, chars : Chars])
  BY DEF PacketsTypeOK
<1>2. Len(typed) = Len(stored) + Len(toServer) /\ Len(stored) \in Nat /\ Len(toServer) \in Nat
  BY <1>1 DEF StoredIsTyped
<1>3. id \in 1..Len(typed)
  BY <1>2
<1>4. typed[id] \in Said /\ stored[id] \in Said
  BY <1>1, <1>3
<1>5. stored[id] = [by |-> typed[id].by, text |-> Cut(typed[id].text, MessageMax)]
  BY DEF StoredIsTyped
<1>6. PICK t \in Seq({Sep, Letter}) : t = typed[id].text /\ Len(t) \in Nat \ {0}
  BY <1>4, SaidText
<1>7. MessageMax \in Nat /\ MessageMax - 1 \in Nat \ {0} /\ MessageMax # 0
  BY SizesAssumption
<1>8. PICK c : c = Cut(t, MessageMax)
  OBVIOUS
<1>9. /\ c \in Seq({Sep, Letter}) /\ Len(c) = Least(MessageMax, Len(t))
  BY <1>7, <1>8, CutIs
<1>10. PICK d : d = Cut(c, MessageMax - 1)
  OBVIOUS
<1>11. d \in Seq({Sep, Letter}) /\ Len(d) = Least(MessageMax - 1, Len(c))
  BY <1>7, <1>9, <1>10, CutIs
<1>12. Len(c) \in Nat \ {0} /\ Len(c) <= MessageMax /\ Len(d) \in Nat \ {0} /\ Len(d) <= MessageMax
  BY <1>6, <1>7, <1>9, <1>11 DEF Least
<1>13. stored[id].text = c /\ stored[id].by = typed[id].by
  BY <1>5, <1>6, <1>8
<1>14. ReadBack(stored[id]) = [by |-> typed[id].by, text |-> d]
  BY <1>5, <1>6, <1>8, <1>10 DEF ReadBack
<1>15. d = Cut(t, MessageMax - 1)
  <2>1. Cut(Cut(t, MessageMax), MessageMax - 1) = Cut(t, Least(MessageMax, MessageMax - 1))
    BY <1>7, CutTwice
  <2>2. Least(MessageMax, MessageMax - 1) = MessageMax - 1
    BY <1>7 DEF Least
  <2> QED
    BY <1>8, <1>10, <2>1, <2>2
<1>16. Least(MessageMax, Len(t)) = Least(Least(MessageMax, Len(t)), Len(t))
  BY <1>6, <1>7 DEF Least
<1>17. c = Cut(t, Least(MessageMax, Len(t)))
  BY <1>8, <1>16 DEF Cut
<1>18. c # <<>> /\ d # <<>>
  BY <1>12, EmptyChars
<1>19. typed[id].by \in User
  BY <1>4 DEF Said
<1>20. ReadBack(stored[id]) \in Said
  BY <1>11, <1>14, <1>18, <1>19 DEF Said
<1> QED
  BY <1>3, <1>4, <1>6, <1>9, <1>12, <1>13, <1>14, <1>15, <1>17, <1>20 DEF Sent

\* What a client reads where a message is, is that message.
LEMMA ReadsRight ==
  ASSUME PacketsTypeOK, StoredIsTyped, NEW live \in BOOLEAN, NEW id \in 1..Len(stored),
         NEW p \in Chars, Carries(live, id, Sent(live, id), p), NEW s \in BOOLEAN
  PROVE  /\ Readable(p)
         /\ EntryRight([says |-> Extract(p), of |-> id, sound |-> s, live |-> live])
<1>1. PICK m \in Said : m = Sent(live, id)
  BY SentSaid
<1>2. PICK size \in Nat \ {0} : size = Len(m.text)
  BY SaidText
<1>3. PICK rest \in Chars : rest = Skip(p, 4)
  BY SkipChars
<1>4. /\ p = Header(id, Names[m.by], size, rest) /\ rest # Null
      /\ IF live THEN \E n \in TextLost : n <= size /\ Cut(rest, size) = Cut(m.text, size - n)
         ELSE Cut(rest, size) = m.text
  BY <1>1, <1>2, <1>3 DEF Carries
<1>5. /\ Names[m.by] \in Chars /\ NoSep(Names[m.by]) /\ Len(Names[m.by]) \in 1..NameMax
      /\ m.text \in Seq({Sep, Letter})
  BY SaidText
<1>6. id \in Nat /\ size \in Nat
  BY <1>2
<1>7. Atoi(p) = id /\ Field(Skip(p, 1)) = Names[m.by] /\ Atoi(Skip(p, 3)) = size
  BY <1>4, <1>5, <1>6, HeaderRead
<1>8. Readable(p)
  BY <1>2, <1>3, <1>4, <1>7 DEF Readable
<1>9. size <= MessageMax /\ MessageMax \in Nat /\ Least(size, MessageMax) = size
  BY <1>1, <1>2, SentSaid, SizesAssumption DEF Least
<1>10. Extract(p) = [id |-> id, by |-> SentBy(Names[m.by]), text |-> Cut(rest, size)]
  BY <1>3, <1>7, <1>9 DEF Extract
<1>11. Len(Names[m.by]) < NameMax => SentBy(Names[m.by]) = Names[m.by]
  <2>1. ASSUME Len(Names[m.by]) < NameMax PROVE SentBy(Names[m.by]) = Names[m.by]
    <3>1. PICK name \in Seq(Int) : name = Names[m.by]
      BY <1>5 DEF Chars
    <3>2. NameMax - 1 \in Nat /\ NameMax - 1 >= Len(name)
      <4>1. Len(name) \in 1..NameMax /\ Len(name) < NameMax
        BY <1>5, <2>1, <3>1
      <4>2. NameMax \in Nat
        BY SizesAssumption
      <4> QED
        BY <4>1, <4>2
    <3>3. Cut(name, NameMax - 1) = name
      BY <3>2, CutAll
    <3> QED
      BY <3>1, <3>3 DEF SentBy
  <2> QED
    BY <2>1
<1>12. PICK o \in Said : o = typed[id]
  BY SentSaid
<1>13. id \in 1..Len(typed) /\ m.by = o.by
  BY <1>1, <1>12, SentSaid
<1>14. ASSUME live
       PROVE  \E n \in TextLost : Cut(rest, size) = Cut(o.text, Least(MessageMax, Len(o.text)) - n)
  <2>1. PICK n \in TextLost : n <= size /\ Cut(rest, size) = Cut(m.text, size - n)
    BY <1>4, <1>14
  <2>2. m.text = Cut(o.text, size) /\ size = Least(MessageMax, Len(o.text))
    BY <1>1, <1>2, <1>12, <1>14, SentSaid
  <2>3. size - n \in Nat /\ Least(size, size - n) = size - n
    <3>1. n \in Nat
      BY SizesAssumption DEF TextLost
    <3> QED
      BY <1>6, <2>1, <3>1 DEF Least
  <2>4. PICK t \in Seq({Sep, Letter}) : t = o.text
    BY SaidText
  <2>5. Cut(Cut(t, size), size - n) = Cut(t, Least(size, size - n))
    BY <1>6, <2>3, CutTwice
  <2> QED
    BY <2>1, <2>2, <2>3, <2>4, <2>5
<1>15. ASSUME ~live PROVE Cut(rest, size) = Cut(o.text, MessageMax - 1)
  BY <1>1, <1>4, <1>12, <1>15, SentSaid
<1> DEFINE v == [says |-> Extract(p), of |-> id, sound |-> s, live |-> live]
<1>16. /\ v.of = id /\ v.says.id = id /\ v.says.by = SentBy(Names[m.by])
       /\ v.says.text = Cut(rest, size) /\ v.live = live
  BY <1>10
<1> HIDE DEF v
<1>17. EntryRight(v)
  <2>1. v.of \in 1..Len(typed) /\ v.says.id = v.of
    BY <1>13, <1>16
  <2>2. typed[v.of] = o
    BY <1>12, <1>16
  <2>3. Len(Names[o.by]) < NameMax => v.says.by = Names[o.by]
    BY <1>11, <1>13, <1>16
  <2>4. IF v.live
        THEN \E n \in TextLost :
                v.says.text = Cut(o.text, Least(MessageMax, Len(o.text)) - n)
        ELSE v.says.text = Cut(o.text, MessageMax - 1)
    BY <1>14, <1>15, <1>16
  <2> QED
    BY <2>1, <2>2, <2>3, <2>4, Zenon DEF EntryRight
<1> QED
  BY <1>8, <1>17 DEF v

\* A stored message is sent as it was, however many follow it.
LEMMA SentStays ==
  ASSUME StoredGrows, NEW live \in BOOLEAN, NEW id \in 1..Len(stored)
  PROVE  Sent(live, id)' = Sent(live, id)
BY DEF StoredGrows, Sent, ReadBack

\* So a packet stays made of its messages.
LEMMA StructsStay ==
  ASSUME StoredGrows, NEW chars, NEW ids \in Seq(Nat \ {0}), NEW live \in BOOLEAN,
         \A k \in 1..Len(ids) : ids[k] <= Len(stored), Len(stored) \in Nat,
         Structs(chars, ids, live)
  PROVE  Structs(chars, ids, live)'
<1>1. PICK rest \in [1..Len(ids) + 1 -> Chars] :
        /\ chars = Prefix \o rest[1]
        /\ rest[Len(ids) + 1] = <<>>
        /\ \A k \in 1..Len(ids) : rest[k] = MessageStruct(ids[k], Sent(live, ids[k])) \o rest[k + 1]
  BY DEF Structs
<1>2. ASSUME NEW k \in 1..Len(ids)
      PROVE  rest[k] = MessageStruct(ids[k], Sent(live, ids[k])') \o rest[k + 1]
  <2>1. ids[k] \in 1..Len(stored)
    <3>1. ids[k] \in Nat \ {0}
      BY ElementOfSeq
    <3> QED
      BY <3>1
  <2>2. Sent(live, ids[k])' = Sent(live, ids[k])
    BY <2>1, SentStays
  <2> QED
    BY <1>1, <2>2
<1> QED
  BY <1>1, <1>2 DEF Structs

\* What a packet carries can be read later as well.
LEMMA CarriedStays ==
  ASSUME StoredGrows, NEW q \in RmsgPacket, Carried(q), Len(stored) \in Nat, Len(stored)' \in Nat
  PROVE  Carried(q)'
<1>1. q.ids \in Seq(Nat \ {0}) /\ q.live \in BOOLEAN
  BY DEF RmsgPacket
<1>2. \A k \in 1..Len(q.ids) : q.ids[k] <= Len(stored) /\ q.ids[k] \in 1..Len(stored)
  <2>1. \A k \in 1..Len(q.ids) : q.ids[k] \in Nat \ {0}
    BY <1>1, ElementOfSeq
  <2> QED
    BY <2>1 DEF Carried
<1>3. \A k \in 1..Len(q.ids) : Sent(q.live, q.ids[k])' = Sent(q.live, q.ids[k])
  BY <1>1, <1>2, SentStays
<1>4. \A k \in 1..Len(q.ids) : q.ids[k] <= Len(stored)'
  <2>1. Len(stored) <= Len(stored)'
    BY DEF StoredGrows
  <2>2. \A k \in 1..Len(q.ids) : q.ids[k] \in Int
    BY <1>2
  <2> QED
    BY <1>2, <2>1, <2>2
<1>5. ASSUME q.aligned
      PROVE  /\ q.ids # <<>>
             /\ \E p \in Chars : /\ q.chars = Prefix \o p
                                 /\ Carries(q.live, q.ids[1], Sent(q.live, q.ids[1])', p)
  <2>1. q.ids # <<>> /\ \E p \in Chars : /\ q.chars = Prefix \o p
                                         /\ Carries(q.live, q.ids[1], Sent(q.live, q.ids[1]), p)
    BY <1>5 DEF Carried
  <2>2. 1 \in 1..Len(q.ids)
    BY <1>1, <2>1, EmptySeq
  <2> QED
    BY <1>3, <2>1, <2>2
<1>6. ASSUME q.countable
      PROVE  /\ q.ids # <<>>
             /\ Structs(q.chars, q.ids, q.live)'
             /\ \A k \in 1..Len(q.ids) : NoSep(Sent(q.live, q.ids[k])'.text)
  <2>1. /\ q.ids # <<>> /\ Structs(q.chars, q.ids, q.live)
        /\ \A k \in 1..Len(q.ids) : NoSep(Sent(q.live, q.ids[k]).text)
    BY <1>6 DEF Carried
  <2>2. Structs(q.chars, q.ids, q.live)'
    <3>1. \A k \in 1..Len(q.ids) : q.ids[k] <= Len(stored)
      BY <1>2
    <3> QED
      BY <1>1, <2>1, <3>1, StructsStay
  <2> QED
    BY <1>3, <2>1, <2>2
<1> QED
  BY <1>4, <1>5, <1>6 DEF Carried

\* Nothing else moves: what is packed and sent stays right.
LEMMA PackingStays ==
  ASSUME PacketsTypeOK, PackingInOrder, StoredGrows, Len(stored)' \in Nat, UNCHANGED server
  PROVE  PackingInOrder'
<1>1. Len(stored) \in Nat /\ stored \in Seq(Said)
  BY DEF PacketsTypeOK
<1>2. SUFFICES ASSUME server.at = "packing" PROVE PackingInOrder'
  BY DEF PackingInOrder
<1>3. server \in Packer
  BY <1>2 DEF PacketsTypeOK, NotAsked, Done
<1>4. server.left \in Seq(Said) /\ server.ids \in Seq(Nat \ {0})
  BY <1>3 DEF Packer
<1>5. NextId \in Nat \ {0} /\ NextId' = NextId
  <2>1. server.ids # <<>> => Last(server.ids) \in Nat \ {0}
    <3>1. server.ids # <<>> => Len(server.ids) \in 1..Len(server.ids)
      BY <1>4, EmptySeq
    <3> QED
      BY <1>4, <3>1, ElementOfSeq DEF Last
  <2> QED
    BY <2>1 DEF NextId
<1>6. /\ NextId + Len(server.left) <= Len(stored) + 1
      /\ \A j \in 1..Len(server.left) : server.left[j] = ReadBack(stored[NextId + j - 1])
      /\ \A k \in 1..Len(server.ids) : server.ids[k] < NextId
      /\ server.ids = <<>> => server.left # <<>> /\ server.packet = Prefix
      /\ server.first => Structs(server.packet, server.ids, FALSE)
  BY <1>2 DEF PackingInOrder
<1>7. Len(stored) <= Len(stored)' /\ \A i \in 1..Len(stored) : stored'[i] = stored[i]
  BY DEF StoredGrows
<1>8. Len(server.left) \in Nat
  BY <1>4
<1>9. \A j \in 1..Len(server.left) : server.left[j] = ReadBack(stored'[NextId + j - 1])
  <2>1. \A j \in 1..Len(server.left) : NextId + j - 1 \in 1..Len(stored)
    BY <1>1, <1>5, <1>6, <1>8
  <2> QED
    BY <1>6, <1>7, <2>1
<1>10. server.first => Structs(server.packet, server.ids, FALSE)'
  <2>1. \A k \in 1..Len(server.ids) : server.ids[k] <= Len(stored)
    <3>1. \A k \in 1..Len(server.ids) : server.ids[k] \in Nat \ {0}
      BY <1>4, ElementOfSeq
    <3> QED
      BY <1>1, <1>5, <1>6, <1>8, <3>1
  <2>2. PICK chars, ids : chars = server.packet /\ ids = server.ids
    OBVIOUS
  <2>3. Structs(chars, ids, FALSE) => Structs(chars, ids, FALSE)'
    BY <1>1, <1>4, <2>1, <2>2, StructsStay
  <2>4. server'.packet = chars /\ server'.ids = ids
    BY <2>2
  <2> QED
    BY <1>6, <2>2, <2>3, <2>4
<1>11. NextId + Len(server.left) <= Len(stored)' + 1
  BY <1>1, <1>5, <1>6, <1>7, <1>8
<1>12. /\ server'.left = server.left /\ server'.ids = server.ids /\ server'.packet = server.packet
       /\ server'.first = server.first
  OBVIOUS
<1> QED
  BY <1>5, <1>6, <1>9, <1>10, <1>11, <1>12 DEF PackingInOrder

\* What was shown right stays right when more is typed.
LEMMA EntryStays ==
  ASSUME NEW v, EntryRight(v), typed \in Seq(Said), typed' \in Seq(Said),
         Len(typed) <= Len(typed)', \A i \in 1..Len(typed) : typed'[i] = typed[i]
  PROVE  EntryRight(v)'
<1>1. CASE ~v.sound
  BY <1>1 DEF EntryRight
<1>2. CASE v.sound
  <2>1. v.of \in 1..Len(typed) /\ v.of \in 1..Len(typed)'
    BY <1>2 DEF EntryRight
  <2>2. typed'[v.of] = typed[v.of]
    BY <2>1
  <2> QED
    BY <1>2, <2>1, <2>2, Zenon DEF EntryRight
<1> QED
  BY <1>1, <1>2

\* Nothing is typed, stored or sent when it begins.
LEMMA PacketsStart == PacketsInit => PacketsInv
<1> SUFFICES ASSUME PacketsInit PROVE PacketsInv
  OBVIOUS
<1>1. /\ typed = <<>> /\ toServer = <<>> /\ stored = <<>> /\ server = NotAsked /\ toClient = <<>>
      /\ pending = TRUE /\ amount = Unknown /\ view = <<>> /\ refused = FALSE
  BY Zenon DEF PacketsInit
<1>2. PacketsTypeOK
  <2>1. typed \in Seq(Said) /\ stored \in Seq(Said) /\ toServer \in Seq([by : User, chars : Chars])
    BY <1>1, EmptySeq
  <2>2. toClient \in Seq(RmsgPacket \cup RoomPacket) /\ view \in Seq(ShownMessage)
    BY <1>1, EmptySeq
  <2>3. pending \in BOOLEAN /\ refused \in BOOLEAN
    BY <1>1, Zenon
  <2> QED
    BY <1>1, <2>1, <2>2, <2>3 DEF PacketsTypeOK
<1>3. StoredIsTyped
  BY <1>1 DEF StoredIsTyped
<1>4. PackingInOrder
  BY <1>1 DEF PackingInOrder, NotAsked
<1>5. PacketsCarried /\ \A k \in 1..Len(view) : EntryRight(view[k])
  BY <1>1 DEF PacketsCarried
<1>6. SoundPacketsAreRead
  BY <1>1, Zenon DEF SoundPacketsAreRead
<1> QED
  BY <1>2, <1>3, <1>4, <1>5, <1>6 DEF PacketsInv

\* on_send_clicked: the text on its way is the last that was typed.
LEMMA TypeChanges ==
  ASSUME PacketsInv, NEW u \in User, NEW t \in Texts, Type(u, t)
  PROVE  PacketsInv'
<1>1. /\ Len(typed) < MaxMessages /\ toServer = <<>>
      /\ typed' = Append(typed, [by |-> u, text |-> t])
      /\ toServer' = <<[by |-> u, chars |-> SmsgPacket(t)]>>
      /\ UNCHANGED <<stored, server, toClient, pending, amount, view, refused>>
  BY DEF Type
<1>2. PacketsTypeOK /\ StoredIsTyped /\ PackingInOrder /\ PacketsCarried /\ SoundPacketsAreRead
  BY DEF PacketsInv
<1>3. typed \in Seq(Said) /\ stored \in Seq(Said)
  BY <1>2 DEF PacketsTypeOK
<1>4. t \in Seq({Sep, Letter}) /\ t # <<>>
  BY SizesAssumption
<1>5. PICK m \in Said : m = [by |-> u, text |-> t]
  BY <1>4 DEF Said
<1>6. t \in Chars
  BY <1>4, <1>5, SaidText
<1>7. /\ typed' \in Seq(Said) /\ Len(typed') = Len(typed) + 1
      /\ \A i \in 1..Len(typed) : typed'[i] = typed[i]
      /\ typed'[Len(typed) + 1] = m
  BY <1>1, <1>3, <1>5, AppendProperties
<1>8. SmsgPacket(t) \in Chars
  <2>1. NoSep(<<Smsg>>) /\ <<Smsg>> \in Chars /\ NoSep(<<Key>>) /\ <<Key>> \in Chars
    BY CodesAreChars, NoSepOne
  <2>2. <<Room>> \in Chars /\ Len(t) \in Int
    BY <1>6, CodesAreChars, NoSepOne DEF Chars
  <2>3. <<Len(t)>> \in Chars
    BY <2>2, OneChar
  <2>4. Joined(<<Room>>, Joined(<<Len(t)>>, t)) \in Chars
    BY <1>6, <2>2, <2>3, NextField, Zenon
  <2>5. Joined(<<Smsg>>, Joined(<<Key>>, Joined(<<Room>>, Joined(<<Len(t)>>, t)))) \in Chars
    BY <2>1, <2>4, NextField, Zenon
  <2> QED
    BY <1>6, <2>5, SmsgShape
<1>9. PacketsTypeOK'
  <2>1. toServer' \in Seq([by : User, chars : Chars])
    <3>1. PICK e \in [by : User, chars : Chars] : e = [by |-> u, chars |-> SmsgPacket(t)]
      BY <1>8
    <3> QED
      BY <1>1, <3>1
  <2>2. /\ stored' = stored /\ server' = server /\ toClient' = toClient /\ pending' = pending
        /\ amount' = amount /\ view' = view /\ refused' = refused
    BY <1>1
  <2> QED
    BY <1>2, <1>7, <2>1, <2>2 DEF PacketsTypeOK
<1>10. StoredIsTyped'
  <2>1. Len(typed) = Len(stored) /\ Len(stored) \in Nat /\ stored' = stored
    BY <1>1, <1>2, <1>3 DEF StoredIsTyped
  <2>2. Len(typed') = Len(stored) + Len(toServer')
    <3>1. Len(toServer') = 1
      BY <1>1
    <3> QED
      BY <1>7, <2>1, <3>1
  <2>3. \A i \in 1..Len(stored) :
          stored[i] = [by |-> typed'[i].by, text |-> Cut(typed'[i].text, MessageMax)]
    BY <1>2, <1>7, <2>1 DEF StoredIsTyped
  <2>4. typed'[Len(typed')] = m
    BY <1>7
  <2>5. toServer' = <<[by |-> m.by, chars |-> SmsgPacket(m.text)]>>
    BY <1>1, <1>5
  <2> QED
    BY <2>1, <2>2, <2>3, <2>4, <2>5, Zenon DEF StoredIsTyped
<1>11. StoredGrows /\ Len(stored) \in Nat /\ Len(stored)' \in Nat
  BY <1>1, <1>3 DEF StoredGrows
<1>12. PackingInOrder'
  BY <1>1, <1>2, <1>11, PackingStays
<1>13. PacketsCarried'
  <2>1. toClient' = toClient
    BY <1>1
  <2>2. ASSUME NEW i \in 1..Len(toClient), toClient[i].type = "rmsg" PROVE Carried(toClient[i])'
    <3>1. PICK q : q = toClient[i]
      OBVIOUS
    <3>2. q \in RmsgPacket /\ Carried(q)
      BY <1>2, <2>2, <3>1 DEF PacketsTypeOK, PacketsCarried, RoomPacket
    <3>3. Carried(q)'
      BY <1>11, <3>2, CarriedStays
    <3>4. toClient'[i] = q
      BY <2>1, <3>1
    <3> QED
      BY <3>3, <3>4
  <2> QED
    BY <2>1, <2>2 DEF PacketsCarried
<1>14. \A k \in 1..Len(view') : EntryRight(view[k])'
  <2>1. view' = view
    BY <1>1
  <2>2. ASSUME NEW k \in 1..Len(view) PROVE EntryRight(view[k])'
    <3>1. PICK v : v = view[k]
      OBVIOUS
    <3>2. EntryRight(v)
      BY <3>1 DEF PacketsInv
    <3>3. Len(typed) <= Len(typed)'
      BY <1>3, <1>7
    <3>4. EntryRight(v)'
      BY <1>3, <1>7, <3>2, <3>3, EntryStays
    <3>5. view'[k] = v
      BY <2>1, <3>1
    <3> QED
      BY <3>4, <3>5
  <2> QED
    BY <2>1, <2>2
<1>15. SoundPacketsAreRead'
  BY <1>1, <1>2 DEF SoundPacketsAreRead
<1> QED
  BY <1>9, <1>10, <1>12, <1>13, <1>14, <1>15 DEF PacketsInv

\* The parts of the invariant that the steps of server and reader need.
LEMMA ServerParts ==
  ASSUME PacketsInv
  PROVE  /\ typed \in Seq(Said) /\ stored \in Seq(Said) /\ Len(stored) \in Nat
         /\ toClient \in Seq(RmsgPacket \cup RoomPacket)
         /\ amount \in Nat \cup {Unknown} /\ view \in Seq(ShownMessage)
         /\ \A i \in 1..Len(toClient) : toClient[i].type = "rmsg" =>
              toClient[i] \in RmsgPacket /\ Carried(toClient[i])
<1>1. PacketsTypeOK /\ PacketsCarried
  BY DEF PacketsInv
<1>2. \A i \in 1..Len(toClient) : toClient[i].type = "rmsg" => toClient[i] \in RmsgPacket
  BY <1>1 DEF PacketsTypeOK, RoomPacket
<1> QED
  BY <1>1, <1>2 DEF PacketsTypeOK, PacketsCarried

\* A step of the server or the reader leaves what was typed and stored alone.
LEMMA SettledStays ==
  ASSUME PacketsInv, UNCHANGED <<typed, toServer, stored>>
  PROVE  /\ StoredIsTyped' /\ StoredGrows /\ Len(stored)' \in Nat
         /\ \A q \in RmsgPacket : Carried(q) => Carried(q)'
         /\ \A v : EntryRight(v) => EntryRight(v)'
<1>1. /\ typed \in Seq(Said) /\ Len(stored) \in Nat
      /\ typed' = typed /\ stored' = stored /\ toServer' = toServer
  BY ServerParts
<1>2. StoredIsTyped'
  BY <1>1 DEF PacketsInv, StoredIsTyped
<1>3. StoredGrows /\ Len(stored)' \in Nat
  BY <1>1 DEF StoredGrows
<1>4. ASSUME NEW q \in RmsgPacket, Carried(q) PROVE Carried(q)'
  BY <1>1, <1>3, <1>4, CarriedStays
<1>5. ASSUME NEW v, EntryRight(v) PROVE EntryRight(v)'
  BY <1>1, <1>5, EntryStays
<1> QED
  BY <1>2, <1>3, <1>4, <1>5

\* A packet more on the way to the reader.
LEMMA AppendedCarried ==
  ASSUME PacketsInv, StoredGrows, Len(stored)' \in Nat, NEW q \in RmsgPacket \cup RoomPacket,
         toClient' = Append(toClient, q), q.type = "rmsg" => Carried(q)'
  PROVE  PacketsCarried' /\ toClient' \in Seq(RmsgPacket \cup RoomPacket)
<1>1. /\ toClient \in Seq(RmsgPacket \cup RoomPacket) /\ Len(stored) \in Nat
      /\ \A i \in 1..Len(toClient) : toClient[i].type = "rmsg" =>
           toClient[i] \in RmsgPacket /\ Carried(toClient[i])
  BY ServerParts
<1>2. /\ toClient' \in Seq(RmsgPacket \cup RoomPacket) /\ Len(toClient') = Len(toClient) + 1
      /\ \A i \in 1..Len(toClient) : toClient'[i] = toClient[i]
      /\ toClient'[Len(toClient) + 1] = q
  BY <1>1, AppendProperties
<1>3. ASSUME NEW i \in 1..Len(toClient'), toClient'[i].type = "rmsg" PROVE Carried(toClient[i])'
  <2>1. PICK e : toClient'[i] = e
    OBVIOUS
  <2>2. CASE i \in 1..Len(toClient)
    <3>1. e \in RmsgPacket /\ Carried(e)
      BY <1>1, <1>2, <1>3, <2>1, <2>2
    <3>2. Carried(e)'
      BY <1>1, <3>1, CarriedStays
    <3> QED
      BY <2>1, <3>2
  <2>3. CASE ~(i \in 1..Len(toClient))
    <3>1. toClient'[i] = q
      BY <1>1, <1>2, <2>3
    <3> QED
      BY <1>3, <3>1
  <2> QED
    BY <2>2, <2>3
<1> QED
  BY <1>2, <1>3 DEF PacketsCarried

\* The reader takes the first packet off the way.
LEMMA TakenCarried ==
  ASSUME PacketsInv, UNCHANGED <<typed, toServer, stored>>,
         toClient # <<>>, toClient' = Tail(toClient)
  PROVE  PacketsCarried' /\ toClient' \in Seq(RmsgPacket \cup RoomPacket)
<1>1. /\ toClient \in Seq(RmsgPacket \cup RoomPacket)
      /\ \A i \in 1..Len(toClient) : toClient[i].type = "rmsg" =>
           toClient[i] \in RmsgPacket /\ Carried(toClient[i])
  BY ServerParts
<1>2. /\ toClient' \in Seq(RmsgPacket \cup RoomPacket) /\ Len(toClient') = Len(toClient) - 1
      /\ \A i \in 1..Len(toClient') : toClient'[i] = toClient[i + 1]
  BY <1>1, HeadTailProperties
<1>3. ASSUME NEW i \in 1..Len(toClient'), toClient'[i].type = "rmsg" PROVE Carried(toClient[i])'
  <2>1. PICK e : e = toClient[i + 1]
    OBVIOUS
  <2>2. i + 1 \in 1..Len(toClient)
    BY <1>1, <1>2
  <2>3. e \in RmsgPacket /\ Carried(e)
    BY <1>1, <1>2, <1>3, <2>1, <2>2
  <2>4. Carried(e)'
    BY <2>3, SettledStays
  <2>5. toClient'[i] = e
    BY <1>2, <2>1
  <2> QED
    BY <2>4, <2>5
<1> QED
  BY <1>2, <1>3 DEF PacketsCarried

\* What was shown stays right.
LEMMA ViewStays ==
  ASSUME PacketsInv, UNCHANGED <<typed, toServer, stored>>, view' = view
  PROVE  \A k \in 1..Len(view') : EntryRight(view[k])'
<1>1. ASSUME NEW k \in 1..Len(view) PROVE EntryRight(view[k])'
  <2>1. PICK v : v = view[k]
    OBVIOUS
  <2>2. EntryRight(v)
    BY <2>1 DEF PacketsInv
  <2>3. EntryRight(v)'
    BY <2>2, SettledStays
  <2>4. view'[k] = v
    BY <2>1
  <2> QED
    BY <2>3, <2>4
<1> QED
  BY <1>1

\* The end of the log-in touches no packet.
LEMMA DialogChanges ==
  ASSUME PacketsInv, Dialog
  PROVE  PacketsInv'
<1>1. /\ pending' = FALSE
      /\ UNCHANGED <<typed, toServer, stored, server, toClient, amount, view, refused>>
  BY Zenon DEF Dialog
<1>2. /\ typed' = typed /\ toServer' = toServer /\ stored' = stored /\ server' = server
      /\ toClient' = toClient /\ amount' = amount /\ view' = view /\ refused' = refused
  BY <1>1
<1>3. pending' \in BOOLEAN
  BY <1>1, Zenon
<1>4. PacketsTypeOK'
  BY <1>2, <1>3 DEF PacketsInv, PacketsTypeOK
<1>5. PackingInOrder'
  BY <1>2, SettledStays, PackingStays DEF PacketsInv
<1>6. PacketsCarried'
  <2>1. ASSUME NEW i \in 1..Len(toClient), toClient[i].type = "rmsg" PROVE Carried(toClient[i])'
    <3>1. PICK e : e = toClient[i]
      OBVIOUS
    <3>2. e \in RmsgPacket /\ Carried(e)
      BY <2>1, <3>1, ServerParts
    <3>3. Carried(e)'
      BY <1>2, <3>2, SettledStays
    <3>4. toClient'[i] = e
      BY <1>2, <3>1
    <3> QED
      BY <3>3, <3>4
  <2> QED
    BY <1>2, <2>1 DEF PacketsCarried
<1>7. StoredIsTyped' /\ \A k \in 1..Len(view') : EntryRight(view[k])'
  BY <1>2, SettledStays, ViewStays
<1>8. SoundPacketsAreRead'
  BY <1>2 DEF PacketsInv, SoundPacketsAreRead
<1> QED
  BY <1>4, <1>5, <1>6, <1>7, <1>8 DEF PacketsInv

\* extract_room: the amount of messages is known from then on.
LEMMA ReadRoomChanges ==
  ASSUME PacketsInv, ReadRoom
  PROVE  PacketsInv'
<1>1. /\ toClient # <<>> /\ Head(toClient).type = "room" /\ toClient' = Tail(toClient)
      /\ amount' = Head(toClient).amount
      /\ UNCHANGED <<typed, toServer, stored, server, pending, view, refused>>
  BY DEF ReadRoom, Incoming
<1>2. /\ typed' = typed /\ toServer' = toServer /\ stored' = stored /\ server' = server
      /\ pending' = pending /\ view' = view /\ refused' = refused
  BY <1>1
<1>3. PacketsCarried' /\ toClient' \in Seq(RmsgPacket \cup RoomPacket)
  BY <1>1, TakenCarried
<1>4. amount' \in Nat
  <2>1. Head(toClient) \in RmsgPacket \cup RoomPacket
    BY <1>1, ServerParts, HeadTailProperties
  <2> QED
    BY <1>1, <2>1 DEF RmsgPacket, RoomPacket
<1>5. PacketsTypeOK'
  BY <1>2, <1>3, <1>4 DEF PacketsInv, PacketsTypeOK
<1>6. PackingInOrder'
  BY <1>2, SettledStays, PackingStays DEF PacketsInv
<1>7. StoredIsTyped' /\ \A k \in 1..Len(view') : EntryRight(view[k])'
  BY <1>2, SettledStays, ViewStays
<1>8. SoundPacketsAreRead'
  BY <1>2 DEF PacketsInv, SoundPacketsAreRead
<1> QED
  BY <1>3, <1>5, <1>6, <1>7, <1>8 DEF PacketsInv

\* A packet that comes before the room does is dropped.
LEMMA ReadEarlyChanges ==
  ASSUME PacketsInv, ReadEarly
  PROVE  PacketsInv'
<1>1. /\ toClient # <<>> /\ toClient' = Tail(toClient)
      /\ UNCHANGED <<typed, toServer, stored, server, pending, amount, view, refused>>
  BY DEF ReadEarly, Incoming
<1>2. /\ typed' = typed /\ toServer' = toServer /\ stored' = stored /\ server' = server
      /\ pending' = pending /\ amount' = amount /\ view' = view /\ refused' = refused
  BY <1>1
<1>3. PacketsCarried' /\ toClient' \in Seq(RmsgPacket \cup RoomPacket)
  BY <1>1, TakenCarried
<1>4. PacketsTypeOK'
  BY <1>2, <1>3 DEF PacketsInv, PacketsTypeOK
<1>5. PackingInOrder'
  BY <1>2, SettledStays, PackingStays DEF PacketsInv
<1>6. StoredIsTyped' /\ \A k \in 1..Len(view') : EntryRight(view[k])'
  BY <1>2, SettledStays, ViewStays
<1>7. SoundPacketsAreRead'
  BY <1>2 DEF PacketsInv, SoundPacketsAreRead
<1> QED
  BY <1>3, <1>4, <1>5, <1>6, <1>7 DEF PacketsInv

\* extract_packet_message returns the text that was typed, cut to a message,
\* whatever semicolons are in it.
LEMMA MessageReceived ==
  ASSUME NEW t \in Seq({Sep, Letter})
  PROVE  PacketMessage(SmsgPacket(t)) = Cut(t, MessageMax)
<1>1. t \in Chars /\ Len(t) \in Nat
  BY DEF Chars, Sep, Letter
<1>2. PICK n \in Nat : n = Len(t)
  BY <1>1
<1>3. PICK p : p = SmsgPacket(t)
  OBVIOUS
<1>4. p = Joined(<<Smsg>>, Joined(<<Key>>, Joined(<<Room>>, Joined(<<n>>, t))))
  BY <1>1, <1>2, <1>3, SmsgShape
<1>5. /\ <<Smsg>> \in Chars /\ <<Key>> \in Chars /\ <<Room>> \in Chars
      /\ NoSep(<<Smsg>>) /\ NoSep(<<Key>>) /\ NoSep(<<Room>>)
  BY CodesAreChars, NoSepOne
<1>6. <<n>> \in Chars /\ NoSep(<<n>>)
  <2>1. n \in Int /\ n # Sep
    BY DEF Sep
  <2> QED
    BY <2>1, NoSepOne
<1>7. Skip(p, 3) = Joined(<<n>>, t) /\ Skip(p, 4) = t
  BY <1>1, <1>4, <1>5, <1>6, FourFieldsRead
<1>8. Atoi(Skip(p, 3)) = n
  BY <1>1, <1>7, AtoiRead
<1>9. PacketMessage(p) = Cut(t, Least(n, MessageMax))
  BY <1>7, <1>8 DEF PacketMessage
<1>10. Least(Least(n, MessageMax), Len(t)) = Least(MessageMax, Len(t))
  BY <1>2, SizesAssumption DEF Least
<1>11. Cut(t, Least(n, MessageMax)) = Cut(t, MessageMax)
  BY <1>10 DEF Cut
<1> QED
  BY <1>3, <1>9, <1>11

\* The packet of one message, whatever get_room_message_packet reserves for the id.
LEMMA LiveCarries ==
  ASSUME NEW id \in Nat \ {0}, NEW m \in Said, NEW q \in LivePackets(id, m)
  PROVE  /\ q \in RmsgPacket /\ q.type = "rmsg" /\ q.ids = <<id>> /\ q.live = TRUE
         /\ q.aligned => \E p \in Chars : q.chars = Prefix \o p /\ Carries(TRUE, id, m, p)
         /\ q.countable => NoSep(m.text) /\ q.chars = Prefix \o MessageStruct(id, m)
<1>1. PICK p : p = Prefix \o MessageStruct(id, m)
  OBVIOUS
<1>2. PICK lost \in 0..Digits - 1 :
        q = Carrying(Cut(p, Len(p) - lost), <<id>>, lost <= Len(m.text) + 1,
                     lost = 0 /\ Sep \notin Range(m.text), TRUE)
  BY <1>1 DEF LivePackets
<1>3. PICK s \in Chars : s = MessageStruct(id, m)
  BY StructShape, EmptyChars
<1>4. p \in Chars /\ Len(p) \in Int
  <2>1. p = Prefix \o s /\ p \in Chars
    BY <1>1, <1>3, PrefixThen
  <2> QED
    BY <2>1 DEF Chars
<1>5. Cut(p, Len(p) - lost) \in Chars
  BY <1>4, CutChars
<1>6. /\ q.type = "rmsg" /\ q.chars = Cut(p, Len(p) - lost) /\ q.ids = <<id>> /\ q.live = TRUE
      /\ q.aligned = (lost <= Len(m.text) + 1)
      /\ q.countable = (lost = 0 /\ Sep \notin Range(m.text))
  BY <1>2 DEF Carrying
<1>7. q \in RmsgPacket
  <2>1. <<id>> \in Seq(Nat \ {0})
    OBVIOUS
  <2>2. (lost <= Len(m.text) + 1) \in BOOLEAN
    <3>1. lost \in Int /\ Len(m.text) + 1 \in Int
      BY SaidText
    <3> QED
      BY <3>1
  <2>3. (lost = 0 /\ Sep \notin Range(m.text)) \in BOOLEAN
    BY Zenon
  <2>4. (lost <= Len(m.text) + 1) \in BOOLEAN /\ (lost = 0 /\ Sep \notin Range(m.text)) \in BOOLEAN
    BY <2>2, <2>3
  <2>5. PICK chars \in Chars, ids \in Seq(Nat \ {0}), a \in BOOLEAN, c \in BOOLEAN :
          q = [type |-> "rmsg", chars |-> chars, ids |-> ids, aligned |-> a, countable |-> c,
               live |-> TRUE]
    BY <1>2, <1>5, <2>1, <2>4, Zenon DEF Carrying
  <2> QED
    BY <2>5 DEF RmsgPacket
<1>8. lost = 0 => Cut(p, Len(p) - lost) = p
  <2>1. ASSUME lost = 0 PROVE Cut(p, Len(p) - lost) = p
    <3>1. PICK c \in Seq(Int) : c = p
      BY <1>4 DEF Chars
    <3>2. Len(c) \in Nat /\ Len(c) >= Len(c) /\ Len(p) - lost = Len(c)
      BY <2>1, <3>1
    <3>3. Cut(c, Len(c)) = c
      BY <3>2, CutAll
    <3> QED
      BY <3>1, <3>2, <3>3
  <2> QED
    BY <2>1
<1>9. ASSUME q.aligned
      PROVE  \E b \in Chars : q.chars = Prefix \o b /\ Carries(TRUE, id, m, b)
  <2>1. lost <= Len(m.text) + 1
    BY <1>6, <1>9
  <2>2. CASE lost = 0
    <3>1. s = s \o <<>>
      BY <1>3, ConcatEmptySeq DEF Chars
    <3>2. Carries(TRUE, id, m, s)
      <4>1. s = MessageStruct(id, m) \o <<>> /\ id \in Nat /\ TRUE \in BOOLEAN /\ <<>> \in Chars
        BY <1>3, <3>1, EmptyChars
      <4> QED
        BY <4>1, StructCarries
    <3> QED
      BY <1>1, <1>3, <1>6, <1>8, <2>2, <3>2
  <2>3. CASE lost # 0
    <3>1. lost \in 1..Digits - 1 /\ id \in Nat
      BY <2>3
    <3>2. \E b \in Chars : Cut(p, Len(p) - lost) = Prefix \o b /\ Carries(TRUE, id, m, b)
      BY <1>1, <2>1, <3>1, CurtailedCarries
    <3> QED
      BY <1>6, <3>2
  <2> QED
    BY <2>2, <2>3
<1>10. ASSUME q.countable
       PROVE  NoSep(m.text) /\ q.chars = Prefix \o MessageStruct(id, m)
  <2>1. lost = 0 /\ Sep \notin Range(m.text)
    BY <1>6, <1>10
  <2>2. NoSep(m.text)
    <3>1. m.text \in Chars
      BY SaidText
    <3>2. DOMAIN m.text = 1..Len(m.text)
      BY <3>1 DEF Chars
    <3> QED
      BY <2>1, <3>2 DEF NoSep, Range
  <2> QED
    BY <1>1, <1>6, <1>8, <2>1, <2>2
<1> QED
  BY <1>6, <1>7, <1>9, <1>10

\* on_message_request: the message is stored and sent.
LEMMA StoreChanges ==
  ASSUME PacketsInv, Store
  PROVE  PacketsInv'
<1>1. PacketsTypeOK /\ StoredIsTyped /\ PackingInOrder /\ PacketsCarried /\ SoundPacketsAreRead
  BY DEF PacketsInv
<1>2. PICK m : m = [by |-> toServer[1].by, text |-> PacketMessage(toServer[1].chars)]
  OBVIOUS
<1>3. /\ toServer # <<>> /\ stored' = Append(stored, m) /\ toServer' = <<>>
      /\ \E q \in LivePackets(Len(stored'), m) : toClient' = Append(toClient, q)
      /\ typed' = typed /\ server' = server /\ pending' = pending /\ amount' = amount
      /\ view' = view /\ refused' = refused
  BY <1>2 DEF Store
<1>4. typed \in Seq(Said) /\ stored \in Seq(Said) /\ Len(stored) \in Nat /\ Len(typed) \in Nat
  BY <1>1 DEF PacketsTypeOK
<1>5. PICK id : id = Len(stored) + 1
  OBVIOUS
<1>6. id \in Nat \ {0} /\ Len(typed) = id
  <2>1. Len(toServer) = 1
    BY <1>1, <1>3 DEF StoredIsTyped
  <2> QED
    BY <1>1, <1>4, <1>5, <2>1 DEF StoredIsTyped
<1>7. PICK o \in Said : o = typed[id]
  BY <1>4, <1>6
<1>8. PICK t \in Seq({Sep, Letter}) : t = o.text /\ Len(t) \in Nat \ {0}
  BY SaidText
<1>9. m = [by |-> o.by, text |-> Cut(t, MessageMax)]
  <2>1. toServer = <<[by |-> o.by, chars |-> SmsgPacket(t)]>>
    BY <1>1, <1>3, <1>6, <1>7, <1>8 DEF StoredIsTyped
  <2>2. toServer[1].by = o.by /\ toServer[1].chars = SmsgPacket(t)
    BY <2>1
  <2> QED
    BY <1>2, <2>2, MessageReceived
<1>10. m \in Said
  <2>1. MessageMax \in Nat /\ MessageMax # 0
    BY SizesAssumption
  <2>2. PICK c : c = Cut(t, MessageMax)
    OBVIOUS
  <2>3. c \in Seq({Sep, Letter}) /\ Len(c) = Least(MessageMax, Len(t))
    BY <2>1, <2>2, CutIs
  <2>4. Len(c) # 0
    BY <1>8, <2>1, <2>3 DEF Least
  <2>5. c # <<>>
    BY <2>4, EmptyChars
  <2>6. o.by \in User
    BY DEF Said
  <2>7. m = [by |-> o.by, text |-> c]
    BY <1>9, <2>2
  <2> QED
    BY <2>3, <2>5, <2>6, <2>7 DEF Said
<1>11. /\ stored' \in Seq(Said) /\ Len(stored') = id
       /\ \A i \in 1..Len(stored) : stored'[i] = stored[i]
       /\ stored'[id] = m
  BY <1>3, <1>4, <1>5, <1>10, AppendProperties
<1>12. StoredGrows /\ Len(stored)' \in Nat
  BY <1>4, <1>5, <1>6, <1>11 DEF StoredGrows
<1>13. PICK q \in LivePackets(id, m) : toClient' = Append(toClient, q)
  BY <1>3, <1>11
<1>14. /\ q \in RmsgPacket /\ q.type = "rmsg" /\ q.ids = <<id>> /\ q.live = TRUE
       /\ q.aligned => \E p \in Chars : q.chars = Prefix \o p /\ Carries(TRUE, id, m, p)
       /\ q.countable => NoSep(m.text) /\ q.chars = Prefix \o MessageStruct(id, m)
  BY <1>6, <1>10, <1>13, LiveCarries
<1>15. Sent(TRUE, id)' = m
  BY <1>11 DEF Sent
<1>16. Carried(q)'
  <2>1. Len(q.ids) = 1 /\ q.ids[1] = id /\ q.ids # <<>>
    BY <1>14
  <2>2. \A k \in 1..Len(q.ids) : k = 1 /\ q.ids[k] = id
    BY <2>1
  <2>3. id <= Len(stored')
    BY <1>6, <1>11
  <2>4. ASSUME q.countable PROVE Structs(q.chars, q.ids, q.live)'
    <3>1. PICK s \in Chars : s = MessageStruct(id, m)
      BY <1>6, <1>10, StructShape, EmptyChars
    <3>2. s = s \o <<>> /\ <<>> \in Chars
      BY <3>1, ConcatEmptySeq, EmptyChars DEF Chars
    <3>3. PICK rest \in [1..2 -> Chars] : rest[1] = s /\ rest[2] = <<>>
      <4>1. PICK r : r = [k \in 1..2 |-> IF k = 1 THEN s ELSE <<>>]
        OBVIOUS
      <4>2. r \in [1..2 -> Chars]
        BY <3>1, <3>2, <4>1
      <4>3. r[1] = s /\ r[2] = <<>>
        BY <4>1
      <4> QED
        BY <4>2, <4>3
    <3>4. q.chars = Prefix \o rest[1]
      BY <1>14, <2>4, <3>1, <3>3
    <3>5. rest[1] = MessageStruct(id, m) \o rest[2]
      BY <3>1, <3>2, <3>3
    <3>6. rest \in [1..Len(q.ids) + 1 -> Chars] /\ rest[Len(q.ids) + 1] = <<>>
      BY <2>1, <3>3
    <3>7. \A k \in 1..Len(q.ids) :
            rest[k] = MessageStruct(q.ids[k], Sent(q.live, q.ids[k])') \o rest[k + 1]
      <4>1. ASSUME NEW k \in 1..Len(q.ids)
            PROVE  rest[k] = MessageStruct(q.ids[k], Sent(q.live, q.ids[k])') \o rest[k + 1]
        <5>1. k = 1 /\ q.ids[k] = id /\ k + 1 = 2
          BY <2>2
        <5>2. Sent(q.live, q.ids[k])' = m
          BY <1>14, <1>15, <5>1
        <5> QED
          BY <3>5, <5>1, <5>2, Zenon
      <4> QED
        BY <4>1
    <3> QED
      BY <3>4, <3>6, <3>7 DEF Structs
  <2>5. ASSUME NEW k \in 1..Len(q.ids) PROVE Sent(q.live, q.ids[k])' = m
    BY <1>14, <1>15, <2>2
  <2>6. Sent(q.live, q.ids[1])' = m
    BY <1>14, <1>15, <2>1
  <2>7. \A k \in 1..Len(q.ids) : q.ids[k] <= Len(stored')
    BY <2>2, <2>3
  <2>8. q.aligned => /\ q.ids # <<>>
                     /\ \E p \in Chars :
                          /\ q.chars = Prefix \o p
                          /\ Carries(q.live, q.ids[1], Sent(q.live, q.ids[1])', p)
    BY <1>14, <2>1, <2>6
  <2>9. q.countable => /\ q.ids # <<>>
                       /\ Structs(q.chars, q.ids, q.live)'
                       /\ \A k \in 1..Len(q.ids) : NoSep(Sent(q.live, q.ids[k])'.text)
    BY <1>14, <2>1, <2>4, <2>5
  <2> QED
    BY <2>7, <2>8, <2>9 DEF Carried
<1>17. PacketsCarried' /\ toClient' \in Seq(RmsgPacket \cup RoomPacket)
  BY <1>12, <1>13, <1>14, <1>16, AppendedCarried
<1>18. PacketsTypeOK'
  <2>1. toServer' \in Seq([by : User, chars : Chars])
    BY <1>3, EmptySeq
  <2> QED
    BY <1>1, <1>3, <1>11, <1>17, <2>1 DEF PacketsTypeOK
<1>19. StoredIsTyped'
  <2>1. Len(typed') = Len(stored') + Len(toServer')
    <3>1. Len(toServer') = 0
      BY <1>3
    <3> QED
      BY <1>3, <1>6, <1>11, <3>1
  <2>2. ASSUME NEW i \in 1..id
        PROVE  stored'[i] = [by |-> typed[i].by, text |-> Cut(typed[i].text, MessageMax)]
    <3>1. CASE i = id
      BY <1>7, <1>8, <1>9, <1>11, <3>1
    <3>2. CASE i # id
      <4>1. i \in 1..Len(stored)
        BY <1>4, <1>5, <3>2
      <4> QED
        BY <1>1, <1>11, <4>1 DEF StoredIsTyped
    <3> QED
      BY <3>1, <3>2
  <2> QED
    BY <1>3, <1>11, <2>1, <2>2 DEF StoredIsTyped
<1>20. PackingInOrder'
  BY <1>1, <1>3, <1>12, PackingStays
<1>21. \A k \in 1..Len(view') : EntryRight(view[k])'
  <2>1. ASSUME NEW k \in 1..Len(view) PROVE EntryRight(view[k])'
    <3>1. PICK v : v = view[k]
      OBVIOUS
    <3>2. EntryRight(v)
      BY <3>1 DEF PacketsInv
    <3>3. EntryRight(v)'
      BY <1>3, <1>4, <3>2, EntryStays
    <3>4. view'[k] = v
      BY <1>3, <3>1
    <3> QED
      BY <3>3, <3>4
  <2> QED
    BY <1>3, <2>1
<1>22. SoundPacketsAreRead'
  BY <1>1, <1>3 DEF SoundPacketsAreRead
<1> QED
  BY <1>17, <1>18, <1>19, <1>20, <1>21, <1>22 DEF PacketsInv

\* send_room_packet: what is left to pack is what is stored, in its order.
LEMMA SendRoomChanges ==
  ASSUME PacketsInv, SendRoom
  PROVE  PacketsInv'
<1>1. PacketsTypeOK /\ StoredIsTyped /\ SoundPacketsAreRead
  BY DEF PacketsInv
<1>2. /\ toClient' = Append(toClient, [type |-> "room", amount |-> Len(stored)])
      /\ server' = IF stored = <<>> THEN Done
                   ELSE [at |-> "packing", left |-> [i \in DOMAIN stored |-> ReadBack(stored[i])],
                         packet |-> Prefix, ids |-> <<>>, first |-> TRUE]
      /\ UNCHANGED <<typed, toServer, stored, pending, amount, view, refused>>
  BY DEF SendRoom
<1>3. /\ typed' = typed /\ toServer' = toServer /\ stored' = stored /\ pending' = pending
      /\ amount' = amount /\ view' = view /\ refused' = refused
  BY <1>2
<1>4. stored \in Seq(Said) /\ Len(stored) \in Nat /\ DOMAIN stored = 1..Len(stored)
  BY <1>1 DEF PacketsTypeOK
<1>5. PICK left : left = [i \in 1..Len(stored) |-> ReadBack(stored[i])]
  OBVIOUS
<1>6. left \in Seq(Said) /\ Len(left) = Len(stored)
      /\ \A j \in 1..Len(stored) : left[j] = ReadBack(stored[j])
  <2>1. \A i \in 1..Len(stored) : ReadBack(stored[i]) \in Said
    <3>1. ASSUME NEW i \in 1..Len(stored) PROVE ReadBack(stored[i]) \in Said
      <4>1. FALSE \in BOOLEAN /\ Sent(FALSE, i) = ReadBack(stored[i])
        BY DEF Sent
      <4> QED
        BY <1>1, <4>1, SentSaid
    <3> QED
      BY <3>1
  <2>2. left \in [1..Len(stored) -> Said]
    BY <1>5, <2>1
  <2> QED
    BY <1>4, <1>5, <2>2, LenProperties
<1>7. /\ Prefix \in Chars /\ <<>> \in Seq(Nat \ {0})
      /\ Prefix = Prefix \o <<>>
  <2>1. Prefix \in Chars
    BY LiteralsAreChars, CodesAreChars DEF Prefix
  <2>2. Prefix = Prefix \o <<>>
    BY <2>1, ConcatEmptySeq DEF Chars
  <2> QED
    BY <2>1, <2>2
<1>8. server' \in {NotAsked, Done} \cup Packer /\ PackingInOrder'
  <2>1. CASE stored = <<>>
    <3>1. server' = Done
      BY <1>2, <2>1
    <3> QED
      BY <3>1 DEF PackingInOrder, Done
  <2>2. CASE stored # <<>>
    <3>1. server' = [at |-> "packing", left |-> left, packet |-> Prefix, ids |-> <<>>,
                     first |-> TRUE]
      BY <1>2, <1>4, <1>5, <2>2
    <3>2. /\ server'.at = "packing" /\ server'.left = left /\ server'.packet = Prefix
          /\ server'.ids = <<>> /\ server'.first = TRUE
      BY <3>1
    <3>3. server' \in Packer
      BY <1>6, <1>7, <3>1 DEF Packer
    <3>4. NextId' = 1
      BY <3>2 DEF NextId
    <3>5. left # <<>>
      <4>1. Len(stored) # 0
        BY <1>4, <2>2, EmptySeq
      <4> QED
        BY <1>6, <4>1, EmptyChars
    <3>6. Structs(Prefix, <<>>, FALSE)'
      <4>1. PICK rest : rest = [i \in 1..1 |-> <<>>]
        OBVIOUS
      <4>2. rest \in [1..1 -> Chars] /\ rest[1] = <<>>
        BY <4>1, EmptyChars
      <4>3. Len(<<>>) = 0 /\ 0 + 1 = 1
        OBVIOUS
      <4>4. \A k \in 1..Len(<<>>) : FALSE
        BY <4>3
      <4> QED
        BY <1>7, <4>2, <4>3, <4>4 DEF Structs
    <3>7. Structs(server.packet, server.ids, FALSE)'
      BY <3>2, <3>6 DEF Structs, Sent
    <3>8. NextId' + Len(server.left)' <= Len(stored)' + 1
      BY <1>3, <1>4, <1>6, <3>2, <3>4
    <3>9. \A j \in 1..Len(server'.left) : server'.left[j] = ReadBack(stored'[NextId' + j - 1])
      <4>1. ASSUME NEW j \in 1..Len(stored) PROVE left[j] = ReadBack(stored'[NextId' + j - 1])
        <5>1. NextId' + j - 1 = j
          BY <3>4
        <5> QED
          BY <1>3, <1>6, <5>1
      <4> QED
        BY <1>6, <3>2, <4>1
    <3>10. \A k \in 1..Len(server'.ids) : FALSE
      BY <3>2
    <3> QED
      BY <1>7, <3>2, <3>3, <3>5, <3>7, <3>8, <3>9, <3>10 DEF PackingInOrder
  <2> QED
    BY <2>1, <2>2
<1>9. StoredGrows /\ Len(stored)' \in Nat
  BY <1>3, <1>4 DEF StoredGrows
<1>10. PICK q \in RoomPacket : q = [type |-> "room", amount |-> Len(stored)]
  BY <1>4 DEF RoomPacket
<1>11. toClient' = Append(toClient, q) /\ q.type # "rmsg"
  BY <1>2, <1>10
<1>12. PacketsCarried' /\ toClient' \in Seq(RmsgPacket \cup RoomPacket)
  BY <1>9, <1>11, AppendedCarried
<1>13. PacketsTypeOK'
  BY <1>1, <1>3, <1>8, <1>12 DEF PacketsTypeOK
<1>14. StoredIsTyped' /\ \A k \in 1..Len(view') : EntryRight(view[k])'
  BY <1>3, SettledStays, ViewStays
<1>15. SoundPacketsAreRead'
  BY <1>1, <1>3 DEF SoundPacketsAreRead
<1> QED
  BY <1>8, <1>12, <1>13, <1>14, <1>15 DEF PacketsInv

\* What is packed so far can be read when it is sent.
LEMMA PackedCarried ==
  ASSUME PacketsInv, Packing, server.ids # <<>>
  PROVE  Packed \in RmsgPacket /\ Packed.type = "rmsg" /\ Carried(Packed)
<1>1. PacketsTypeOK /\ StoredIsTyped /\ PackingInOrder
  BY DEF PacketsInv
<1>2. server \in Packer /\ stored \in Seq(Said) /\ Len(stored) \in Nat
  BY <1>1 DEF PacketsTypeOK, Packing, NotAsked, Done
<1>3. PICK ids \in Seq(Nat \ {0}), chars \in Chars, f \in BOOLEAN :
        ids = server.ids /\ chars = server.packet /\ f = server.first
  BY <1>2 DEF Packer
<1>4. PICK c \in BOOLEAN : c = (f /\ Plain(ids))
  BY Zenon
<1>5. Packed = [type |-> "rmsg", chars |-> chars, ids |-> ids, aligned |-> f, countable |-> c,
                live |-> FALSE]
  BY <1>3, <1>4 DEF Packed, Carrying
<1>6. /\ Packed \in RmsgPacket /\ Packed.type = "rmsg" /\ Packed.chars = chars /\ Packed.ids = ids
      /\ Packed.aligned = f /\ Packed.countable = c /\ Packed.live = FALSE
  BY <1>5 DEF RmsgPacket
<1>7. /\ NextId + Len(server.left) <= Len(stored) + 1
      /\ \A k \in 1..Len(ids) : ids[k] < NextId
      /\ f => Structs(chars, ids, FALSE)
  BY <1>1, <1>3 DEF PackingInOrder, Packing
<1>8. NextId \in Nat /\ Len(server.left) \in Nat /\ Len(ids) \in Nat \ {0}
  <2>1. Len(ids) \in Nat /\ Len(ids) # 0
    BY <1>3, EmptySeq
  <2>2. Last(ids) \in Nat \ {0}
    <3>1. Len(ids) \in 1..Len(ids)
      BY <2>1
    <3> QED
      BY <3>1, ElementOfSeq DEF Last
  <2>3. NextId = Last(ids) + 1
    BY <1>3 DEF NextId
  <2> QED
    BY <1>2, <2>1, <2>2, <2>3 DEF Packer
<1>9. \A k \in 1..Len(ids) : ids[k] \in Nat \ {0}
  BY ElementOfSeq
<1>10. \A k \in 1..Len(ids) : ids[k] <= Len(stored) /\ ids[k] \in 1..Len(stored)
  BY <1>2, <1>7, <1>8, <1>9
<1>11. ASSUME f PROVE \E p \in Chars : chars = Prefix \o p
                                       /\ Carries(FALSE, ids[1], Sent(FALSE, ids[1]), p)
  <2>1. PICK rest \in [1..Len(ids) + 1 -> Chars] :
          /\ chars = Prefix \o rest[1]
          /\ \A k \in 1..Len(ids) :
               rest[k] = MessageStruct(ids[k], Sent(FALSE, ids[k])) \o rest[k + 1]
    BY <1>7, <1>11 DEF Structs
  <2>2. 1 \in 1..Len(ids) /\ 2 \in 1..Len(ids) + 1 /\ 1 \in 1..Len(ids) + 1
    BY <1>8
  <2>3. rest[1] = MessageStruct(ids[1], Sent(FALSE, ids[1])) \o rest[2]
    <3>1. 1 + 1 = 2
      OBVIOUS
    <3> QED
      BY <2>1, <2>2, <3>1
  <2>4. PICK m \in Said : m = Sent(FALSE, ids[1])
    <3>1. FALSE \in BOOLEAN /\ ids[1] \in 1..Len(stored)
      BY <1>10, <2>2
    <3> QED
      BY <1>1, <3>1, SentSaid
  <2>5. PICK r \in Chars, p \in Chars : r = rest[2] /\ p = rest[1]
    BY <2>2
  <2>6. ids[1] \in Nat /\ FALSE \in BOOLEAN /\ p = MessageStruct(ids[1], m) \o r
    BY <1>9, <2>2, <2>3, <2>4, <2>5
  <2>7. Carries(FALSE, ids[1], m, p)
    BY <2>6, StructCarries
  <2> QED
    BY <2>1, <2>4, <2>5, <2>7
<1>12. ASSUME c PROVE /\ Structs(chars, ids, FALSE)
                      /\ \A k \in 1..Len(ids) : NoSep(Sent(FALSE, ids[k]).text)
  <2>1. f /\ Plain(ids)
    BY <1>4, <1>12
  <2>2. ASSUME NEW k \in 1..Len(ids) PROVE NoSep(Sent(FALSE, ids[k]).text)
    <3>1. PICK m \in Said : m = Sent(FALSE, ids[k])
      <4>1. FALSE \in BOOLEAN /\ ids[k] \in 1..Len(stored)
        BY <1>10
      <4> QED
        BY <1>1, <4>1, SentSaid
    <3>2. m.text \in Chars /\ DOMAIN m.text = 1..Len(m.text)
      <4>1. m.text \in Chars
        BY SaidText
      <4> QED
        BY <4>1 DEF Chars
    <3>3. Sep \notin Range(m.text)
      <4>1. k \in DOMAIN ids
        BY <1>3
      <4>2. m = ReadBack(stored[ids[k]])
        BY <3>1 DEF Sent
      <4> QED
        BY <2>1, <4>1, <4>2 DEF Plain
    <3>4. NoSep(m.text)
      BY <3>2, <3>3 DEF NoSep, Range
    <3> QED
      BY <3>1, <3>4
  <2> QED
    BY <1>7, <2>1, <2>2
<1>13. ids # <<>>
  BY <1>3
<1>14. PICK q \in RmsgPacket : q = Packed
  BY <1>6
<1>15. Carried(q)
  <2>1. \A k \in 1..Len(q.ids) : q.ids[k] <= Len(stored)
    BY <1>6, <1>10, <1>14
  <2>2. q.aligned => /\ q.ids # <<>>
                     /\ \E p \in Chars : /\ q.chars = Prefix \o p
                                         /\ Carries(q.live, q.ids[1], Sent(q.live, q.ids[1]), p)
    BY <1>6, <1>11, <1>13, <1>14
  <2>3. q.countable => /\ q.ids # <<>>
                       /\ Structs(q.chars, q.ids, q.live)
                       /\ \A k \in 1..Len(q.ids) : NoSep(Sent(q.live, q.ids[k]).text)
    BY <1>6, <1>12, <1>13, <1>14
  <2> QED
    BY <2>1, <2>2, <2>3 DEF Carried
<1> QED
  BY <1>6, <1>14, <1>15

\* The last packet of a history.
LEMMA FlushChanges ==
  ASSUME PacketsInv, Flush
  PROVE  PacketsInv'
<1>1. PacketsTypeOK /\ PackingInOrder /\ SoundPacketsAreRead
  BY DEF PacketsInv
<1>2. /\ Packing /\ server.left = <<>> /\ toClient' = Append(toClient, Packed) /\ server' = Done
      /\ UNCHANGED <<typed, toServer, stored, pending, amount, view, refused>>
  BY DEF Flush
<1>3. /\ typed' = typed /\ toServer' = toServer /\ stored' = stored /\ pending' = pending
      /\ amount' = amount /\ view' = view /\ refused' = refused
  BY <1>2
<1>4. server.ids # <<>>
  BY <1>1, <1>2 DEF PackingInOrder, Packing
<1>5. PICK q \in RmsgPacket : q = Packed /\ q.type = "rmsg" /\ Carried(q)
  BY <1>2, <1>4, PackedCarried
<1>6. Carried(q)' /\ StoredGrows /\ Len(stored)' \in Nat
  BY <1>3, <1>5, SettledStays
<1>7. toClient' = Append(toClient, q)
  BY <1>2, <1>5
<1>8. PacketsCarried' /\ toClient' \in Seq(RmsgPacket \cup RoomPacket)
  BY <1>5, <1>6, <1>7, AppendedCarried
<1>9. PacketsTypeOK'
  BY <1>1, <1>2, <1>3, <1>8 DEF PacketsTypeOK
<1>10. PackingInOrder'
  BY <1>2 DEF PackingInOrder, Done
<1>11. StoredIsTyped' /\ \A k \in 1..Len(view') : EntryRight(view[k])'
  BY <1>3, SettledStays, ViewStays
<1>12. SoundPacketsAreRead'
  BY <1>1, <1>3 DEF SoundPacketsAreRead
<1> QED
  BY <1>8, <1>9, <1>10, <1>11, <1>12 DEF PacketsInv

\* A message added at the end is one struct more.
LEMMA OneStructMore ==
  ASSUME PacketsTypeOK, StoredIsTyped, NEW ids \in Seq(Nat \ {0}),
         NEW chars \in Chars, Structs(chars, ids, FALSE), NEW id \in 1..Len(stored),
         \A k \in 1..Len(ids) : ids[k] \in 1..Len(stored)
  PROVE  Structs(chars \o MessageStruct(id, Sent(FALSE, id)), Append(ids, id), FALSE)
<1>1. PICK n \in Nat : n = Len(ids)
  OBVIOUS
<1>2. PICK rest \in [1..n + 1 -> Chars] :
        /\ chars = Prefix \o rest[1]
        /\ rest[n + 1] = <<>>
        /\ \A k \in 1..n : rest[k] = MessageStruct(ids[k], Sent(FALSE, ids[k])) \o rest[k + 1]
  BY <1>1 DEF Structs
<1>3. PICK part \in Chars : part = MessageStruct(id, Sent(FALSE, id))
  <2>1. FALSE \in BOOLEAN /\ id \in Nat
    OBVIOUS
  <2>2. PICK m \in Said : m = Sent(FALSE, id)
    BY <2>1, SentSaid
  <2> QED
    BY <2>1, <2>2, StructShape, EmptyChars
<1>4. PICK more : more = [k \in 1..n + 2 |-> IF k = n + 2 THEN <<>> ELSE rest[k] \o part]
  OBVIOUS
<1>5. more[n + 2] = <<>> /\ \A k \in 1..n + 1 : more[k] = rest[k] \o part
  BY <1>1, <1>4
<1>6. more \in [1..n + 2 -> Chars]
  <2>1. \A k \in 1..n + 1 : rest[k] \in Chars
    BY <1>2
  <2>2. \A k \in 1..n + 1 : rest[k] \o part \in Chars
    BY <1>3, <2>1, ConcatChars, ZenonT(20)
  <2>3. <<>> \in Chars
    BY EmptyChars
  <2>4. ASSUME NEW k \in 1..n + 2 PROVE (IF k = n + 2 THEN <<>> ELSE rest[k] \o part) \in Chars
    BY <1>1, <2>2, <2>3
  <2> QED
    BY <1>4, <2>4
<1>7. chars \o part = Prefix \o more[1]
  <2>1. 1 \in 1..n + 1 /\ rest[1] \in Chars
    BY <1>1, <1>2
  <2>2. Prefix \in Chars
    BY LiteralsAreChars, CodesAreChars DEF Prefix
  <2>3. (Prefix \o rest[1]) \o part = Prefix \o (rest[1] \o part)
    BY <1>3, <2>1, <2>2, Regroup, ZenonT(20)
  <2>4. more[1] = rest[1] \o part
    BY <1>5, <2>1
  <2> QED
    BY <1>2, <2>3, <2>4, Zenon
<1>8. PICK all : all = Append(ids, id)
  OBVIOUS
<1>9. /\ Len(all) = n + 1 /\ all[n + 1] = id
      /\ \A k \in 1..n : all[k] = ids[k]
  BY <1>1, <1>8
<1>10. ASSUME NEW k \in 1..n + 1
       PROVE  more[k] = MessageStruct(all[k], Sent(FALSE, all[k])) \o more[k + 1]
  <2>1. CASE k = n + 1
    <3>1. rest[k] = <<>> /\ more[k] = <<>> \o part /\ more[k + 1] = <<>> /\ all[k] = id
      <4>1. k + 1 = n + 2
        BY <1>1, <2>1
      <4> QED
        BY <1>2, <1>5, <1>9, <2>1, <4>1
    <3>2. <<>> \o part = part /\ part \o <<>> = part
      BY <1>3, ConcatEmptySeq DEF Chars
    <3> QED
      BY <1>3, <3>1, <3>2
  <2>2. CASE k # n + 1
    <3>1. k \in 1..n /\ k + 1 \in 1..n + 1
      BY <1>1, <2>2
    <3>2. /\ rest[k] = MessageStruct(ids[k], Sent(FALSE, ids[k])) \o rest[k + 1]
          /\ more[k] = rest[k] \o part /\ more[k + 1] = rest[k + 1] \o part /\ all[k] = ids[k]
      BY <1>2, <1>5, <1>9, <3>1
    <3>3. PICK s \in Chars : s = MessageStruct(ids[k], Sent(FALSE, ids[k]))
      <4>1. FALSE \in BOOLEAN /\ ids[k] \in Nat /\ ids[k] \in 1..Len(stored)
        BY <1>1, <3>1
      <4>2. PICK m \in Said : m = Sent(FALSE, ids[k])
        BY <4>1, SentSaid
      <4> QED
        BY <4>1, <4>2, StructShape, EmptyChars
    <3>4. PICK r \in Chars : r = rest[k + 1]
      BY <1>2, <3>1
    <3>5. (s \o r) \o part = s \o (r \o part)
      BY <1>3, <3>3, <3>4, Regroup, ZenonT(20)
    <3> QED
      BY <3>2, <3>3, <3>4, <3>5, Zenon
  <2> QED
    BY <2>1, <2>2
<1>11. Len(all) + 1 = n + 2
  BY <1>1, <1>9
<1>12. \A k \in 1..Len(all) :
         more[k] = MessageStruct(all[k], Sent(FALSE, all[k])) \o more[k + 1]
  BY <1>9, <1>10
<1>13. Structs(chars \o part, all, FALSE)
  BY <1>5, <1>6, <1>7, <1>11, <1>12, Zenon DEF Structs
<1> QED
  BY <1>3, <1>8, <1>13

\* A turn of the loop in get_room_message_packets, whether the part fits or not.
LEMMA PackChanges ==
  ASSUME PacketsInv, Pack
  PROVE  PacketsInv'
<1>1. PacketsTypeOK /\ StoredIsTyped /\ PackingInOrder /\ PacketsCarried /\ SoundPacketsAreRead
  BY DEF PacketsInv
<1>2. PICK part : part = MessageStruct(NextId, Head(server.left))
  OBVIOUS
<1>3. /\ Packing /\ server.left # <<>>
      /\ IF Len(server.packet) + Len(part) >= PacketMax
         THEN /\ toClient' = Append(toClient, Packed)
              /\ server' = [server EXCEPT !.left = Tail(@), !.ids = <<NextId>>, !.first = FALSE,
                                          !.packet = Cut(Prefix \o <<Sep>> \o part, PacketMax)]
         ELSE /\ server' = [server EXCEPT !.left = Tail(@), !.ids = Append(@, NextId),
                                          !.packet = @ \o part]
              /\ UNCHANGED toClient
      /\ UNCHANGED <<typed, toServer, stored, pending, amount, view, refused>>
  BY <1>2 DEF Pack, NextId
<1>4. /\ typed' = typed /\ toServer' = toServer /\ stored' = stored /\ pending' = pending
      /\ amount' = amount /\ view' = view /\ refused' = refused
  BY <1>3
<1>5. server \in Packer /\ stored \in Seq(Said) /\ Len(stored) \in Nat
  BY <1>1, <1>3 DEF PacketsTypeOK, Packing, NotAsked, Done
<1>6. PICK left \in Seq(Said), ids \in Seq(Nat \ {0}), chars \in Chars, f \in BOOLEAN :
        left = server.left /\ ids = server.ids /\ chars = server.packet /\ f = server.first
  BY <1>5 DEF Packer
<1>7. server = [at |-> "packing", left |-> left, packet |-> chars, ids |-> ids, first |-> f]
  BY <1>5, <1>6 DEF Packer
<1>8. PICK next \in Nat \ {0} : next = NextId
  <2>1. ids # <<>> => Last(ids) \in Nat \ {0}
    <3>1. ids # <<>> => Len(ids) \in 1..Len(ids)
      BY EmptySeq
    <3> QED
      BY <3>1, ElementOfSeq DEF Last
  <2> QED
    BY <1>6, <2>1 DEF NextId
<1>9. /\ next + Len(left) <= Len(stored) + 1
      /\ \A j \in 1..Len(left) : left[j] = ReadBack(stored[next + j - 1])
      /\ \A k \in 1..Len(ids) : ids[k] < next
      /\ ids = <<>> => chars = Prefix
      /\ f => Structs(chars, ids, FALSE)
  BY <1>1, <1>3, <1>6, <1>8 DEF PackingInOrder, Packing
<1>10. /\ Len(left) \in Nat \ {0} /\ left # <<>> /\ Tail(left) \in Seq(Said)
       /\ Len(Tail(left)) = Len(left) - 1 /\ Head(left) = left[1]
       /\ \A j \in 1..Len(Tail(left)) : Tail(left)[j] = left[j + 1]
  <2>1. left # <<>>
    BY <1>3, <1>6
  <2> QED
    BY <2>1, HeadTailProperties
<1>11. next \in 1..Len(stored) /\ Head(left) = ReadBack(stored[next]) /\ Head(left) \in Said
  <2>1. next \in 1..Len(stored)
    BY <1>5, <1>8, <1>9, <1>10
  <2>2. 1 \in 1..Len(left) /\ next + 1 - 1 = next
    BY <1>10
  <2> QED
    BY <1>9, <1>10, <2>1, <2>2
<1>12. PICK m \in Said : m = Head(left) /\ m = Sent(FALSE, next)
  BY <1>11 DEF Sent
<1>13. /\ part = MessageStruct(next, m) /\ part \in Chars
       /\ Len(part) = 8 + Len(Names[m.by]) + Len(m.text)
  <2>1. next \in Nat
    BY <1>8
  <2>2. part = MessageStruct(next, m)
    BY <1>2, <1>6, <1>8, <1>12
  <2> QED
    BY <2>1, <2>2, StructShape, StructLength, EmptyChars
<1>14. \A k \in 1..Len(ids) : ids[k] \in Nat \ {0} /\ ids[k] \in 1..Len(stored)
  <2>1. \A k \in 1..Len(ids) : ids[k] \in Nat \ {0}
    BY ElementOfSeq
  <2> QED
    BY <1>5, <1>8, <1>9, <1>11, <2>1
<1>15. StoredGrows /\ Len(stored)' \in Nat
  BY <1>4, <1>5 DEF StoredGrows
<1>16. ASSUME NEW all \in Seq(Nat \ {0}), NEW g \in BOOLEAN, NEW more \in Chars,
              server' = [at |-> "packing", left |-> Tail(left), packet |-> more, ids |-> all,
                         first |-> g],
              all # <<>>, Last(all) = next, \A k \in 1..Len(all) : all[k] <= next,
              g => Structs(more, all, FALSE)
       PROVE  server' \in Packer /\ PackingInOrder'
  <2>1. /\ server'.at = "packing" /\ server'.left = Tail(left) /\ server'.packet = more
        /\ server'.ids = all /\ server'.first = g
    BY <1>16
  <2>2. server' \in Packer
    BY <1>10, <1>16 DEF Packer
  <2>3. NextId' = next + 1
    BY <1>16, <2>1 DEF NextId
  <2>4. NextId' + Len(server'.left) <= Len(stored') + 1
    BY <1>4, <1>5, <1>8, <1>9, <1>10, <2>1, <2>3
  <2>5. \A j \in 1..Len(server'.left) : server'.left[j] = ReadBack(stored'[NextId' + j - 1])
    <3>1. ASSUME NEW j \in 1..Len(Tail(left))
          PROVE  Tail(left)[j] = ReadBack(stored[next + 1 + j - 1])
      <4>1. j + 1 \in 1..Len(left) /\ next + (j + 1) - 1 = next + 1 + j - 1
        BY <1>8, <1>10
      <4>2. left[j + 1] = ReadBack(stored[next + (j + 1) - 1])
        BY <1>9, <4>1
      <4> QED
        BY <1>10, <4>1, <4>2
    <3> QED
      BY <1>4, <2>1, <2>3, <3>1
  <2>6. \A k \in 1..Len(server'.ids) : server'.ids[k] < NextId'
    <3>1. \A k \in 1..Len(all) : all[k] \in Nat \ {0}
      BY ElementOfSeq
    <3>2. \A k \in 1..Len(all) : all[k] < next + 1
      BY <1>8, <1>16, <3>1
    <3> QED
      BY <2>1, <2>3, <3>2
  <2>7. server'.first => Structs(server.packet, server.ids, FALSE)'
    <3>1. \A k \in 1..Len(all) : all[k] \in Nat \ {0}
      BY ElementOfSeq
    <3>2. ASSUME NEW k \in 1..Len(all) PROVE all[k] <= Len(stored)
      <4>1. all[k] \in Nat /\ all[k] <= next /\ next <= Len(stored)
        BY <1>11, <1>16, <3>1
      <4> QED
        BY <1>5, <1>8, <4>1
    <3>3. FALSE \in BOOLEAN /\ (Structs(more, all, FALSE) => Structs(more, all, FALSE)')
      BY <1>5, <1>15, <3>2, StructsStay
    <3> QED
      BY <1>16, <2>1, <3>3
  <2> QED
    BY <1>16, <2>1, <2>2, <2>4, <2>5, <2>6, <2>7 DEF PackingInOrder
<1>17. ASSUME Len(server.packet) + Len(part) >= PacketMax
       PROVE  server' \in Packer /\ PackingInOrder' /\ PacketsCarried'
              /\ toClient' \in Seq(RmsgPacket \cup RoomPacket)
  <2>1. ids # <<>>
    <3>1. SUFFICES ASSUME ids = <<>> PROVE FALSE
      OBVIOUS
    <3>2. server.packet = Prefix /\ Len(Prefix) = 4
      BY <1>6, <1>9, <3>1 DEF Prefix
    <3>3. Len(Names[m.by]) \in 1..NameMax /\ Len(m.text) \in Nat
      BY SaidText
    <3>4. Len(m.text) <= MessageMax
      <4>1. FALSE \in BOOLEAN
        OBVIOUS
      <4> QED
        BY <1>1, <1>11, <1>12, <4>1, SentSaid
    <3>5. /\ PacketMax > 12 + NameMax + MessageMax /\ PacketMax \in Nat
          /\ NameMax \in Nat /\ MessageMax \in Nat
      BY SizesAssumption
    <3>6. PICK a \in Nat, b \in Nat : a = Len(Names[m.by]) /\ b = Len(m.text)
      BY <3>3
    <3>7. Len(server.packet) = 4 /\ Len(part) = 8 + a + b
      BY <1>13, <3>2, <3>6
    <3>8. a <= NameMax /\ b <= MessageMax
      BY <3>3, <3>4, <3>5, <3>6
    <3>9. PICK top \in Nat : top = PacketMax /\ top > 12 + NameMax + MessageMax
      BY <3>5
    <3>10. 4 + (8 + a + b) >= top
      BY <1>17, <3>7, <3>9
    <3>11. PICK c \in Nat, d \in Nat : c = NameMax /\ d = MessageMax
      BY <3>5
    <3>12. a <= c /\ b <= d /\ top > 12 + c + d /\ 4 + (8 + a + b) >= top
      BY <3>8, <3>9, <3>10, <3>11
    <3> QED
      BY <3>12
  <2>2. PICK q \in RmsgPacket : q = Packed /\ q.type = "rmsg" /\ Carried(q)
    BY <1>3, <1>6, <2>1, PackedCarried
  <2>3. toClient' = Append(toClient, q)
    BY <1>3, <1>17, <2>2
  <2>4. Carried(q)'
    BY <1>4, <2>2, SettledStays
  <2>5. PacketsCarried' /\ toClient' \in Seq(RmsgPacket \cup RoomPacket)
    BY <1>15, <2>2, <2>3, <2>4, AppendedCarried
  <2>6. PICK more \in Chars : more = Cut(Prefix \o <<Sep>> \o part, PacketMax)
    <3>1. Prefix \in Chars /\ <<Sep>> \in Chars
      BY LiteralsAreChars, CodesAreChars DEF Prefix
    <3>2. Prefix \o <<Sep>> \in Chars
      BY <3>1, ConcatChars, ZenonT(20)
    <3>3. Prefix \o <<Sep>> \o part \in Chars
      BY <1>13, <3>2, ConcatChars, ZenonT(20)
    <3>4. PacketMax \in Int
      BY SizesAssumption
    <3> QED
      BY <3>3, <3>4, CutChars
  <2>7. PICK all \in Seq(Nat \ {0}) : all = <<next>>
    <3>1. <<next>> \in Seq(Nat \ {0})
      OBVIOUS
    <3> QED
      BY <3>1
  <2>8. server' = [at |-> "packing", left |-> Tail(left), packet |-> more, ids |-> all,
                   first |-> FALSE]
    <3>1. server' = [server EXCEPT !.left = Tail(left), !.ids = all, !.first = FALSE,
                                   !.packet = more]
      BY <1>3, <1>6, <1>7, <1>8, <1>17, <2>6, <2>7, Zenon
    <3> QED
      BY <1>7, <3>1
  <2>9. all # <<>> /\ Last(all) = next /\ \A k \in 1..Len(all) : all[k] <= next
    BY <1>8, <2>7 DEF Last
  <2>10. server' \in Packer /\ PackingInOrder'
    BY <1>16, <2>8, <2>9
  <2> QED
    BY <2>5, <2>10
<1>18. ASSUME ~(Len(server.packet) + Len(part) >= PacketMax)
       PROVE  server' \in Packer /\ PackingInOrder' /\ PacketsCarried'
              /\ toClient' \in Seq(RmsgPacket \cup RoomPacket)
  <2>1. toClient' = toClient
    BY <1>3, <1>18
  <2>2. PacketsCarried' /\ toClient' \in Seq(RmsgPacket \cup RoomPacket)
    <3>1. ASSUME NEW i \in 1..Len(toClient), toClient[i].type = "rmsg" PROVE Carried(toClient[i])'
      <4>1. PICK e : e = toClient[i]
        OBVIOUS
      <4>2. e \in RmsgPacket /\ Carried(e)
        BY <3>1, <4>1, ServerParts
      <4>3. Carried(e)'
        BY <1>4, <4>2, SettledStays
      <4>4. toClient'[i] = e
        BY <2>1, <4>1
      <4> QED
        BY <4>3, <4>4
    <3> QED
      BY <1>1, <2>1, <3>1 DEF PacketsCarried, PacketsTypeOK
  <2>3. PICK more \in Chars : more = chars \o part
    BY <1>13, ConcatChars, ZenonT(20)
  <2>4. PICK all \in Seq(Nat \ {0}) : all = Append(ids, next)
    <3>1. Append(ids, next) \in Seq(Nat \ {0})
      OBVIOUS
    <3> QED
      BY <3>1
  <2>5. server' = [at |-> "packing", left |-> Tail(left), packet |-> more, ids |-> all,
                   first |-> f]
    <3>1. server' = [server EXCEPT !.left = Tail(left), !.ids = all, !.packet = more]
      BY <1>3, <1>6, <1>7, <1>8, <1>18, <2>3, <2>4, Zenon
    <3> QED
      BY <1>7, <3>1
  <2>6. all # <<>> /\ Last(all) = next /\ \A k \in 1..Len(all) : all[k] <= next
    <3>1. /\ Len(all) = Len(ids) + 1 /\ all[Len(ids) + 1] = next
          /\ \A k \in 1..Len(ids) : all[k] = ids[k]
      BY <2>4
    <3>2. Len(all) # 0
      BY <3>1
    <3>3. all # <<>> /\ Last(all) = next
      BY <3>1, <3>2, EmptyChars DEF Last
    <3>4. ASSUME NEW k \in 1..Len(all) PROVE all[k] <= next
      <4>1. CASE k = Len(ids) + 1
        BY <1>8, <3>1, <4>1
      <4>2. CASE k # Len(ids) + 1
        <5>1. k \in 1..Len(ids)
          BY <3>1, <4>2
        <5>2. all[k] = ids[k] /\ ids[k] < next /\ ids[k] \in Nat
          BY <1>9, <1>14, <3>1, <5>1
        <5> QED
          BY <5>2
      <4> QED
        BY <4>1, <4>2
    <3> QED
      BY <3>3, <3>4
  <2>7. f => Structs(more, all, FALSE)
    <3>1. ASSUME f
          PROVE  Structs(chars \o MessageStruct(next, Sent(FALSE, next)), Append(ids, next), FALSE)
      <4>1. Structs(chars, ids, FALSE)
        BY <1>9, <3>1
      <4>2. \A k \in 1..Len(ids) : ids[k] \in 1..Len(stored)
        BY <1>14
      <4> QED
        BY <1>1, <1>11, <4>1, <4>2, OneStructMore
    <3> QED
      BY <1>12, <1>13, <2>3, <2>4, <3>1
  <2>8. server' \in Packer /\ PackingInOrder'
    BY <1>16, <2>5, <2>6, <2>7
  <2> QED
    BY <2>2, <2>8
<1>19. server' \in Packer /\ PackingInOrder' /\ PacketsCarried'
       /\ toClient' \in Seq(RmsgPacket \cup RoomPacket)
  BY <1>17, <1>18
<1>20. PacketsTypeOK'
  BY <1>1, <1>4, <1>19 DEF PacketsTypeOK
<1>21. StoredIsTyped' /\ \A k \in 1..Len(view') : EntryRight(view[k])'
  BY <1>4, SettledStays, ViewStays
<1>22. SoundPacketsAreRead'
  BY <1>1, <1>4 DEF SoundPacketsAreRead
<1> QED
  BY <1>19, <1>20, <1>21, <1>22 DEF PacketsInv

\* What a client shows has an id, a name and a text, sound or not.
LEMMA ShownTyped ==
  ASSUME NEW q \in RmsgPacket, NEW p \in Chars, NEW k \in Nat, NEW s \in BOOLEAN
  PROVE  /\ Shown(q, s, p, k) \in ShownMessage
         /\ ~s => EntryRight(Shown(q, s, p, k))
         /\ \A j \in 1..Len(q.ids) : k = j =>
              Shown(q, s, p, k)
                = [says |-> Extract(p), of |-> q.ids[j], sound |-> s, live |-> q.live]
<1>1. q.ids \in Seq(Nat \ {0}) /\ q.live \in BOOLEAN
  BY DEF RmsgPacket
<1>2. PICK said \in [id : Nat, by : Chars, text : Chars] : said = Extract(p)
  <2>1. Atoi(p) \in Nat
    BY AtoiNat
  <2>2. SentBy(Field(Skip(p, 1))) \in Chars
    <3>1. Field(Skip(p, 1)) \in Chars
      BY SkipChars, FieldChars
    <3>2. NameMax - 1 \in Int
      BY SizesAssumption
    <3> QED
      BY <3>1, <3>2, CutChars DEF SentBy
  <2>3. Cut(Skip(p, 4), Least(Atoi(Skip(p, 3)), MessageMax)) \in Chars
    <3>1. Skip(p, 4) \in Chars /\ Skip(p, 3) \in Chars
      BY SkipChars
    <3>2. Least(Atoi(Skip(p, 3)), MessageMax) \in Int
      BY <3>1, AtoiNat, SizesAssumption DEF Least
    <3> QED
      BY <3>1, <3>2, CutChars
  <2>4. Extract(p) \in [id : Nat, by : Chars, text : Chars]
    BY <2>1, <2>2, <2>3 DEF Extract
  <2> QED
    BY <2>4
<1>3. PICK o \in Nat : o = IF k \in DOMAIN q.ids THEN q.ids[k] ELSE 0
  <2>1. k \in DOMAIN q.ids => q.ids[k] \in Nat \ {0}
    BY <1>1
  <2> QED
    BY <2>1
<1>4. Shown(q, s, p, k) = [says |-> said, of |-> o, sound |-> s, live |-> q.live]
  BY <1>2, <1>3 DEF Shown
<1>5. Shown(q, s, p, k) \in ShownMessage
  BY <1>1, <1>4 DEF ShownMessage
<1>6. ~s => EntryRight(Shown(q, s, p, k))
  BY <1>4 DEF EntryRight
<1>7. \A j \in 1..Len(q.ids) : k = j => o = q.ids[j]
  BY <1>1, <1>3
<1> QED
  BY <1>2, <1>4, <1>5, <1>6, <1>7

\* One message: where the fields are in place, it is read, and read right.
LEMMA MessageRead ==
  ASSUME PacketsInv, NEW q \in RmsgPacket, Carried(q), NEW body, body = Skip(q.chars, 2)
  PROVE  /\ q.aligned => Readable(body)
         /\ Shown(q, q.aligned, body, 1) \in ShownMessage
         /\ EntryRight(Shown(q, q.aligned, body, 1))
<1>1. PacketsTypeOK /\ StoredIsTyped
  BY DEF PacketsInv
<1>2. /\ q.ids \in Seq(Nat \ {0}) /\ q.live \in BOOLEAN /\ q.chars \in Chars
      /\ q.aligned \in BOOLEAN /\ 1 \in Nat
  BY DEF RmsgPacket
<1>3. body \in Chars
  BY <1>2, SkipChars
<1>4. Shown(q, q.aligned, body, 1) \in ShownMessage
  BY <1>2, <1>3, ShownTyped
<1>5. ASSUME q.aligned
      PROVE  Readable(body) /\ EntryRight(Shown(q, q.aligned, body, 1))
  <2>1. PICK p \in Chars : /\ q.chars = Prefix \o p
                           /\ Carries(q.live, q.ids[1], Sent(q.live, q.ids[1]), p)
    BY <1>5 DEF Carried
  <2>2. body = p
    BY <2>1, PrefixThen
  <2>3. 1 \in 1..Len(q.ids)
    <3>1. q.ids # <<>>
      BY <1>5 DEF Carried
    <3> QED
      BY <1>2, <3>1, EmptySeq
  <2>4. PICK id \in 1..Len(stored), live \in BOOLEAN : id = q.ids[1] /\ live = q.live
    <3>1. q.ids[1] \in Nat \ {0} /\ q.ids[1] <= Len(stored)
      BY <1>2, <2>3, ElementOfSeq DEF Carried
    <3>2. Len(stored) \in Nat
      BY <1>1 DEF PacketsTypeOK
    <3> QED
      BY <1>2, <3>1, <3>2
  <2>5. TRUE \in BOOLEAN /\ Carries(live, id, Sent(live, id), p)
    BY <2>1, <2>4
  <2>6. Readable(p) /\ EntryRight([says |-> Extract(p), of |-> id, sound |-> TRUE, live |-> live])
    BY <1>1, <2>5, ReadsRight
  <2>7. Shown(q, TRUE, p, 1) = [says |-> Extract(p), of |-> id, sound |-> TRUE, live |-> live]
    <3>1. TRUE \in BOOLEAN /\ 1 \in Nat
      OBVIOUS
    <3> QED
      BY <2>3, <2>4, <3>1, ShownTyped
  <2>8. q.aligned = TRUE
    BY <1>2, <1>5
  <2> QED
    BY <2>2, <2>6, <2>7, <2>8
<1>6. ~q.aligned => EntryRight(Shown(q, q.aligned, body, 1))
  BY <1>2, <1>3, ShownTyped
<1> QED
  BY <1>4, <1>5, <1>6

\* A message takes five characters at least, one for each semicolon.
LEMMA StructIsLong ==
  ASSUME NEW id \in Nat, NEW m \in Said, NEW r \in Chars
  PROVE  Len(MessageStruct(id, m) \o r) >= 5 + Len(r)
<1>1. Len(MessageStruct(id, m) \o r) = Len(MessageStruct(id, m)) + Len(r)
  <2>1. MessageStruct(id, m) \in Chars
    BY StructShape
  <2> QED
    BY <2>1, ConcatLength, Zenon
<1>2. PICK n \in Nat : n = Len(MessageStruct(id, m)) /\ n >= 8
  <2>1. Len(MessageStruct(id, m)) = 8 + Len(Names[m.by]) + Len(m.text)
    BY StructLength
  <2>2. PICK a \in Nat, b \in Nat : a = Len(Names[m.by]) /\ b = Len(m.text)
    BY SaidText
  <2>3. 8 + a + b \in Nat /\ 8 + a + b >= 8
    OBVIOUS
  <2>4. Len(MessageStruct(id, m)) = 8 + a + b
    BY <2>1, <2>2
  <2> QED
    BY <2>3, <2>4
<1>3. Len(r) \in Nat
  BY DEF Chars
<1> QED
  BY <1>1, <1>2, <1>3

\* A packet of structs without semicolons in the texts: the reader counts its
\* messages and finds each.
LEMMA StructsRead ==
  ASSUME PacketsInv, NEW q \in RmsgPacket, Carried(q), q.countable,
         NEW body, body = Skip(q.chars, 2)
  PROVE  /\ Counts(body) = {Len(q.ids)} /\ Len(q.ids) \in Nat
         /\ \A k \in 1..Len(q.ids) :
              /\ Readable(NextStruct(body, k - 1))
              /\ EntryRight(Shown(q, q.countable, NextStruct(body, k - 1), k))
<1>1. PacketsTypeOK /\ StoredIsTyped
  BY DEF PacketsInv
<1>2. q.ids \in Seq(Nat \ {0}) /\ q.live \in BOOLEAN /\ q.countable = TRUE
  BY DEF RmsgPacket
<1>3. /\ q.ids # <<>> /\ Structs(q.chars, q.ids, q.live)
      /\ \A k \in 1..Len(q.ids) : NoSep(Sent(q.live, q.ids[k]).text) /\ q.ids[k] <= Len(stored)
  BY DEF Carried
<1>4. PICK n \in Nat \ {0} : n = Len(q.ids)
  BY <1>2, <1>3, EmptySeq
<1>5. PICK rest \in [1..n + 1 -> Chars] :
        /\ q.chars = Prefix \o rest[1]
        /\ rest[n + 1] = <<>>
        /\ \A k \in 1..n : rest[k] = MessageStruct(q.ids[k], Sent(q.live, q.ids[k])) \o rest[k + 1]
  BY <1>3, <1>4 DEF Structs
<1>6. body = rest[1]
  <2>1. rest[1] \in Chars
    BY <1>4, <1>5
  <2> QED
    BY <1>5, <2>1, PrefixThen
<1>7. ASSUME NEW k \in 1..n
      PROVE  /\ Skip(rest[k], 5) = rest[k + 1] /\ Len(rest[k]) >= 5 + Len(rest[k + 1])
             /\ Readable(rest[k]) /\ EntryRight(Shown(q, TRUE, rest[k], k))
  <2>1. PICK id \in 1..Len(stored), live \in BOOLEAN : id = q.ids[k] /\ live = q.live
    <3>1. q.ids[k] \in Nat \ {0} /\ q.ids[k] <= Len(stored)
      BY <1>2, <1>3, <1>4, ElementOfSeq
    <3>2. Len(stored) \in Nat
      BY <1>1 DEF PacketsTypeOK
    <3> QED
      BY <1>2, <3>1, <3>2
  <2>2. PICK m \in Said : m = Sent(live, id)
    BY <1>1, SentSaid
  <2>3. PICK r \in Chars, p \in Chars : r = rest[k + 1] /\ p = rest[k]
    <3>1. k + 1 \in 1..n + 1 /\ k \in 1..n + 1
      BY <1>4
    <3> QED
      BY <3>1
  <2>4. p = MessageStruct(id, m) \o r /\ id \in Nat /\ NoSep(m.text)
    <3>1. rest[k] = MessageStruct(q.ids[k], Sent(q.live, q.ids[k])) \o rest[k + 1]
      BY <1>5
    <3>2. NoSep(Sent(q.live, q.ids[k]).text)
      BY <1>3, <1>4
    <3>3. p = MessageStruct(id, m) \o r /\ NoSep(m.text)
      BY <2>1, <2>2, <2>3, <3>1, <3>2, Zenon
    <3>4. id \in Nat
      OBVIOUS
    <3> QED
      BY <3>3, <3>4
  <2>5. Skip(p, 5) = r
    BY <2>4, StructWalk
  <2>6. Len(p) >= 5 + Len(r)
    BY <2>4, StructIsLong
  <2>7. Carries(live, id, m, p)
    BY <2>4, StructCarries
  <2>8. TRUE \in BOOLEAN /\ Carries(live, id, Sent(live, id), p)
    BY <2>2, <2>7
  <2>9. Readable(p) /\ EntryRight([says |-> Extract(p), of |-> id, sound |-> TRUE, live |-> live])
    BY <1>1, <2>8, ReadsRight
  <2>10. Shown(q, TRUE, p, k) = [says |-> Extract(p), of |-> id, sound |-> TRUE, live |-> live]
    <3>1. TRUE \in BOOLEAN /\ k \in Nat /\ k \in 1..Len(q.ids)
      BY <1>4
    <3> QED
      BY <2>1, <3>1, ShownTyped
  <2> QED
    BY <2>3, <2>5, <2>6, <2>9, <2>10
<1>8. Counts(rest[1]) = {n} /\ \A k \in 0..n : NextStruct(rest[1], k) = rest[k + 1]
  <2>1. \A k \in 1..n : Skip(rest[k], 5) = rest[k + 1] /\ Len(rest[k]) >= 5 + Len(rest[k + 1])
    BY <1>7
  <2> QED
    BY <1>5, <2>1, CountsChain
<1>9. ASSUME NEW k \in 1..n
      PROVE  /\ Readable(NextStruct(body, k - 1))
             /\ EntryRight(Shown(q, q.countable, NextStruct(body, k - 1), k))
  <2>1. k - 1 \in 0..n /\ k - 1 + 1 = k
    BY <1>4
  <2>2. NextStruct(rest[1], k - 1) = rest[k - 1 + 1]
    BY <1>8, <2>1
  <2>3. NextStruct(body, k - 1) = rest[k]
    BY <1>6, <2>1, <2>2
  <2> QED
    BY <1>2, <1>7, <2>3
<1> QED
  BY <1>4, <1>6, <1>8, <1>9

\* What the reader takes is one of the packets on the way.
LEMMA TakenPacket ==
  ASSUME PacketsInv, Incoming("rmsg")
  PROVE  /\ Head(toClient) \in RmsgPacket /\ Carried(Head(toClient))
         /\ toClient # <<>> /\ toClient' = Tail(toClient)
<1>1. toClient # <<>> /\ Head(toClient).type = "rmsg" /\ toClient' = Tail(toClient)
  BY DEF Incoming
<1>2. /\ toClient \in Seq(RmsgPacket \cup RoomPacket)
      /\ \A i \in 1..Len(toClient) : toClient[i].type = "rmsg" =>
           toClient[i] \in RmsgPacket /\ Carried(toClient[i])
  BY ServerParts
<1>3. 1 \in 1..Len(toClient) /\ Head(toClient) = toClient[1]
  BY <1>1, <1>2, EmptySeq
<1>4. PICK q : q = Head(toClient) /\ q = toClient[1]
  BY <1>3
<1>5. q \in RmsgPacket /\ Carried(q)
  BY <1>1, <1>2, <1>3, <1>4
<1> QED
  BY <1>1, <1>4, <1>5

\* The reader's step leaves all but his own state alone.
LEMMA ReaderStep ==
  ASSUME PacketsInv, toClient # <<>>, toClient' = Tail(toClient),
         UNCHANGED <<typed, toServer, stored, server, pending>>,
         amount' \in Nat \cup {Unknown}, view' \in Seq(ShownMessage), refused' = FALSE,
         \A k \in 1..Len(view') : EntryRight(view'[k])
  PROVE  PacketsInv'
<1>1. /\ typed' = typed /\ toServer' = toServer /\ stored' = stored /\ server' = server
      /\ pending' = pending
  OBVIOUS
<1>2. PacketsCarried' /\ toClient' \in Seq(RmsgPacket \cup RoomPacket)
  BY <1>1, TakenCarried
<1>3. refused' \in BOOLEAN /\ ~refused'
  BY Zenon
<1>4. PacketsTypeOK'
  BY <1>1, <1>2, <1>3 DEF PacketsInv, PacketsTypeOK
<1>5. PackingInOrder'
  BY <1>1, SettledStays, PackingStays DEF PacketsInv
<1>6. StoredIsTyped'
  BY <1>1, SettledStays
<1>7. \A k \in 1..Len(view') : EntryRight(view[k])'
  <2>1. ASSUME NEW k \in 1..Len(view') PROVE EntryRight(view[k])'
    <3>1. PICK v : v = view'[k]
      OBVIOUS
    <3>2. EntryRight(v)
      BY <3>1
    <3>3. EntryRight(v)'
      BY <1>1, <3>2, SettledStays
    <3>4. view'[k] = v
      BY <3>1
    <3> QED
      BY <3>3, <3>4
  <2> QED
    BY <2>1
<1>8. SoundPacketsAreRead'
  BY <1>3, Zenon DEF SoundPacketsAreRead
<1> QED
  BY <1>2, <1>4, <1>5, <1>6, <1>7, <1>8 DEF PacketsInv

\* extract_rmsg after the log-in: one message, or nothing.
LEMMA ReadMessageChanges ==
  ASSUME PacketsInv, ReadMessage
  PROVE  PacketsInv'
<1>1. PICK q, body : /\ q = Head(toClient) /\ q \in RmsgPacket /\ Carried(q)
                     /\ body = Skip(q.chars, 2)
                     /\ toClient # <<>> /\ toClient' = Tail(toClient)
  BY TakenPacket DEF ReadMessage
<1>2. /\ amount # Unknown /\ UNCHANGED <<typed, toServer, stored, server, pending>>
      /\ \/ /\ Readable(body)
            /\ view' = Append(view, Shown(q, q.aligned, body, 1))
            /\ amount' = amount + 1
            /\ refused' = refused
         \/ /\ ~Readable(body)
            /\ refused' = (refused \/ q.aligned)
            /\ view' = view /\ amount' = amount
  BY <1>1 DEF ReadMessage
<1>3. /\ q.aligned => Readable(body)
      /\ Shown(q, q.aligned, body, 1) \in ShownMessage
      /\ EntryRight(Shown(q, q.aligned, body, 1))
  BY <1>1, MessageRead
<1>4. /\ view \in Seq(ShownMessage) /\ amount \in Nat \cup {Unknown} /\ ~refused
      /\ refused \in BOOLEAN
      /\ \A k \in 1..Len(view) : EntryRight(view[k])
  BY DEF PacketsInv, PacketsTypeOK, SoundPacketsAreRead
<1>5. CASE Readable(body)
  <2>1. /\ view' = Append(view, Shown(q, q.aligned, body, 1))
        /\ amount' = amount + 1 /\ refused' = refused
    BY <1>2, <1>5
  <2>2. PICK v \in ShownMessage : v = Shown(q, q.aligned, body, 1)
    BY <1>3
  <2>3. /\ view' \in Seq(ShownMessage) /\ Len(view') = Len(view) + 1
        /\ \A k \in 1..Len(view) : view'[k] = view[k]
        /\ view'[Len(view) + 1] = v
    BY <1>4, <2>1, <2>2, AppendProperties
  <2>4. ASSUME NEW k \in 1..Len(view') PROVE EntryRight(view'[k])
    <3>1. CASE k \in 1..Len(view)
      <4>1. view'[k] = view[k]
        BY <2>3, <3>1
      <4> QED
        BY <1>4, <3>1, <4>1
    <3>2. CASE ~(k \in 1..Len(view))
      <4>1. view'[k] = v
        BY <1>4, <2>3, <3>2
      <4> QED
        BY <1>3, <2>2, <4>1
    <3> QED
      BY <3>1, <3>2
  <2>5. amount' \in Nat \cup {Unknown}
    BY <1>2, <1>4, <2>1
  <2>6. refused' = FALSE
    BY <1>4, <2>1, Zenon
  <2> QED
    BY <1>1, <1>2, <2>3, <2>4, <2>5, <2>6, ReaderStep
<1>6. CASE ~Readable(body)
  <2>1. refused' = (refused \/ q.aligned) /\ view' = view /\ amount' = amount
    BY <1>2, <1>6
  <2>2. refused' = FALSE
    BY <1>3, <1>4, <1>6, <2>1, Zenon
  <2>3. \A k \in 1..Len(view') : EntryRight(view'[k])
    BY <1>4, <2>1
  <2>4. view' \in Seq(ShownMessage) /\ amount' \in Nat \cup {Unknown}
    BY <1>4, <2>1
  <2> QED
    BY <1>1, <1>2, <2>2, <2>3, <2>4, ReaderStep
<1> QED
  BY <1>5, <1>6

\* As many parts as are counted and the room lacks, from the first.
LEMMA PartsInOrder ==
  ASSUME NEW body, NEW lacking \in Int
  PROVE  /\ \E size \in Nat : Counted(body, lacking) = 1..size
         /\ \A n \in Nat : Counts(body) = {n} => Counted(body, lacking) \subseteq 1..n
<1>1. \A n \in Counts(body) : n \in Nat
  BY DEF Counts
<1>2. CASE Counts(body) = {}
  <2>1. Counted(body, lacking) = {}
    BY <1>2 DEF Counted
  <2>2. 1..0 = {} /\ 0 \in Nat
    OBVIOUS
  <2> QED
    BY <1>2, <2>1, <2>2
<1>3. CASE Counts(body) # {}
  <2>1. PICK n \in Nat : n \in Counts(body)
    BY <1>1, <1>3
  <2>2. Counts(body) = {n}
    BY <2>1, CountsAtMostOne
  <2>3. Counted(body, lacking) = 1..Least(n, lacking)
    BY <2>2 DEF Counted
  <2>4. Least(n, lacking) \in Int /\ Least(n, lacking) <= n
    BY DEF Least
  <2>5. PICK l \in Int : l = Least(n, lacking) /\ l <= n
    BY <2>4
  <2>6. \E size \in Nat : 1..l = 1..size
    <3>1. CASE l \in Nat
      BY <3>1
    <3>2. CASE l \notin Nat
      <4>1. 1..l = {} /\ 1..0 = {} /\ 0 \in Nat
        BY <3>2
      <4> QED
        BY <4>1
    <3> QED
      BY <3>1, <3>2
  <2>7. 1..l \subseteq 1..n
    BY <2>5
  <2>8. \A k \in Nat : Counts(body) = {k} => k = n
    BY <2>2
  <2> QED
    BY <2>3, <2>5, <2>6, <2>7, <2>8
<1> QED
  BY <1>2, <1>3

\* extract_rmsg during the log-in: as many messages as are counted, or nothing.
LEMMA ReadHistoryChanges ==
  ASSUME PacketsInv, ReadHistory
  PROVE  PacketsInv'
<1>1. PICK q, body : /\ q = Head(toClient) /\ q \in RmsgPacket /\ Carried(q)
                     /\ body = Skip(q.chars, 2)
                     /\ toClient # <<>> /\ toClient' = Tail(toClient)
  BY TakenPacket DEF ReadHistory
<1>2. PICK parts : parts = UNION {1..Least(n, amount - Len(view)) : n \in Counts(body)}
  OBVIOUS
<1>3. /\ amount # Unknown /\ UNCHANGED <<typed, toServer, stored, server, pending, amount>>
      /\ \/ /\ Counts(body) # {} /\ \A k \in parts : Readable(NextStruct(body, k - 1))
            /\ view' = view \o [k \in parts |-> Shown(q, q.countable, NextStruct(body, k - 1), k)]
            /\ refused' = refused
         \/ /\ Counts(body) = {} \/ \E k \in parts : ~Readable(NextStruct(body, k - 1))
            /\ refused' = (refused \/ q.countable)
            /\ view' = view
  BY <1>1, <1>2 DEF ReadHistory
<1>4. /\ view \in Seq(ShownMessage) /\ amount \in Nat \cup {Unknown} /\ ~refused
      /\ refused \in BOOLEAN
      /\ \A k \in 1..Len(view) : EntryRight(view[k])
  BY DEF PacketsInv, PacketsTypeOK, SoundPacketsAreRead
<1>5. /\ q.chars \in Chars /\ q.countable \in BOOLEAN
      /\ body \in Chars
  <2>1. q.chars \in Chars /\ q.countable \in BOOLEAN /\ 2 \in Nat
    BY <1>1 DEF RmsgPacket
  <2> QED
    BY <1>1, <2>1, SkipChars
<1>6. PICK lacking \in Int : parts = Counted(body, lacking)
  <2>1. amount - Len(view) \in Int
    BY <1>3, <1>4
  <2> QED
    BY <1>2, <2>1, Zenon DEF Counted
<1>7. /\ \E size \in Nat : parts = 1..size
      /\ \A n \in Nat : Counts(body) = {n} => parts \subseteq 1..n
  BY <1>6, PartsInOrder
<1>8. PICK size \in Nat : parts = 1..size
  BY <1>7
<1>9. ASSUME q.countable
      PROVE  /\ Counts(body) # {}
             /\ \A k \in parts : /\ Readable(NextStruct(body, k - 1))
                                 /\ EntryRight(Shown(q, q.countable, NextStruct(body, k - 1), k))
  <2>1. /\ Counts(body) = {Len(q.ids)} /\ Len(q.ids) \in Nat
        /\ \A k \in 1..Len(q.ids) :
             /\ Readable(NextStruct(body, k - 1))
             /\ EntryRight(Shown(q, q.countable, NextStruct(body, k - 1), k))
    BY <1>1, <1>9, StructsRead
  <2>2. parts \subseteq 1..Len(q.ids)
    BY <1>7, <2>1
  <2> QED
    BY <2>1, <2>2
<1>10. ASSUME NEW k \in parts
      PROVE  /\ Shown(q, q.countable, NextStruct(body, k - 1), k) \in ShownMessage
             /\ EntryRight(Shown(q, q.countable, NextStruct(body, k - 1), k))
  <2>1. k \in Nat /\ k - 1 \in Nat
    BY <1>8
  <2>2. NextStruct(body, k - 1) \in Chars
    <3>1. 5 * (k - 1) \in Nat
      BY <2>1
    <3> QED
      BY <1>5, <3>1, SkipChars DEF NextStruct
  <2>3. /\ Shown(q, q.countable, NextStruct(body, k - 1), k) \in ShownMessage
        /\ ~q.countable => EntryRight(Shown(q, q.countable, NextStruct(body, k - 1), k))
    BY <1>1, <1>5, <2>1, <2>2, ShownTyped
  <2> QED
    BY <1>9, <2>3
<1>11. CASE Counts(body) # {} /\ \A k \in parts : Readable(NextStruct(body, k - 1))
  <2>1. PICK new : new = [k \in 1..size |-> Shown(q, q.countable, NextStruct(body, k - 1), k)]
    OBVIOUS
  <2>2. view' = view \o new /\ refused' = refused
    BY <1>3, <1>8, <1>11, <2>1
  <2>3. \A k \in 1..size : new[k] \in ShownMessage /\ EntryRight(new[k])
    BY <1>8, <1>10, <2>1
  <2>4. new \in Seq(ShownMessage) /\ Len(new) = size
    <3>1. new \in [1..size -> ShownMessage]
      BY <2>1, <2>3
    <3> QED
      BY <2>1, <3>1, LenProperties
  <2>5. /\ view' \in Seq(ShownMessage) /\ Len(view') = Len(view) + size /\ Len(view) \in Nat
        /\ \A k \in 1..Len(view') :
             view'[k] = IF k <= Len(view) THEN view[k] ELSE new[k - Len(view)]
    BY <1>4, <2>2, <2>4, ConcatProperties
  <2>6. ASSUME NEW k \in 1..Len(view') PROVE EntryRight(view'[k])
    <3>1. CASE k <= Len(view)
      <4>1. view'[k] = view[k] /\ k \in 1..Len(view)
        BY <2>5, <3>1
      <4> QED
        BY <1>4, <4>1
    <3>2. CASE ~(k <= Len(view))
      <4>1. view'[k] = new[k - Len(view)] /\ k - Len(view) \in 1..size
        BY <2>5, <3>2
      <4>2. PICK j \in 1..size : view'[k] = new[j]
        BY <4>1
      <4> QED
        BY <2>3, <4>2
    <3> QED
      BY <3>1, <3>2
  <2>7. refused' = FALSE
    BY <1>4, <2>2, Zenon
  <2>8. amount' \in Nat \cup {Unknown}
    BY <1>3, <1>4
  <2> QED
    BY <1>1, <1>3, <2>5, <2>6, <2>7, <2>8, ReaderStep
<1>12. CASE ~(Counts(body) # {} /\ \A k \in parts : Readable(NextStruct(body, k - 1)))
  <2>1. refused' = (refused \/ q.countable) /\ view' = view
    BY <1>3, <1>12
  <2>2. ~q.countable
    BY <1>9, <1>12
  <2>3. refused' = FALSE
    BY <1>4, <2>1, <2>2, Zenon
  <2>4. \A k \in 1..Len(view') : EntryRight(view'[k])
    BY <1>4, <2>1
  <2>5. view' \in Seq(ShownMessage) /\ amount' \in Nat \cup {Unknown}
    BY <1>3, <1>4, <2>1
  <2> QED
    BY <1>1, <1>3, <2>3, <2>4, <2>5, ReaderStep
<1> QED
  BY <1>11, <1>12

\* A step of another component.
LEMMA NothingChanges ==
  ASSUME PacketsInv, UNCHANGED packetVars
  PROVE  PacketsInv'
<1>1. /\ typed' = typed /\ toServer' = toServer /\ stored' = stored /\ server' = server
      /\ toClient' = toClient /\ pending' = pending /\ amount' = amount /\ view' = view
      /\ refused' = refused
  BY DEF packetVars
<1>2. PacketsTypeOK'
  BY <1>1 DEF PacketsInv, PacketsTypeOK
<1>3. PackingInOrder'
  BY <1>1, SettledStays, PackingStays DEF PacketsInv
<1>4. PacketsCarried'
  <2>1. ASSUME NEW i \in 1..Len(toClient), toClient[i].type = "rmsg" PROVE Carried(toClient[i])'
    <3>1. PICK e : e = toClient[i]
      OBVIOUS
    <3>2. e \in RmsgPacket /\ Carried(e)
      BY <2>1, <3>1, ServerParts
    <3>3. Carried(e)'
      BY <1>1, <3>2, SettledStays
    <3>4. toClient'[i] = e
      BY <1>1, <3>1
    <3> QED
      BY <3>3, <3>4
  <2> QED
    BY <1>1, <2>1 DEF PacketsCarried
<1>5. StoredIsTyped' /\ \A k \in 1..Len(view') : EntryRight(view[k])'
  BY <1>1, SettledStays, ViewStays
<1>6. SoundPacketsAreRead'
  BY <1>1 DEF PacketsInv, SoundPacketsAreRead
<1> QED
  BY <1>2, <1>3, <1>4, <1>5, <1>6 DEF PacketsInv

\* Every step of the authors, the server and the reader keeps the invariant.
THEOREM PacketsInvariance == PacketsSpec => []PacketsInv
<1>1. PacketsInit => PacketsInv
  BY PacketsStart
<1>2. PacketsInv /\ [PacketsNext]_packetVars => PacketsInv'
  <2> SUFFICES ASSUME PacketsInv, [PacketsNext]_packetVars PROVE PacketsInv'
    OBVIOUS
  <2>1. CASE \E u \in User, t \in Texts : Type(u, t)
    BY <2>1, TypeChanges
  <2>2. CASE Store
    BY <2>2, StoreChanges
  <2>3. CASE SendRoom
    BY <2>3, SendRoomChanges
  <2>4. CASE Pack
    BY <2>4, PackChanges
  <2>5. CASE Flush
    BY <2>5, FlushChanges
  <2>6. CASE Dialog
    BY <2>6, DialogChanges
  <2>7. CASE ReadRoom
    BY <2>7, ReadRoomChanges
  <2>8. CASE ReadHistory
    BY <2>8, ReadHistoryChanges
  <2>9. CASE ReadMessage
    BY <2>9, ReadMessageChanges
  <2>10. CASE ReadEarly
    BY <2>10, ReadEarlyChanges
  <2>11. CASE UNCHANGED packetVars
    BY <2>11, NothingChanges
  <2> QED
    BY <2>1, <2>2, <2>3, <2>4, <2>5, <2>6, <2>7, <2>8, <2>9, <2>10, <2>11 DEF PacketsNext
<1> QED
  BY <1>1, <1>2, PTL DEF PacketsSpec

\* What a member sees of a message is what its author typed.
THEOREM TextsShownAsTyped == PacketsSpec => []ShownAsTyped
<1>1. PacketsInv => ShownAsTyped
  <2> SUFFICES ASSUME PacketsInv, NEW k \in DOMAIN view, view[k].sound
               PROVE  LET says == view[k].says
                          m    == typed[view[k].of]
                      IN /\ says.id = view[k].of
                         /\ Len(Names[m.by]) < NameMax => says.by = Names[m.by]
                         /\ IF view[k].live
                            THEN \E n \in TextLost :
                                   says.text = Cut(m.text, Least(MessageMax, Len(m.text)) - n)
                            ELSE says.text = Cut(m.text, MessageMax - 1)
    BY Zenon DEF ShownAsTyped
  <2>1. k \in 1..Len(view)
    BY DEF PacketsInv, PacketsTypeOK
  <2>2. EntryRight(view[k])
    BY <2>1 DEF PacketsInv
  <2> QED
    BY <2>2, Zenon DEF EntryRight
<1> QED
  BY <1>1, PacketsInvariance, PTL

\* Every sound packet is read.
THEOREM SoundPacketsRead == PacketsSpec => []SoundPacketsAreRead
<1>1. PacketsInv => SoundPacketsAreRead
  BY DEF PacketsInv
<1> QED
  BY <1>1, PacketsInvariance, PTL
=============================================================================
