--------------------------- MODULE MessagePackets ---------------------------
(***************************************************************************)
(* The text of a message on its way: the packet that the author's client   *)
(* makes of it (client packets.c), what the server reads (event_handler.c) *)
(* and stores, the packets it makes for members who are online and for the *)
(* history of a room (packets.c), and what a member's client reads in them *)
(* (packet_handler.c).  A packet is a sequence of characters; an           *)
(* identifier, a number or a date counts as one character, and numbers are *)
(* the naturals.  One room and one member who reads; the others write.     *)
(* LoginTransfer has what happens around the packets.                      *)
(***************************************************************************)
EXTENDS Integers, Sequences, SequencesExt

CONSTANTS
    Names,       \* user -> his name, a sequence of letters
    Texts,       \* what users type
    NameMax,     \* NAME_MAX_SIZE
    MessageMax,  \* MESSAGE_MAX_SIZE
    PacketMax,   \* PACKET_MAX_SIZE
    Digits,      \* the digits of the room's id
    MaxMessages  \* bound: messages typed

Sep    == -1      \* a semicolon
Null   == <<-2>>  \* the pointer NULL
Letter == -3      \* any character of a text that is no digit
Rmsg   == -4
Smsg   == -5
Key    == -6      \* a session key
Room   == 1
Date   == MessageMax + 1    \* seconds since 1970: more than any size
User   == DOMAIN Names

ASSUME SizesAssumption ==
    /\ {NameMax, MaxMessages, PacketMax} \subseteq Nat
    /\ MessageMax \in Nat \ {0, 1} /\ Digits \in Nat \ {0}
    /\ \A u \in User : /\ Names[u] \in Seq(Int) /\ Len(Names[u]) \in 1..NameMax
                       /\ \A i \in DOMAIN Names[u] : Names[u][i] < Key
    /\ \A t \in Texts : t \in Seq({Sep, Letter}) /\ t # <<>>
    /\ PacketMax > 12 + NameMax + MessageMax        \* no message exceeds a packet

VARIABLES
    typed,    \* what the authors entered: [by, text]
    toServer, \* a packet on its way to the server, with its author
    stored,   \* the messages of the room in Redis: [by, text], by id
    server,   \* the packing of the history: [left, packet, ids, parts], or Done
    toClient, \* packets on their way to the reader
    pending,  \* his log-in is under way
    amount,   \* msg_amount of his room, or Unknown
    view,     \* its messages: [id, by, text], and what they should be
    refused   \* sound packets of which he could read nothing

packetVars ==
    <<typed, toServer, stored, server, toClient, pending, amount, view, refused>>

NotAsked == [at |-> "waiting"]
Done    == [at |-> "done"]
Unknown == -1

PacketsInit ==
    /\ typed = <<>> /\ toServer = <<>> /\ stored = <<>>
    /\ server = NotAsked
    /\ toClient = <<>>
    /\ pending = TRUE
    /\ amount = Unknown /\ view = <<>>
    /\ refused = FALSE

-----------------------------------------------------------------------------
(* Strings *)

Least(a, b)  == IF a <= b THEN a ELSE b
Cut(s, n)    == SubSeq(s, 1, Least(n, Len(s)))
IsSep(c)     == c = Sep

\* strchr(p, ';') + 1
After(p) ==
    LET i == SelectInSeq(p, IsSep) IN IF i = 0 THEN Null ELSE SubSeq(p, i + 1, Len(p))

\* The same n times, giving up at the first NULL: no semicolon is in it.
Skip(p, n) ==
    LET from[k \in 0..n] == IF k = 0 THEN p ELSE After(from[k - 1]) IN from[n]

Field(p) == LET i == SelectInSeq(p, IsSep) IN IF i = 0 THEN p ELSE SubSeq(p, 1, i - 1)

Atoi(p) == IF p # <<>> /\ Head(p) >= 0 THEN Head(p) ELSE 0

-----------------------------------------------------------------------------
(* The author's client and the server's on_message_request *)

\* smsg;<session>;<chat_id>;<msg_size>;<message>
SmsgPacket(t) == <<Smsg, Sep, Key, Sep, Room, Sep, Len(t), Sep>> \o t

Type(u, t) ==
    /\ Len(typed) < MaxMessages /\ toServer = <<>>
    /\ typed' = Append(typed, [by |-> u, text |-> t])
    /\ toServer' = <<[by |-> u, chars |-> SmsgPacket(t)]>>
    /\ UNCHANGED <<stored, server, toClient, pending, amount, view, refused>>

\* extract_session, extract_third_number
Session(p)     == Field(Skip(p, 1))
ThirdNumber(p) == Atoi(Skip(p, 2))

\* Fault: the text ends at the first semicolon.
FirstField(p) == Field(Skip(p, 4))

\* extract_packet_message: as many characters as the packet says.
PacketMessage(p) == Cut(Skip(p, 4), Least(Atoi(Skip(p, 3)), MessageMax))

\* Redis knows the names of the users who are on line, MongoDB those of all.
UserName(u) == Names[u]

\* get_message_packet: <id>;<sender>;<date>;<size>;<text>;
MessageStruct(id, m) ==
    <<id, Sep>> \o UserName(m.by) \o <<Sep, Date, Sep, Len(m.text), Sep>> \o m.text \o <<Sep>>

Prefix == <<Rmsg, Sep, Room, Sep>>

\* What the packet carries goes along: the ids, whether the fields are where
\* they belong, and whether semicolons tell one message from the next.
Carrying(chars, ids, aligned, countable, live) ==
    [type |-> "rmsg", chars |-> chars, ids |-> ids, aligned |-> aligned,
     countable |-> countable, live |-> live]

\* get_room_message_packet reserves for the id what an argument that is not
\* passed would take: as many as Digits - 1 characters may not fit.  With the
\* last semicolon and all the text the one before it may go.
LivePackets(id, m) ==
    LET p == Prefix \o MessageStruct(id, m)
    IN {Carrying(Cut(p, Len(p) - lost), <<id>>, lost <= Len(m.text) + 1,
                 lost = 0 /\ Sep \notin Range(m.text), TRUE) : lost \in 0..Digits - 1}

\* The message of a member is stored and sent to the reader.
Store ==
    /\ toServer # <<>>
    /\ LET chars == toServer[1].chars IN Session(chars) = <<Key>> /\ ThirdNumber(chars) = Room
    /\ LET m == [by |-> toServer[1].by, text |-> PacketMessage(toServer[1].chars)] IN
       /\ stored' = Append(stored, m)
       /\ \E p \in LivePackets(Len(stored'), m) : toClient' = Append(toClient, p)
    /\ toServer' = <<>>
    /\ UNCHANGED <<typed, server, pending, amount, view, refused>>

-----------------------------------------------------------------------------
(* The history: send_room_packet and get_room_message_packets *)

\* redis_room_messages_read leaves room for a terminator in a text of
\* MESSAGE_MAX_SIZE characters.
ReadBack(m) == [m EXCEPT !.text = Cut(@, MessageMax - 1)]

SendRoom ==
    /\ server = NotAsked
    /\ toClient' = Append(toClient, [type |-> "room", amount |-> Len(stored)])
    /\ server' = IF stored = <<>> THEN Done
                 ELSE [at |-> "packing", left |-> [i \in DOMAIN stored |-> ReadBack(stored[i])],
                       packet |-> Prefix, ids |-> <<>>, first |-> TRUE]
    /\ UNCHANGED <<typed, toServer, stored, pending, amount, view, refused>>

Packing == server.at = "packing"

Plain(ids) == \A k \in DOMAIN ids : Sep \notin Range(ReadBack(stored[ids[k]]).text)

Packed == Carrying(server.packet, server.ids, server.first,
                   server.first /\ Plain(server.ids), FALSE)

\* One turn of the loop.  A packet after the first starts with prefix and a
\* further semicolon.
Pack ==
    /\ Packing /\ server.left # <<>>
    /\ LET next == IF server.ids = <<>> THEN 1 ELSE Last(server.ids) + 1
           part == MessageStruct(next, Head(server.left))
       IN IF Len(server.packet) + Len(part) >= PacketMax
          THEN /\ toClient' = Append(toClient, Packed)
               /\ server' = [server EXCEPT !.left = Tail(@), !.ids = <<next>>, !.first = FALSE,
                                           !.packet = Cut(Prefix \o <<Sep>> \o part, PacketMax)]
          ELSE /\ server' = [server EXCEPT !.left = Tail(@), !.ids = Append(@, next),
                                           !.packet = @ \o part]
               /\ UNCHANGED toClient
    /\ UNCHANGED <<typed, toServer, stored, pending, amount, view, refused>>

Flush ==
    /\ Packing /\ server.left = <<>>
    /\ toClient' = Append(toClient, Packed)
    /\ server' = Done
    /\ UNCHANGED <<typed, toServer, stored, pending, amount, view, refused>>
-----------------------------------------------------------------------------
(* The reader's client: extract_room and extract_rmsg *)

\* The dialog that ends the log-in, after an answer or the time-out.
Dialog ==
    /\ pending /\ pending' = FALSE
    /\ UNCHANGED <<typed, toServer, stored, server, toClient, amount, view, refused>>

Incoming(type) ==
    /\ toClient # <<>> /\ Head(toClient).type = type
    /\ toClient' = Tail(toClient)

ReadRoom ==
    /\ Incoming("room")
    /\ amount' = Head(toClient).amount
    /\ UNCHANGED <<typed, toServer, stored, server, pending, view, refused>>

\* Fault: one field too few.
FourFields(p, k) == Skip(p, 4 * k)

\* next_msg_struct, k times.
NextStruct(p, k) == Skip(p, 5 * k)

\* A name of NAME_MAX_SIZE characters loses its last one to the terminator.
SentBy(name) == Cut(name, NameMax - 1)

\* extract_next_msg_struct
Readable(p) == Skip(p, 4) # Null /\ Atoi(Skip(p, 3)) > 0
Extract(p) ==
    [id |-> Atoi(p), by |-> SentBy(Field(Skip(p, 1))),
     text |-> Cut(Skip(p, 4), Least(Atoi(Skip(p, 3)), MessageMax))]

\* How many messages the first loop counts: it ends where nothing follows, or
\* fails where no further semicolon does.
Counts(p) == {k \in 1..Len(p) \div 5 : NextStruct(p, k) = <<>>}

Shown(packet, sound, p, k) ==
    [says |-> Extract(p), of |-> IF k \in DOMAIN packet.ids THEN packet.ids[k] ELSE 0,
     sound |-> sound, live |-> packet.live]

\* While the log-in is pending: as many as are counted and the room lacks.
ReadHistory ==
    /\ Incoming("rmsg") /\ pending /\ amount # Unknown
    /\ LET packet == Head(toClient)
           body   == Skip(packet.chars, 2)
           parts  == UNION {1..Least(n, amount - Len(view)) : n \in Counts(body)}
           Part(k) == NextStruct(body, k - 1)
       IN \/ /\ Counts(body) # {} /\ \A k \in parts : Readable(Part(k))
             /\ view' = view \o [k \in parts |-> Shown(packet, packet.countable, Part(k), k)]
             /\ UNCHANGED refused
          \/ /\ Counts(body) = {} \/ \E k \in parts : ~Readable(Part(k))
             /\ refused' = (refused \/ packet.countable)
             /\ UNCHANGED view
    /\ UNCHANGED <<typed, toServer, stored, server, pending, amount>>

\* Later: one message.
ReadMessage ==
    /\ Incoming("rmsg") /\ ~pending /\ amount # Unknown
    /\ LET packet == Head(toClient)
           body   == Skip(packet.chars, 2)
       IN \/ /\ Readable(body)
             /\ view' = Append(view, Shown(packet, packet.aligned, body, 1))
             /\ amount' = amount + 1
             /\ UNCHANGED refused
          \/ /\ ~Readable(body)
             /\ refused' = (refused \/ packet.aligned)
             /\ UNCHANGED <<view, amount>>
    /\ UNCHANGED <<typed, toServer, stored, server, pending>>

ReadEarly ==
    /\ Incoming("rmsg") /\ amount = Unknown
    /\ UNCHANGED <<typed, toServer, stored, server, pending, amount, view, refused>>

PacketsNext ==
    \/ \E u \in User, t \in Texts : Type(u, t)
    \/ Store \/ SendRoom \/ Pack \/ Flush
    \/ Dialog \/ ReadRoom \/ ReadHistory \/ ReadMessage \/ ReadEarly

PacketsSpec == PacketsInit /\ [][PacketsNext]_packetVars

-----------------------------------------------------------------------------
(* Properties *)

\* The semicolon after the text is the first to go.
TextLost == {0} \cup 1..Digits - 2

\* What a client shows of a message is what its author typed, cut to what the
\* server stores, with his name unless it has the greatest length, whatever
\* semicolons are in it, unless it came in a later packet of a history or in
\* one that has to be taken apart and has semicolons in its texts.  In a
\* history one character less fits, and a live message may lose as many
\* characters as the id of its room has digits beyond the second; if they are
\* more than it has, it cannot be read.
ShownAsTyped ==
    \A k \in DOMAIN view : view[k].sound =>
        LET says == view[k].says
            m    == typed[view[k].of]
        IN /\ says.id = view[k].of
           /\ Len(Names[m.by]) < NameMax => says.by = Names[m.by]
           /\ IF view[k].live
              THEN \E n \in TextLost : says.text = Cut(m.text, Least(MessageMax, Len(m.text)) - n)
              ELSE says.text = Cut(m.text, MessageMax - 1)

\* The client reads every such packet, however the messages are divided among
\* packets and whether the log-in is still pending when they come.
SoundPacketsAreRead == ~refused
=============================================================================
