------------------------------ MODULE Requests ------------------------------
(***************************************************************************)
(* The client's request table (client/handlers/response_handler.c).  A     *)
(* request is a ResponseData that the GTK main thread allocates and        *)
(* publishes in active_requests[type]; a thread of its own waits for an    *)
(* answer or for the time-out and then queues a dialog, which the main     *)
(* thread runs, clearing the table entry and freeing the data.  The reader *)
(* thread of the connection settles requests with the packets it receives. *)
(* A step is one critical section of active_requests_mutex or of the       *)
(* request's own mutex.  Each request has an identity of its own here: the *)
(* reuse of a freed block is not modelled.                                 *)
(***************************************************************************)
EXTENDS Integers, FiniteSets

CONSTANTS Type,      \* the response types in use
          Data,      \* the ResponseData blocks that will be allocated
          MaxPushes  \* bound: messages of friends that arrive

ASSUME TypeAssumption ==
    /\ Type \subseteq {"login", "register", "send", "friend", "logout"}
    /\ MaxPushes \in Nat

None == "none"
ASSUME NoneAssumption == None \notin Data

VARIABLES
    active,   \* active_requests: type -> data or None
    data,     \* the ResponseData blocks
    waiter,   \* the thread of each request: "none", "waiting", "queued", "done"
    ui,       \* what the main thread does: <<step, data>>
    reader,   \* what the reader thread does, and with which packet
    sent,     \* requests that the server may still answer
    wire,     \* answers on their way: [type, for, ok]; type "rmsg" is a message
    pushes,   \* messages of friends that were received
    settler,  \* history: the request that each request's answer was for
    outcome,  \* history: what the dialog of each request said
    alive     \* no thread has touched a freed block

vars == <<active, data, waiter, ui, reader, sent, wire, pushes, settler, outcome, alive>>

Block  == [state : {"unused", "live", "freed"}, type : Type \cup {None},
           received : BOOLEAN, timedOut : BOOLEAN, success : BOOLEAN]
Packet == [type : Type \cup {"rmsg"}, for : Data \cup {None}, ok : BOOLEAN]
Unused == [state |-> "unused", type |-> None, received |-> FALSE,
           timedOut |-> FALSE, success |-> FALSE]
Idle   == [at |-> "idle"]

Init ==
    /\ active  = [t \in Type |-> None]
    /\ data    = [d \in Data |-> Unused]
    /\ waiter  = [d \in Data |-> "none"]
    /\ ui      = <<"idle", None>>
    /\ reader  = Idle
    /\ sent    = {}
    /\ wire    = {}
    /\ pushes  = 0
    /\ settler = [d \in Data |-> None]
    /\ outcome = [d \in Data |-> None]
    /\ alive   = TRUE

-----------------------------------------------------------------------------
(* The main thread: the click handlers and start_request.                  *)

\* start_request returns FALSE when the type has a request.
Free(t) == active[t] = None

Allocated(t) == [Unused EXCEPT !.state = "live", !.type = t]

Start(t, d) ==
    /\ alive
    /\ ui = <<"idle", None>>
    /\ Free(t)
    /\ data[d].state = "unused"
    /\ active' = [active EXCEPT ![t] = d]
    /\ data'   = [data EXCEPT ![d] = Allocated(t)]
    /\ waiter' = [waiter EXCEPT ![d] = "waiting"]
    \* The handler goes on: a log-in or a registration that cannot be sent, and
    \* every log-out, are settled by the main thread itself.
    /\ \/ t # "logout" /\ sent' = sent \cup {d} /\ UNCHANGED ui
       \/ t \in {"login", "register", "logout"} /\ ui' = <<"signal", d>> /\ UNCHANGED sent
    /\ UNCHANGED <<reader, wire, pushes, settler, outcome, alive>>

Settled(block, ok) == [block EXCEPT !.received = TRUE, !.success = ok]

\* signal_response by the main thread: log_in or create_account failed (FALSE),
\* or on_logout_clicked (TRUE, without a word to the server).
SignalLocally(d) ==
    /\ alive
    /\ ui = <<"signal", d>>
    /\ ui' = <<"idle", None>>
    /\ data' = [data EXCEPT ![d] = Settled(@, @.type = "logout")]
    /\ settler' = [settler EXCEPT ![d] = d]
    /\ UNCHANGED <<active, waiter, reader, sent, wire, pushes, outcome, alive>>

-----------------------------------------------------------------------------
(* response_wait_thread *)

\* Faults: a time-out is noted even after an answer; it is not noted.
LateTimeOut(block) == [block EXCEPT !.timedOut = TRUE]
Unnoted(block)     == block

TimedOut(block) == IF block.received THEN block ELSE [block EXCEPT !.timedOut = TRUE]

\* g_cond_wait_until returns FALSE after RESPONSE_TTL + 1 seconds.
TimeOut(d) ==
    /\ alive
    /\ waiter[d] = "waiting"
    /\ data'   = [data EXCEPT ![d] = TimedOut(@)]
    /\ waiter' = [waiter EXCEPT ![d] = "queued"]
    /\ UNCHANGED <<active, ui, reader, sent, wire, pushes, settler, outcome, alive>>

\* The loop ends when the request was answered or cancelled.
Wake(d) ==
    /\ alive
    /\ waiter[d] = "waiting"
    /\ data[d].received \/ data[d].timedOut
    /\ waiter' = [waiter EXCEPT ![d] = "queued"]
    /\ UNCHANGED <<active, data, ui, reader, sent, wire, pushes, settler, outcome, alive>>

-----------------------------------------------------------------------------
(* show_response_dialog and cleanup_response_data, on the main thread.  The *)
(* dialog reads the flags without the mutex.                               *)

Verdict(block) == IF block.timedOut THEN "timeout"
                  ELSE IF block.received /\ block.success THEN "ok" ELSE "fail"

Dialog(d) ==
    /\ alive
    /\ waiter[d] = "queued"
    /\ ui = <<"idle", None>>
    /\ waiter'  = [waiter EXCEPT ![d] = "done"]
    /\ outcome' = [outcome EXCEPT ![d] = Verdict(data[d])]
    /\ ui' = <<"clear", d>>
    /\ UNCHANGED <<active, data, reader, sent, wire, pushes, settler, alive>>

\* Faults: the entry is left in the table; the block is never freed.
KeepEntry(d) == active
StayLive(block) == block

Cleared(d) == [t \in Type |-> IF active[t] = d THEN None ELSE active[t]]
Freed(block) == [block EXCEPT !.state = "freed"]

Clear(d) ==
    /\ alive
    /\ ui = <<"clear", d>>
    /\ active' = Cleared(d)
    /\ ui' = <<"free", d>>
    /\ UNCHANGED <<data, waiter, reader, sent, wire, pushes, settler, outcome, alive>>

FreeData(d) ==
    /\ alive
    /\ ui = <<"free", d>>
    /\ data' = [data EXCEPT ![d] = Freed(@)]
    /\ ui' = <<"idle", None>>
    /\ UNCHANGED <<active, waiter, reader, sent, wire, pushes, settler, outcome, alive>>

-----------------------------------------------------------------------------
(* The server and the reader thread (recognize_packet).                    *)

\* The server answers a request once, at any time, or never.  A message that
\* was stored is answered by its own delivery to its author.
Answer(d, ok) ==
    /\ alive
    /\ d \in sent
    /\ sent' = sent \ {d}
    /\ wire' = wire \cup {[type |-> IF data[d].type = "send" /\ ok THEN "rmsg"
                                    ELSE data[d].type, for |-> d, ok |-> ok]}
    /\ UNCHANGED <<active, data, waiter, ui, reader, pushes, settler, outcome, alive>>

\* A message is looked up as the end of a log-in first; every other answer
\* names its type.
Reading(p) == [at |-> IF p.type = "rmsg" THEN "login" ELSE "lookup", packet |-> p]

Receive(p) ==
    /\ alive
    /\ reader = Idle
    /\ p \in wire
    /\ wire' = wire \ {p}
    /\ reader' = Reading(p)
    /\ UNCHANGED <<active, data, waiter, ui, sent, pushes, settler, outcome, alive>>

\* A friend's message, readable or not (extract_rmsg).
ReceivePush(ok) ==
    /\ alive
    /\ reader = Idle
    /\ pushes < MaxPushes
    /\ pushes' = pushes + 1
    /\ reader' = Reading([type |-> "rmsg", for |-> None, ok |-> ok])
    /\ UNCHANGED <<active, data, waiter, ui, sent, wire, settler, outcome, alive>>

\* is_request_pending(RESPONSE_LOGIN), then RESPONSE_SEND_MESSAGE: a message
\* settles the first of them that is pending.
Ask(t) ==
    /\ alive
    /\ reader.at = t
    /\ reader' = IF t \in Type /\ active[t] # None
                 THEN [at |-> "lookup", packet |-> [reader.packet EXCEPT !.type = t]]
                 ELSE IF t = "login" THEN [reader EXCEPT !.at = "send"] ELSE Idle
    /\ UNCHANGED <<active, data, waiter, ui, sent, wire, pushes, settler, outcome, alive>>

\* signal_response: the pointer is taken under active_requests_mutex ...
Lookup ==
    /\ alive
    /\ reader.at = "lookup"
    /\ LET d == active[reader.packet.type] IN
       reader' = IF d = None THEN Idle
                 ELSE [at |-> "settle", packet |-> reader.packet, data |-> d]
    /\ UNCHANGED <<active, data, waiter, ui, sent, wire, pushes, settler, outcome, alive>>

\* ... and used after it was released: the block may have been freed.
Settle ==
    /\ alive
    /\ reader.at = "settle"
    /\ LET d == reader.data IN
       IF data[d].state = "live"
       THEN /\ data' = [data EXCEPT ![d] = Settled(@, reader.packet.ok)]
            /\ settler' = [settler EXCEPT ![d] = reader.packet.for]
            /\ alive' = alive
       ELSE alive' = FALSE /\ UNCHANGED <<data, settler>>
    /\ reader' = Idle
    /\ UNCHANGED <<active, waiter, ui, sent, wire, pushes, outcome>>

\* cancel_request, when the main server cannot be reached after a log-in was
\* accepted; it holds both mutexes.
Cancel ==
    /\ alive
    /\ reader.at = "lookup"
    /\ reader.packet.type = "login" /\ reader.packet.for # None /\ reader.packet.ok
    /\ data' = IF active["login"] = None THEN data
               ELSE [data EXCEPT ![active["login"]].timedOut = TRUE]
    /\ reader' = Idle
    /\ UNCHANGED <<active, waiter, ui, sent, wire, pushes, settler, outcome, alive>>

Wait(d)  == TimeOut(d) \/ Wake(d)
Main(d)  == SignalLocally(d) \/ Dialog(d) \/ Clear(d) \/ FreeData(d)

Next ==
    \/ \E t \in Type, d \in Data : Start(t, d)
    \/ \E d \in Data : Wait(d) \/ Main(d) \/ Answer(d, TRUE) \/ Answer(d, FALSE)
    \/ \E p \in wire : Receive(p)
    \/ \E ok \in BOOLEAN : ReceivePush(ok)
    \/ Ask("login") \/ Ask("send") \/ Lookup \/ Settle \/ Cancel

\* Time passes for every waiting thread and the main loop runs; nothing makes
\* the server answer or the user click.
Spec == Init /\ [][Next]_vars /\ \A d \in Data : WF_vars(Wait(d)) /\ WF_vars(Main(d))

-----------------------------------------------------------------------------
(* Properties *)

TypeOK ==
    /\ active \in [Type -> Data \cup {None}]
    /\ data \in [Data -> Block]
    /\ \A d \in Data : data[d].state = "unused" <=> data[d].type = None
    /\ waiter \in [Data -> {"none", "waiting", "queued", "done"}]
    /\ ui \in {"idle", "signal", "clear", "free"} \X (Data \cup {None})
    /\ \/ reader = Idle
       \/ reader \in [at : {"login", "send", "lookup"}, packet : Packet]
       \/ reader \in [at : {"settle"}, packet : Packet, data : Data]
    /\ sent \subseteq {d \in Data : data[d].state # "unused"}
    /\ wire \subseteq Packet
    /\ pushes \in 0..MaxPushes
    /\ settler \in [Data -> Data \cup {None}]
    /\ outcome \in [Data -> {None, "timeout", "ok", "fail"}]
    /\ alive \in BOOLEAN

\* The table never holds a pointer to a freed block or to a request of another
\* type: cleanup_response_data clears the entry before it frees.
TableIsLive ==
    \A t \in Type : active[t] # None =>
        data[active[t]].state = "live" /\ data[active[t]].type = t

\* One request per type: while a block of a type lives, even between the
\* clearing of its entry and g_free, no second one of that type is allocated.
OnePerType ==
    \A d, e \in Data :
        /\ data[d].state = "live" /\ data[e].state = "live"
        /\ data[d].type = data[e].type
        => d = e

\* A request that was answered before its time was up is not reported as
\* timed out, unless it was cancelled.
AnswerBeatsTimeOut ==
    [][\A d \in Data :
          /\ data[d].received /\ ~data[d].timedOut /\ data'[d].timedOut
          => reader.at = "lookup"]_vars

\* Every request ends: its block is freed and the type can be requested
\* again, whatever the server does, unless a freed block was touched.
RequestsEnd ==
    \A d \in Data : data[d].state = "live" ~> (data[d].state = "freed" \/ ~alive)

\* No dialog, or "Failed to send message" (response_handler.c:245): without
\* messages of friends, a message is taken as sent only on its own answer, until
\* a message's request has timed out: that one's late answer settles the next
\* message, whose own answer may then settle the one after it.
SendTimedOut == \E d \in Data : data[d].type = "send" /\ data[d].timedOut

SilenceMeansSentAlone ==
    pushes = 0 /\ ~SendTimedOut => \A d \in Data :
        data[d].type = "send" /\ outcome[d] = "ok" => settler[d] = d
=============================================================================
