---------------------------- MODULE ClientProofs ----------------------------
(***************************************************************************)
(* Theorems about two parts of the client that no step couples: its table  *)
(* of requests (Requests), for any types in use and any number of blocks,  *)
(* and its chat window (ChatWindow), for any number of rooms, packets and  *)
(* clicks.  The first part proves that the table never dangles, that a     *)
(* type has one request, and whose answer a message is settled by; the     *)
(* second that the lists and the open chat show what user_data holds.      *)
(***************************************************************************)
EXTENDS Requests, ChatWindow, TLAPS

-----------------------------------------------------------------------------
(* I.  The table of requests.                                              *)

\* A packet that is looked up in the table carries a type in use.
LookupNamesType == reader.at = "lookup" => reader.packet.type \in Type

\* A live block is in the table, except between the clearing of its entry and
\* g_free: this is why start_request may take an empty entry for "no request".
LiveIsEntered ==
    \A d \in Data : data[d].state = "live" =>
        active[data[d].type] = d \/ ui = <<"free", d>>

\* The block about to be freed is in no entry.
FreeingIsCleared == \A d \in Data, t \in Type : ui = <<"free", d>> => active[t] # d

Entered == TableIsLive /\ OnePerType /\ LiveIsEntered /\ FreeingIsCleared

\* A thread waits for, and the main thread cleans up, allocated blocks only.
WorkIsAllocated ==
    \A d \in Data :
        waiter[d] # "none" \/ ui \in {<<"clear", d>>, <<"free", d>>} =>
            data[d].state # "unused"

Typed == TypeOK /\ LookupNamesType /\ WorkIsAllocated

IInv == Typed /\ Entered

-----------------------------------------------------------------------------
(* What the updates of one block do.                                       *)

\* No answer and no time-out changes what a block is allocated for.
Kept(b, c) == b.state = c.state /\ b.type = c.type

\* signal_response leaves a block's state and type alone.
LEMMA SettledBlock ==
    ASSUME NEW b \in Block, NEW ok \in BOOLEAN
    PROVE  Settled(b, ok) \in Block /\ Kept(Settled(b, ok), b)
  BY DEF Settled, Block, Kept

\* So does response_wait_thread when the time is over.
LEMMA TimedOutBlock ==
    ASSUME NEW b \in Block
    PROVE  /\ TimedOut(b) \in Block /\ Kept(TimedOut(b), b)
           /\ [b EXCEPT !.timedOut = TRUE] \in Block
           /\ Kept([b EXCEPT !.timedOut = TRUE], b)
  BY DEF TimedOut, Block, Kept

\* The block that start_request allocates is live and has its type.
LEMMA AllocatedBlock ==
    ASSUME NEW t \in Type
    PROVE  /\ Allocated(t) \in Block
           /\ Allocated(t).state = "live" /\ Allocated(t).type = t
  BY DEF Allocated, Unused, Block

\* A freed block keeps its type.
LEMMA FreedBlock ==
    ASSUME NEW b \in Block
    PROVE  Freed(b) \in Block /\ Freed(b).state = "freed" /\ Freed(b).type = b.type
  BY DEF Freed, Block

\* "none" is no type of a request.
LEMMA NoneIsNoType == None \notin Type
  BY TypeAssumption DEF None

-----------------------------------------------------------------------------
(* The table.                                                              *)

\* A step that leaves the table and what the blocks are for alone, and does not
\* come to or from g_free, keeps the table entered.
LEMMA KeptStep ==
    ASSUME TypeOK, Entered, active' = active,
           \A d \in Data : Kept(data'[d], data[d]),
           \A d \in Data : (ui' = <<"free", d>>) <=> (ui = <<"free", d>>)
    PROVE  Entered'
<1>1. \A t \in Type : active[t] # None => active[t] \in Data
  BY DEF TypeOK
<1>2. TableIsLive'
  BY <1>1 DEF Entered, TableIsLive, Kept
<1>3. LiveIsEntered'
  BY DEF Entered, LiveIsEntered, Kept
<1>4. FreeingIsCleared'
  BY DEF Entered, FreeingIsCleared
<1>5. OnePerType'
  BY DEF Entered, OnePerType, Kept
<1> QED
  BY <1>2, <1>3, <1>4, <1>5 DEF Entered

\* start_request: an empty entry means that no block of the type lives.
LEMMA StartStep ==
    ASSUME TypeOK, Entered, NEW t \in Type, NEW d \in Data, Start(t, d)
    PROVE  Entered'
<1>1. /\ ui = <<"idle", None>> /\ active[t] = None /\ data[d].state = "unused"
      /\ active' = [active EXCEPT ![t] = d]
      /\ data' = [data EXCEPT ![d] = Allocated(t)]
      /\ ui' = ui \/ ui' = <<"signal", d>>
  BY DEF Start, Free
<1>2. \A e \in Data : ui # <<"free", e>> /\ ui' # <<"free", e>>
  BY <1>1
<1>3. /\ data'[d] = Allocated(t) /\ active'[t] = d
      /\ \A e \in Data \ {d} : data'[e] = data[e]
      /\ \A s \in Type \ {t} : active'[s] = active[s]
  BY <1>1 DEF TypeOK
<1>4. \A s \in Type : active[s] # d
  BY <1>1, NoneAssumption DEF Entered, TableIsLive
<1>5. TableIsLive'
  <2> SUFFICES ASSUME NEW s \in Type, active'[s] # None
               PROVE  data'[active'[s]].state = "live" /\ data'[active'[s]].type = s
    BY DEF TableIsLive
  <2>1. CASE s = t
    BY <2>1, <1>3, AllocatedBlock
  <2>2. CASE s # t
    <3>1. active'[s] = active[s] /\ active[s] \in Data \ {d}
      BY <2>2, <1>3, <1>4 DEF TypeOK
    <3> QED
      BY <3>1, <1>3 DEF Entered, TableIsLive
  <2> QED
    BY <2>1, <2>2
<1>6. LiveIsEntered'
  <2> SUFFICES ASSUME NEW e \in Data, data'[e].state = "live"
               PROVE  active'[data'[e].type] = e
    BY DEF LiveIsEntered
  <2>1. CASE e = d
    BY <2>1, <1>3, AllocatedBlock
  <2>2. CASE e # d
    <3>1. data'[e] = data[e] /\ active[data[e].type] = e
      BY <2>2, <1>2, <1>3 DEF Entered, LiveIsEntered
    <3>2. data[e].type \in Type
      BY <2>2, <3>1, NoneIsNoType DEF TypeOK, Block
    <3>3. data[e].type # t
      BY <3>1, <1>1, NoneAssumption
    <3> QED
      BY <3>1, <3>2, <3>3, <1>3
  <2> QED
    BY <2>1, <2>2
<1>7. FreeingIsCleared'
  BY <1>2 DEF FreeingIsCleared
<1>8. OnePerType'
  <2>1. \A e \in Data \ {d} : data[e].state = "live" => data[e].type # t
    BY <1>1, <1>2, NoneAssumption DEF Entered, LiveIsEntered
  <2> QED
    BY <2>1, <1>3, AllocatedBlock DEF Entered, OnePerType
<1> QED
  BY <1>5, <1>6, <1>7, <1>8 DEF Entered

\* The first half of cleanup_response_data: the entry is cleared.
LEMMA ClearStep ==
    ASSUME TypeOK, Entered, NEW d \in Data, Clear(d)
    PROVE  Entered'
<1>1. /\ ui = <<"clear", d>> /\ ui' = <<"free", d>> /\ data' = data
      /\ active' = [t \in Type |-> IF active[t] = d THEN None ELSE active[t]]
  BY DEF Clear, Cleared
<1>2. TableIsLive'
  BY <1>1 DEF Entered, TableIsLive
<1>3. FreeingIsCleared'
  BY <1>1, NoneAssumption DEF FreeingIsCleared
<1>4. LiveIsEntered'
  <2> SUFFICES ASSUME NEW e \in Data, data'[e].state = "live", e # d
               PROVE  active'[data'[e].type] = e
    BY <1>1 DEF LiveIsEntered
  <2>1. active[data[e].type] = e
    BY <1>1 DEF Entered, LiveIsEntered
  <2>2. data[e].type \in Type
    BY <1>1, NoneIsNoType DEF TypeOK, Block
  <2> QED
    BY <1>1, <2>1, <2>2
<1>5. OnePerType'
  BY <1>1 DEF Entered, OnePerType
<1> QED
  BY <1>2, <1>3, <1>4, <1>5 DEF Entered

\* The second half: no entry holds the block that is freed.
LEMMA FreeStep ==
    ASSUME TypeOK, Entered, NEW d \in Data, FreeData(d)
    PROVE  Entered'
<1>1. /\ ui = <<"free", d>> /\ ui' = <<"idle", None>> /\ active' = active
      /\ data' = [data EXCEPT ![d] = Freed(data[d])]
  BY DEF FreeData
<1>2. data'[d].state = "freed" /\ \A e \in Data \ {d} : data'[e] = data[e]
  BY <1>1, FreedBlock DEF TypeOK
<1>3. TableIsLive'
  <2> SUFFICES ASSUME NEW t \in Type, active[t] # None
               PROVE  data'[active[t]].state = "live" /\ data'[active[t]].type = t
    BY <1>1 DEF TableIsLive
  <2>1. active[t] \in Data \ {d}
    BY <1>1 DEF TypeOK, Entered, FreeingIsCleared
  <2> QED
    BY <2>1, <1>2 DEF Entered, TableIsLive
<1>4. LiveIsEntered'
  BY <1>1, <1>2 DEF Entered, LiveIsEntered
<1>5. FreeingIsCleared'
  BY <1>1 DEF FreeingIsCleared
<1>6. OnePerType'
  BY <1>2 DEF Entered, OnePerType
<1> QED
  BY <1>3, <1>4, <1>5, <1>6 DEF Entered

-----------------------------------------------------------------------------
(* Types.                                                                  *)

\* What the reader holds at each of its steps.
LEMMA ReaderTypes ==
    ASSUME TypeOK
    PROVE  /\ reader.at \in {"login", "send", "lookup"} =>
                /\ reader \in [at : {"login", "send", "lookup"}, packet : Packet]
                /\ reader.packet \in Packet
           /\ reader.at = "settle" =>
                /\ reader.packet \in Packet
                /\ reader.data \in Data
  BY DEF TypeOK, Idle

\* start_request and what the click handler does next.
LEMMA StartTypes ==
    ASSUME Typed, NEW t \in Type, NEW d \in Data, Start(t, d)
    PROVE  Typed'
<1>1. data' \in [Data -> Block] /\ data'[d] = Allocated(t)
  BY AllocatedBlock DEF Typed, TypeOK, Start
<1>2. \A e \in Data \ {d} : data'[e] = data[e]
  BY DEF Typed, TypeOK, Start
<1>3. \A e \in Data : data'[e].state = "unused" <=> data'[e].type = None
  BY <1>1, <1>2, AllocatedBlock, NoneIsNoType DEF Typed, TypeOK
<1>4. sent' \subseteq {e \in Data : data'[e].state # "unused"}
  BY <1>1, <1>2, AllocatedBlock DEF Typed, TypeOK, Start
<1>5. /\ active' \in [Type -> Data \cup {None}]
      /\ waiter' \in [Data -> {"none", "waiting", "queued", "done"}]
      /\ ui' \in {"idle", "signal", "clear", "free"} \X (Data \cup {None})
  BY DEF Typed, TypeOK, Start
<1>6. TypeOK' /\ LookupNamesType'
  BY <1>1, <1>3, <1>4, <1>5 DEF Typed, TypeOK, LookupNamesType, Start
<1>7. WorkIsAllocated'
  <2> SUFFICES ASSUME NEW e \in Data, waiter'[e] # "none" \/ ui' \in {<<"clear", e>>, <<"free", e>>}
               PROVE  data'[e].state # "unused"
    BY DEF WorkIsAllocated
  <2>1. CASE e = d
    BY <2>1, <1>1, AllocatedBlock
  <2>2. CASE e # d
    <3>1. waiter'[e] = waiter[e] /\ ui' \notin {<<"clear", e>>, <<"free", e>>}
      BY <2>2 DEF Typed, TypeOK, Start
    <3> QED
      BY <2>2, <3>1, <1>2 DEF Typed, WorkIsAllocated
  <2> QED
    BY <2>1, <2>2
<1> QED
  BY <1>6, <1>7 DEF Typed

\* A step that replaces one block by one with the same state and type keeps
\* what TypeOK says of the blocks and of the requests that were sent.
LEMMA KeptBlock ==
    ASSUME TypeOK, NEW d \in Data, NEW b \in Block, Kept(b, data[d]),
           data' = [data EXCEPT ![d] = b]
    PROVE  /\ data' \in [Data -> Block]
           /\ \A e \in Data : Kept(data'[e], data[e])
           /\ \A e \in Data : data'[e].state = "unused" <=> data'[e].type = None
           /\ sent \subseteq {e \in Data : data'[e].state # "unused"}
<1>1. data' \in [Data -> Block] /\ data'[d] = b
      /\ \A e \in Data \ {d} : data'[e] = data[e]
  BY DEF TypeOK
<1>2. \A e \in Data : Kept(data'[e], data[e])
  BY <1>1 DEF Kept
<1> QED
  BY <1>1, <1>2 DEF TypeOK, Kept

\* The waiting thread.
LEMMA WaitTypes ==
    ASSUME Typed, NEW d \in Data, Wait(d)
    PROVE  Typed' /\ \A e \in Data : Kept(data'[e], data[e])
<1>1. CASE TimeOut(d)
  <2>1. data' = [data EXCEPT ![d] = TimedOut(data[d])]
    BY <1>1 DEF TimeOut
  <2>2. TimedOut(data[d]) \in Block /\ Kept(TimedOut(data[d]), data[d])
    BY TimedOutBlock DEF Typed, TypeOK
  <2>3. /\ data' \in [Data -> Block]
        /\ \A e \in Data : Kept(data'[e], data[e])
        /\ \A e \in Data : data'[e].state = "unused" <=> data'[e].type = None
        /\ sent \subseteq {e \in Data : data'[e].state # "unused"}
    BY <2>1, <2>2, KeptBlock DEF Typed
  <2>4. TypeOK' /\ LookupNamesType'
    BY <1>1, <2>3 DEF Typed, TypeOK, LookupNamesType, TimeOut
  <2>5. WorkIsAllocated'
    BY <1>1, <2>3 DEF Typed, TypeOK, WorkIsAllocated, TimeOut, Kept
  <2> QED
    BY <2>3, <2>4, <2>5 DEF Typed
<1>2. CASE Wake(d)
  BY <1>2 DEF Typed, TypeOK, LookupNamesType, WorkIsAllocated, Wake, Kept
<1> QED
  BY <1>1, <1>2 DEF Wait

\* signal_response by the main thread.
LEMMA SignalTypes ==
    ASSUME Typed, NEW d \in Data, SignalLocally(d)
    PROVE  Typed' /\ \A e \in Data : Kept(data'[e], data[e])
<1> DEFINE b == Settled(data[d], data[d].type = "logout")
<1>1. data' = [data EXCEPT ![d] = b]
  BY DEF SignalLocally
<1>2. b \in Block /\ Kept(b, data[d])
  <2>1. data[d] \in Block /\ (data[d].type = "logout") \in BOOLEAN
    BY DEF Typed, TypeOK
  <2> QED
    BY <2>1, SettledBlock
<1>3. /\ data' \in [Data -> Block]
      /\ \A e \in Data : Kept(data'[e], data[e])
      /\ \A e \in Data : data'[e].state = "unused" <=> data'[e].type = None
      /\ sent \subseteq {e \in Data : data'[e].state # "unused"}
  BY <1>1, <1>2, KeptBlock DEF Typed
<1>4. TypeOK' /\ LookupNamesType'
  BY <1>3 DEF Typed, TypeOK, LookupNamesType, SignalLocally
<1>5. WorkIsAllocated'
  BY <1>3 DEF Typed, WorkIsAllocated, SignalLocally, Kept
<1> QED
  BY <1>3, <1>4, <1>5 DEF Typed

\* The dialog and the two halves of cleanup_response_data.
LEMMA DialogTypes ==
    ASSUME Typed, NEW d \in Data, Dialog(d) \/ Clear(d) \/ FreeData(d)
    PROVE  Typed'
<1>1. CASE Dialog(d)
  <2>1. Verdict(data[d]) \in {"timeout", "ok", "fail"}
    BY DEF Verdict
  <2> QED
    BY <1>1, <2>1 DEF Typed, TypeOK, LookupNamesType, WorkIsAllocated, Dialog
<1>2. CASE Clear(d)
  <2>1. Cleared(d) \in [Type -> Data \cup {None}]
    BY DEF Typed, TypeOK, Cleared
  <2> QED
    BY <1>2, <2>1 DEF Typed, TypeOK, LookupNamesType, WorkIsAllocated, Clear
<1>3. CASE FreeData(d)
  <2>1. /\ data' = [data EXCEPT ![d] = Freed(data[d])]
        /\ UNCHANGED <<active, waiter, reader, sent, wire, pushes, settler, outcome, alive>>
        /\ ui' = <<"idle", None>>
    BY <1>3 DEF FreeData
  <2>2. /\ data' \in [Data -> Block] /\ data'[d] = Freed(data[d])
        /\ \A e \in Data \ {d} : data'[e] = data[e]
    BY <2>1, FreedBlock DEF Typed, TypeOK
  <2>3. data[d].state # "unused" /\ data[d].type # None
    BY <1>3 DEF FreeData, Typed, TypeOK, WorkIsAllocated
  <2> QED
    BY <2>1, <2>2, <2>3, FreedBlock DEF Typed, TypeOK, LookupNamesType, WorkIsAllocated
<1> QED
  BY <1>1, <1>2, <1>3

\* A step that touches neither the blocks nor their users, that is Answer,
\* Receive, ReceivePush, Ask and Lookup: the reader's types.
LEMMA ReaderMoves ==
    ASSUME Typed,
           \/ \E d \in Data, ok \in BOOLEAN : Answer(d, ok)
           \/ \E p \in wire : Receive(p)
           \/ \E ok \in BOOLEAN : ReceivePush(ok)
           \/ Ask("login") \/ Ask("send") \/ Lookup
    PROVE  Typed' /\ UNCHANGED <<active, data, ui>>
<1>1. ASSUME NEW d \in Data, NEW ok \in BOOLEAN, Answer(d, ok)
      PROVE  Typed' /\ UNCHANGED <<active, data, ui>>
  <2>1. data[d].type \in Type
    BY <1>1, NoneIsNoType DEF Answer, Typed, TypeOK, Block
  <2>2. [type |-> IF data[d].type = "send" /\ ok THEN "rmsg" ELSE data[d].type,
         for |-> d, ok |-> ok] \in Packet
    BY <2>1 DEF Packet
  <2> QED
    BY <1>1, <2>2 DEF Answer, Typed, TypeOK, LookupNamesType, WorkIsAllocated
<1>2. ASSUME NEW p \in Packet
      PROVE  /\ Reading(p) \in [at : {"login", "send", "lookup"}, packet : Packet]
             /\ Reading(p).at = "lookup" => Reading(p).packet.type \in Type
  BY DEF Reading, Packet
<1>3. ASSUME NEW p \in wire, Receive(p)
      PROVE  Typed' /\ UNCHANGED <<active, data, ui>>
  <2>1. p \in Packet
    BY DEF Typed, TypeOK
  <2> QED
    BY <1>2, <1>3, <2>1 DEF Receive, Typed, TypeOK, LookupNamesType, WorkIsAllocated
<1>4. ASSUME NEW ok \in BOOLEAN, ReceivePush(ok)
      PROVE  Typed' /\ UNCHANGED <<active, data, ui>>
  <2>1. [type |-> "rmsg", for |-> None, ok |-> ok] \in Packet
    BY DEF Packet
  <2>2. pushes' \in 0..MaxPushes
    BY <1>4, TypeAssumption DEF ReceivePush, Typed, TypeOK
  <2> QED
    BY <1>2, <1>4, <2>1, <2>2 DEF ReceivePush, Typed, TypeOK, LookupNamesType, WorkIsAllocated
<1>5. ASSUME NEW t \in {"login", "send"}, Ask(t)
      PROVE  Typed' /\ UNCHANGED <<active, data, ui>>
  <2>1. /\ reader \in [at : {"login", "send", "lookup"}, packet : Packet]
        /\ reader.packet \in Packet
    BY <1>5, ReaderTypes DEF Ask, Typed
  <2>2. t \in Type => [reader.packet EXCEPT !.type = t] \in Packet
    BY <2>1 DEF Packet
  <2>3. \/ reader' \in [at : {"login", "send", "lookup"}, packet : Packet]
        \/ reader' = Idle
    BY <1>5, <2>1, <2>2 DEF Ask
  <2>4. reader'.at = "lookup" => reader'.packet.type \in Type
    BY <1>5, <2>1, <2>2 DEF Ask, Idle, Packet
  <2> QED
    BY <1>5, <2>3, <2>4 DEF Ask, Typed, TypeOK, LookupNamesType, WorkIsAllocated
<1>6. ASSUME Lookup
      PROVE  Typed' /\ UNCHANGED <<active, data, ui>>
  <2>1. reader.packet \in Packet /\ reader.packet.type \in Type
    BY <1>6, ReaderTypes DEF Lookup, Typed, LookupNamesType
  <2>2. active[reader.packet.type] \in Data \cup {None}
    BY <2>1 DEF Typed, TypeOK
  <2>3. \/ reader' \in [at : {"settle"}, packet : Packet, data : Data]
        \/ reader' = Idle
    BY <1>6, <2>1, <2>2 DEF Lookup
  <2>4. reader'.at # "lookup"
    BY <2>3 DEF Idle
  <2> QED
    BY <1>6, <2>3, <2>4 DEF Lookup, Typed, TypeOK, LookupNamesType, WorkIsAllocated
<1> QED
  BY <1>1, <1>3, <1>4, <1>5, <1>6

\* signal_response and cancel_request by the reader.
LEMMA SettleStep ==
    ASSUME Typed, Settle \/ Cancel
    PROVE  /\ Typed' /\ UNCHANGED <<active, ui>>
           /\ \A e \in Data : Kept(data'[e], data[e])
<1>1. ASSUME NEW d \in Data, NEW b \in Block, Kept(b, data[d]),
             data' = [data EXCEPT ![d] = b],
             UNCHANGED <<active, waiter, ui, sent, wire, pushes, outcome>>,
             reader' = Idle, alive' \in BOOLEAN,
             settler' \in [Data -> Data \cup {None}]
      PROVE  Typed' /\ \A e \in Data : Kept(data'[e], data[e])
  <2>1. /\ data' \in [Data -> Block]
        /\ \A e \in Data : Kept(data'[e], data[e])
        /\ \A e \in Data : data'[e].state = "unused" <=> data'[e].type = None
        /\ sent \subseteq {e \in Data : data'[e].state # "unused"}
    BY <1>1, KeptBlock DEF Typed
  <2>2. TypeOK' /\ LookupNamesType'
    BY <1>1, <2>1 DEF Typed, TypeOK, LookupNamesType, Idle
  <2>3. WorkIsAllocated'
    BY <1>1, <2>1 DEF Typed, WorkIsAllocated, Kept
  <2> QED
    BY <2>1, <2>2, <2>3 DEF Typed
<1>2. ASSUME data' = data, reader' = Idle, alive' \in BOOLEAN,
             UNCHANGED <<active, waiter, ui, sent, wire, pushes, settler, outcome>>
      PROVE  Typed' /\ \A e \in Data : Kept(data'[e], data[e])
  BY <1>2 DEF Typed, TypeOK, LookupNamesType, WorkIsAllocated, Idle, Kept
<1>3. CASE Settle
  <2> DEFINE d == reader.data
             b == Settled(data[d], reader.packet.ok)
  <2>1. d \in Data /\ reader.packet \in Packet
    BY <1>3, ReaderTypes DEF Settle, Typed
  <2>2. b \in Block /\ Kept(b, data[d])
    BY <2>1, SettledBlock DEF Typed, TypeOK, Packet
  <2>3. [settler EXCEPT ![d] = reader.packet.for] \in [Data -> Data \cup {None}]
    BY <2>1 DEF Typed, TypeOK, Packet
  <2>4. CASE data[d].state = "live"
    <3>1. /\ data' = [data EXCEPT ![d] = b]
          /\ settler' = [settler EXCEPT ![d] = reader.packet.for]
          /\ alive' = alive /\ reader' = Idle
          /\ UNCHANGED <<active, waiter, ui, sent, wire, pushes, outcome>>
      BY <1>3, <2>4 DEF Settle
    <3>2. alive' \in BOOLEAN
      BY <3>1 DEF Typed, TypeOK
    <3> HIDE DEF d, b
    <3> QED
      BY <1>1, <2>1, <2>2, <2>3, <3>1, <3>2
  <2>5. CASE data[d].state # "live"
    BY <1>2, <1>3, <2>5 DEF Settle
  <2> QED
    BY <1>3, <2>4, <2>5 DEF Settle
<1>4. CASE Cancel
  <2>1. reader.packet \in Packet /\ "login" \in Type
    BY <1>4, ReaderTypes DEF Cancel, Typed, LookupNamesType
  <2>2. CASE active["login"] = None
    BY <1>2, <1>4, <2>2 DEF Cancel, Typed, TypeOK
  <2>3. CASE active["login"] # None
    <3> DEFINE d == active["login"]
               b == [data[d] EXCEPT !.timedOut = TRUE]
    <3>1. d \in Data
      BY <2>1, <2>3 DEF Typed, TypeOK
    <3>2. b \in Block /\ Kept(b, data[d])
      BY <3>1, TimedOutBlock DEF Typed, TypeOK
    <3>3. /\ data' = [data EXCEPT ![d] = b]
          /\ settler' = settler /\ alive' = alive /\ reader' = Idle
          /\ UNCHANGED <<active, waiter, ui, sent, wire, pushes, outcome>>
      BY <1>4, <2>3 DEF Cancel
    <3>4. alive' \in BOOLEAN /\ settler' \in [Data -> Data \cup {None}]
      BY <3>3 DEF Typed, TypeOK
    <3> HIDE DEF d, b
    <3>5. Typed' /\ \A e \in Data : Kept(data'[e], data[e])
      BY <1>1, <3>1, <3>2, <3>3, <3>4
    <3> QED
      BY <1>4, <3>5 DEF Cancel
  <2> QED
    BY <1>4, <2>2, <2>3 DEF Cancel
<1> QED
  BY <1>3, <1>4

-----------------------------------------------------------------------------
(* The theorems.                                                           *)

\* Nothing has been requested at the start.
LEMMA InitInvariant == Init => IInv
<1> SUFFICES ASSUME Init PROVE IInv
  OBVIOUS
<1>1. Unused \in Block /\ Unused.type = None /\ Unused.state = "unused"
  BY DEF Unused, Block
<1>2. TypeOK
  BY <1>1, TypeAssumption DEF Init, TypeOK
<1>3. LookupNamesType /\ WorkIsAllocated
  BY DEF Init, LookupNamesType, WorkIsAllocated, Idle
<1>4. Entered
  BY <1>1 DEF Init, Entered, TableIsLive, OnePerType, LiveIsEntered, FreeingIsCleared
<1> QED
  BY <1>2, <1>3, <1>4 DEF IInv, Typed

\* Every action keeps the invariant.
LEMMA NextInvariant == IInv /\ [Next]_vars => IInv'
<1> SUFFICES ASSUME IInv, [Next]_vars PROVE IInv'
  OBVIOUS
<1> USE DEF IInv
<1>1. ASSUME NEW t \in Type, NEW d \in Data, Start(t, d) PROVE IInv'
  BY <1>1, StartTypes, StartStep DEF Typed
<1>2. ASSUME NEW d \in Data, Wait(d) PROVE IInv'
  <2>1. Typed' /\ \A e \in Data : Kept(data'[e], data[e])
    BY <1>2, WaitTypes
  <2>2. UNCHANGED <<active, ui>>
    BY <1>2 DEF Wait, TimeOut, Wake
  <2> QED
    BY <2>1, <2>2, KeptStep DEF Typed
<1>3. ASSUME NEW d \in Data, SignalLocally(d) PROVE IInv'
  <2>1. Typed' /\ \A e \in Data : Kept(data'[e], data[e])
    BY <1>3, SignalTypes
  <2>2. active' = active /\ ui = <<"signal", d>> /\ ui' = <<"idle", None>>
    BY <1>3 DEF SignalLocally
  <2> QED
    BY <2>1, <2>2, KeptStep DEF Typed
<1>4. ASSUME NEW d \in Data, Dialog(d) PROVE IInv'
  <2>1. Typed'
    BY <1>4, DialogTypes
  <2>2. /\ active' = active /\ data' = data
        /\ ui = <<"idle", None>> /\ ui' = <<"clear", d>>
    BY <1>4 DEF Dialog
  <2>3. \A e \in Data : Kept(data'[e], data[e])
    BY <2>2 DEF Kept
  <2> QED
    BY <2>1, <2>2, <2>3, KeptStep DEF Typed
<1>5. ASSUME NEW d \in Data, Clear(d) PROVE IInv'
  BY <1>5, DialogTypes, ClearStep DEF Typed
<1>6. ASSUME NEW d \in Data, FreeData(d) PROVE IInv'
  BY <1>6, DialogTypes, FreeStep DEF Typed
<1>7. ASSUME \/ \E d \in Data, ok \in BOOLEAN : Answer(d, ok)
             \/ \E p \in wire : Receive(p)
             \/ \E ok \in BOOLEAN : ReceivePush(ok)
             \/ Ask("login") \/ Ask("send") \/ Lookup
      PROVE  IInv'
  <2>1. Typed' /\ UNCHANGED <<active, data, ui>>
    BY <1>7, ReaderMoves
  <2>2. \A e \in Data : Kept(data'[e], data[e])
    BY <2>1 DEF Kept
  <2> QED
    BY <2>1, <2>2, KeptStep DEF Typed
<1>8. ASSUME Settle \/ Cancel PROVE IInv'
  BY <1>8, SettleStep, KeptStep DEF Typed
<1>9. ASSUME UNCHANGED vars PROVE IInv'
  BY <1>9 DEF vars, Typed, TypeOK, LookupNamesType, WorkIsAllocated, Entered,
              TableIsLive, OnePerType, LiveIsEntered, FreeingIsCleared
<1> QED
  BY <1>1, <1>2, <1>3, <1>4, <1>5, <1>6, <1>7, <1>8, <1>9 DEF Next, Main

\* The invariant holds, for any types in use and any blocks.
THEOREM Invariance == Spec => []IInv
  BY InitInvariant, NextInvariant, PTL DEF Spec

\* Type correctness of the request table and of its threads.
THEOREM TypeCorrect == Spec => []TypeOK
<1>1. IInv => TypeOK
  BY DEF IInv, Typed
<1> QED
  BY <1>1, Invariance, PTL

\* active_requests never holds a freed block or one of another type.
THEOREM TableStaysLive == Spec => []TableIsLive
<1>1. IInv => TableIsLive
  BY DEF IInv, Entered
<1> QED
  BY <1>1, Invariance, PTL

\* start_request never allocates a second request of a type while the first
\* one lives, not even between the clearing of its entry and g_free.
THEOREM OneRequestPerType == Spec => []OnePerType
<1>1. IInv => OnePerType
  BY DEF IInv, Entered
<1> QED
  BY <1>1, Invariance, PTL
-----------------------------------------------------------------------------
(* Whose answer settles a message.                                         *)

\* The thread of a request waits until the request was answered or timed out,
\* and its dialog and the freeing of its block come after that.
WaitsForItsEnd ==
    \A d \in Data :
        /\ data[d].state = "unused" => ~data[d].received
        /\ data[d].state # "unused" /\ waiter[d] # "waiting" =>
               data[d].received \/ data[d].timedOut
        /\ waiter[d] \in {"waiting", "queued"} => data[d].state = "live"
        /\ ui = <<"signal", d>> => data[d].state = "live" /\ data[d].type # "send"
        /\ ui \in {<<"clear", d>>, <<"free", d>>} => waiter[d] = "done"
        /\ outcome[d] = "ok" => data[d].received

\* An answer to a request is under way once, and only to one that was sent; a
\* message is looked for in the table under another type than its own.
InReader == IF reader = Idle THEN {} ELSE {reader.packet}

AnsweredOnce ==
    /\ \A p \in wire \cup InReader : p.for \in Data =>
           data[p.for].state # "unused" /\ p.for \notin sent
    /\ \A p, q \in wire : p.for = q.for => p = q
    /\ \A p \in wire, q \in InReader : p.for # q.for
    /\ None \notin {p.for : p \in wire}
    /\ reader.at \in {"login", "send"} => reader.packet.type = "rmsg"

\* A packet that may settle a message answers a message that is not settled.
AnswersMessage(p) ==
    /\ p.for \in Data
    /\ p.type \in {"send", "rmsg"} => data[p.for].type = "send"
    /\ data[p.for].type = "send" => ~data[p.for].received

\* As long as no message's request times out and no friend writes, every message
\* is settled by its own answer.
NothingLate == pushes = 0 /\ ~SendTimedOut

OwnAnswers ==
    /\ \A d \in Data : data[d].type = "send" =>
           /\ data[d].received => settler[d] = d
           /\ d \in sent => ~data[d].received
    /\ \A p \in wire : AnswersMessage(p)
    /\ reader.at \in {"login", "send", "lookup"} => AnswersMessage(reader.packet)
    /\ reader.at = "settle" =>
           /\ data[reader.data].type = reader.packet.type
           /\ reader.packet.type = "send" =>
                  reader.data = reader.packet.for /\ data[reader.data].type = "send"

Attributed == WaitsForItsEnd /\ AnsweredOnce /\ (NothingLate => OwnAnswers)

\* A request that was neither answered nor timed out is still in its block.
LEMMA LiveUntilItsEnd ==
    ASSUME WaitsForItsEnd, NEW d \in Data, data[d].state # "unused",
           ~data[d].received, ~data[d].timedOut
    PROVE  data[d].state = "live"
  BY DEF WaitsForItsEnd

\* A time-out is noted for good, so nothing was late before a step after which
\* nothing is.
NotesKept ==
    /\ pushes' \in Nat /\ pushes <= pushes'
    /\ \A d \in Data : data[d].type = "send" /\ data[d].timedOut =>
           data'[d].type = "send" /\ data'[d].timedOut

LEMMA NothingLateBefore ==
    ASSUME TypeOK, NotesKept, NothingLate'
    PROVE  NothingLate
  BY TypeAssumption DEF TypeOK, NotesKept, NothingLate, SendTimedOut

\* A step of a waiting thread or of the main thread that leaves the packets
\* alone; the reader may drop its own.
PacketsLeft ==
    /\ wire' = wire
    /\ \A d \in sent' : d \in Data /\ (d \in sent \/ data[d].state = "unused")
    /\ reader' = reader \/ reader' = Idle
    /\ \A d \in Data : data[d].state # "unused" =>
           data'[d].state # "unused" /\ data'[d].type = data[d].type

LEMMA PacketsStay ==
    ASSUME TypeOK, AnsweredOnce, PacketsLeft
    PROVE  AnsweredOnce'
<1>1. InReader' \subseteq InReader
  BY DEF InReader, PacketsLeft, Idle
<1>2. \A p \in (wire \cup InReader)' : p \in wire \cup InReader
  BY <1>1 DEF PacketsLeft
<1>3. reader'.at \in {"login", "send"} => reader' = reader
  BY DEF PacketsLeft, Idle
<1> QED
  BY <1>1, <1>2, <1>3 DEF AnsweredOnce, PacketsLeft

\* Such a step that answers no message keeps their attribution.
NoMessageAnswered ==
    \A d \in Data :
        /\ data[d].state = "unused" => ~data'[d].received
        /\ data[d].state # "unused" /\ data[d].type = "send" =>
               data'[d].received = data[d].received /\ settler'[d] = settler[d]

LEMMA AttributionStays ==
    ASSUME TypeOK, AnsweredOnce, OwnAnswers, PacketsLeft, NoMessageAnswered
    PROVE  OwnAnswers'
<1>1. ASSUME NEW p \in wire \cup InReader, AnswersMessage(p)
      PROVE  AnswersMessage(p)'
  <2>1. p.for \in Data /\ data[p.for].state # "unused"
    BY <1>1 DEF AnswersMessage, AnsweredOnce
  <2> QED
    BY <1>1, <2>1 DEF AnswersMessage, PacketsLeft, NoMessageAnswered
<1>2. \A d \in Data : data'[d].type = "send" =>
          /\ data'[d].received => settler'[d] = d
          /\ d \in sent' => ~data'[d].received
  BY DEF TypeOK, OwnAnswers, PacketsLeft, NoMessageAnswered
<1>3. \A p \in wire' : AnswersMessage(p)'
  BY <1>1 DEF OwnAnswers, PacketsLeft
<1>4. reader' # Idle => reader' = reader /\ reader.packet \in InReader
  BY DEF PacketsLeft, InReader
<1>5. reader'.at \in {"login", "send", "lookup"} => AnswersMessage(reader.packet)'
  BY <1>1, <1>4 DEF OwnAnswers, Idle
<1>6. reader'.at = "settle" =>
          /\ data'[reader'.data].type = reader'.packet.type
          /\ reader'.packet.type = "send" =>
                 reader'.data = reader'.packet.for /\ data'[reader'.data].type = "send"
  <2> SUFFICES ASSUME reader'.at = "settle"
               PROVE  /\ data'[reader.data].type = reader.packet.type
                      /\ reader' = reader
                      /\ reader.packet.type = "send" => reader.data = reader.packet.for
    OBVIOUS
  <2>1. reader' = reader /\ reader.at = "settle"
    BY <1>4 DEF Idle
  <2>2. reader.packet \in Packet /\ reader.data \in Data
    BY <2>1, ReaderTypes
  <2>3. data[reader.data].type = reader.packet.type /\ reader.packet.type # None
    BY <2>1, <2>2, NoneIsNoType DEF OwnAnswers, Packet, None
  <2> QED
    BY <2>1, <2>2, <2>3 DEF TypeOK, OwnAnswers, PacketsLeft
<1> QED
  BY <1>2, <1>3, <1>5, <1>6 DEF OwnAnswers

\* The steps that leave the packets alone, once what they do to the blocks is
\* known.
LEMMA BlocksStep ==
    ASSUME TypeOK, Attributed, NotesKept, PacketsLeft, NoMessageAnswered
    PROVE  AnsweredOnce' /\ (NothingLate' => OwnAnswers')
  BY NothingLateBefore, PacketsStay, AttributionStays DEF Attributed

\* start_request allocates a block that nothing refers to yet.
LEMMA StartAttributed ==
    ASSUME Typed, Attributed, NEW t \in Type, NEW d \in Data, Start(t, d)
    PROVE  Attributed'
<1>1. /\ ui = <<"idle", None>> /\ data[d].state = "unused"
      /\ ui' = ui \/ (ui' = <<"signal", d>> /\ t # "send")
      /\ sent' = sent \/ sent' = sent \cup {d}
      /\ UNCHANGED <<reader, wire, pushes, settler, outcome>>
  BY DEF Start
<1>2. /\ data'[d] = Allocated(t) /\ waiter'[d] = "waiting"
      /\ \A e \in Data \ {d} : data'[e] = data[e] /\ waiter'[e] = waiter[e]
  BY DEF Start, Typed, TypeOK
<1>3. ~Allocated(t).received /\ ~Allocated(t).timedOut
  BY DEF Allocated, Unused
<1>4. WaitsForItsEnd'
  BY <1>1, <1>2, <1>3, AllocatedBlock DEF Attributed, WaitsForItsEnd
<1>5. NotesKept
  BY <1>1, <1>2, NoneIsNoType, TypeAssumption DEF NotesKept, Typed, TypeOK, None
<1>6. PacketsLeft
  BY <1>1, <1>2 DEF PacketsLeft, Typed, TypeOK
<1>7. NoMessageAnswered
  BY <1>1, <1>2, <1>3 DEF NoMessageAnswered, Attributed, WaitsForItsEnd
<1> QED
  BY <1>4, <1>5, <1>6, <1>7, BlocksStep DEF Attributed, Typed

\* The thread of a request ends with an answer or notes the time-out.
LEMMA WaitAttributed ==
    ASSUME Typed, Attributed, NEW d \in Data, Wait(d)
    PROVE  Attributed'
<1>1. /\ waiter[d] = "waiting" /\ waiter' = [waiter EXCEPT ![d] = "queued"]
      /\ data' = data \/ data' = [data EXCEPT ![d] = TimedOut(data[d])]
      /\ UNCHANGED <<ui, reader, sent, wire, pushes, settler, outcome>>
  BY DEF Wait, TimeOut, Wake
<1>2. data'[d].received \/ data'[d].timedOut
  BY DEF Wait, TimeOut, Wake, TimedOut, Typed, TypeOK, Block
<1>3. \A e \in Data : /\ Kept(data'[e], data[e])
                      /\ data'[e].received = data[e].received
                      /\ data[e].timedOut => data'[e].timedOut
  BY <1>1 DEF TimedOut, Typed, TypeOK, Block, Kept
<1>4. /\ waiter'[d] = "queued"
      /\ \A e \in Data \ {d} : waiter'[e] = waiter[e] /\ data'[e] = data[e]
  BY <1>1 DEF Typed, TypeOK
<1>5. WaitsForItsEnd'
  <2> SUFFICES ASSUME NEW e \in Data
               PROVE  /\ data'[e].state = "unused" => ~data'[e].received
                      /\ data'[e].state # "unused" /\ waiter'[e] # "waiting" =>
                             data'[e].received \/ data'[e].timedOut
                      /\ waiter'[e] \in {"waiting", "queued"} => data'[e].state = "live"
                      /\ ui' = <<"signal", e>> =>
                             data'[e].state = "live" /\ data'[e].type # "send"
                      /\ ui' \in {<<"clear", e>>, <<"free", e>>} => waiter'[e] = "done"
                      /\ outcome'[e] = "ok" => data'[e].received
    BY DEF WaitsForItsEnd
  <2> QED
    BY <1>1, <1>2, <1>3, <1>4 DEF Attributed, WaitsForItsEnd, Kept
<1>6. NotesKept /\ PacketsLeft /\ NoMessageAnswered
  BY <1>1, <1>3, TypeAssumption
     DEF NotesKept, PacketsLeft, NoMessageAnswered, Kept, Attributed, WaitsForItsEnd,
         Typed, TypeOK
<1> QED
  BY <1>5, <1>6, BlocksStep DEF Attributed, Typed

\* The main thread answers a log-in, a registration or a log-out, no message.
LEMMA SignalAttributed ==
    ASSUME Typed, Attributed, NEW d \in Data, SignalLocally(d)
    PROVE  Attributed'
<1> DEFINE b == Settled(data[d], data[d].type = "logout")
<1>1. /\ ui = <<"signal", d>> /\ ui' = <<"idle", None>> /\ data'[d] = b
      /\ \A e \in Data \ {d} : data'[e] = data[e] /\ settler'[e] = settler[e]
      /\ UNCHANGED <<waiter, reader, sent, wire, pushes, outcome>>
  BY DEF SignalLocally, Typed, TypeOK
<1>2. Kept(b, data[d]) /\ b.received /\ (b.timedOut = data[d].timedOut)
  BY DEF Settled, Kept, Typed, TypeOK, Block
<1>3. data[d].state = "live" /\ data[d].type # "send"
  BY <1>1 DEF Attributed, WaitsForItsEnd
<1> HIDE DEF b
<1>4. WaitsForItsEnd'
  BY <1>1, <1>2, <1>3 DEF Attributed, WaitsForItsEnd, Kept
<1>5. NotesKept /\ PacketsLeft /\ NoMessageAnswered
  BY <1>1, <1>2, <1>3, TypeAssumption
     DEF NotesKept, PacketsLeft, NoMessageAnswered, Kept, Attributed, WaitsForItsEnd,
         Typed, TypeOK
<1> QED
  BY <1>4, <1>5, BlocksStep DEF Attributed, Typed

\* The dialog says "ok" of an answered request only, and the block is freed
\* after its thread has ended.
LEMMA DialogAttributed ==
    ASSUME Typed, Attributed, NEW d \in Data, Dialog(d) \/ Clear(d) \/ FreeData(d)
    PROVE  Attributed'
<1>1. UNCHANGED <<reader, sent, wire, pushes, settler>>
  BY DEF Dialog, Clear, FreeData
<1>2. \A e \in Data : /\ data'[e].state # "unused" <=> data[e].state # "unused"
                      /\ data'[e].type = data[e].type
                      /\ data'[e].received = data[e].received
                      /\ data'[e].timedOut = data[e].timedOut
  <2>1. CASE FreeData(d)
    <3>1. data[d].state = "live" \/ waiter[d] = "done"
      BY <2>1 DEF FreeData, Attributed, WaitsForItsEnd
    <3>2. data[d].state # "unused"
      BY <2>1 DEF FreeData, Typed, WorkIsAllocated
    <3> QED
      BY <2>1, <3>2 DEF FreeData, Freed, Typed, TypeOK, Block
  <2> QED
    BY <2>1 DEF Dialog, Clear
<1>3. WaitsForItsEnd'
  <2>1. CASE Dialog(d)
    <3>1. Verdict(data[d]) = "ok" => data[d].received
      BY DEF Verdict
    <3>2. /\ waiter[d] = "queued" /\ waiter'[d] = "done" /\ data' = data
          /\ ui = <<"idle", None>> /\ ui' = <<"clear", d>> /\ outcome'[d] = Verdict(data[d])
          /\ \A e \in Data \ {d} : waiter'[e] = waiter[e] /\ outcome'[e] = outcome[e]
      BY <2>1 DEF Dialog, Typed, TypeOK
    <3> QED
      BY <3>1, <3>2 DEF Attributed, WaitsForItsEnd
  <2>2. CASE Clear(d)
    BY <2>2 DEF Clear, Attributed, WaitsForItsEnd
  <2>3. CASE FreeData(d)
    <3>1. /\ ui = <<"free", d>> /\ ui' = <<"idle", None>> /\ UNCHANGED <<waiter, outcome>>
          /\ \A e \in Data \ {d} : data'[e] = data[e]
      BY <2>3 DEF FreeData, Typed, TypeOK
    <3>2. waiter[d] = "done"
      BY <3>1 DEF Attributed, WaitsForItsEnd
    <3> QED
      BY <1>2, <3>1, <3>2 DEF Attributed, WaitsForItsEnd
  <2> QED
    BY <2>1, <2>2, <2>3
<1>4. NotesKept /\ PacketsLeft /\ NoMessageAnswered
  BY <1>1, <1>2, TypeAssumption
     DEF NotesKept, PacketsLeft, NoMessageAnswered, Attributed, WaitsForItsEnd, Typed, TypeOK
<1> QED
  BY <1>3, <1>4, BlocksStep DEF Attributed, Typed

-----------------------------------------------------------------------------
(* The packets.                                                            *)

\* The server answers a request that is still waited for, or whose time is up.
LEMMA AnswerAttributed ==
    ASSUME Typed, Attributed, NEW d \in Data, NEW ok \in BOOLEAN, Answer(d, ok)
    PROVE  Attributed'
<1> DEFINE p == [type |-> IF data[d].type = "send" /\ ok THEN "rmsg" ELSE data[d].type,
                 for |-> d, ok |-> ok]
<1>1. /\ d \in sent /\ sent' = sent \ {d} /\ wire' = wire \cup {p}
      /\ UNCHANGED <<data, waiter, ui, reader, pushes, settler, outcome>>
  BY DEF Answer
<1>2. p.for = d /\ data[d].state # "unused"
  BY <1>1 DEF Typed, TypeOK
<1>3. p.type \in {"send", "rmsg"} => data[d].type = "send"
  <2>1. data[d].type \in Type /\ "rmsg" \notin Type
    BY <1>2, TypeAssumption, NoneIsNoType DEF Typed, TypeOK, Block
  <2> QED
    BY <2>1
<1> HIDE DEF p
<1>4. WaitsForItsEnd'
  BY <1>1 DEF Attributed, WaitsForItsEnd
<1>5. AnsweredOnce'
  <2>1. \A q \in wire \cup InReader : q.for # d
    BY <1>1 DEF Attributed, AnsweredOnce
  <2>2. InReader' = InReader
    BY <1>1 DEF InReader
  <2> QED
    BY <1>1, <1>2, <2>1, <2>2, NoneAssumption DEF Attributed, AnsweredOnce
<1>6. NothingLate' => OwnAnswers'
  <2>1. NothingLate' => NothingLate
    BY <1>1 DEF NothingLate, SendTimedOut
  <2>2. OwnAnswers => AnswersMessage(p)
    BY <1>1, <1>2, <1>3 DEF OwnAnswers, AnswersMessage
  <2>3. \A q : AnswersMessage(q) => AnswersMessage(q)'
    BY <1>1 DEF AnswersMessage
  <2> QED
    BY <1>1, <2>1, <2>2, <2>3 DEF Attributed, OwnAnswers
<1> QED
  BY <1>4, <1>5, <1>6 DEF Attributed

\* The reader takes a packet off the wire.
LEMMA ReceiveAttributed ==
    ASSUME Typed, Attributed, NEW p \in wire, Receive(p)
    PROVE  Attributed'
<1>1. /\ reader = Idle /\ wire' = wire \ {p} /\ reader' = Reading(p)
      /\ UNCHANGED <<data, waiter, ui, sent, pushes, settler, outcome>>
  BY DEF Receive
<1>2. /\ reader'.packet = p /\ reader'.at \in {"login", "lookup"}
      /\ reader'.at = "login" => p.type = "rmsg"
  BY <1>1 DEF Reading
<1>3. InReader = {} /\ InReader' \subseteq {p}
  BY <1>1, <1>2 DEF InReader
<1>4. WaitsForItsEnd'
  BY <1>1 DEF Attributed, WaitsForItsEnd
<1>5. AnsweredOnce'
  BY <1>1, <1>2, <1>3 DEF Attributed, AnsweredOnce
<1>6. NothingLate' => OwnAnswers'
  <2>1. NothingLate' => NothingLate
    BY <1>1 DEF NothingLate, SendTimedOut
  <2>2. \A q : AnswersMessage(q) => AnswersMessage(q)'
    BY <1>1 DEF AnswersMessage
  <2>3. OwnAnswers => AnswersMessage(reader.packet)'
    BY <1>2, <2>2 DEF OwnAnswers, AnswersMessage
  <2> QED
    BY <1>1, <1>2, <2>1, <2>2, <2>3 DEF Attributed, OwnAnswers
<1> QED
  BY <1>4, <1>5, <1>6 DEF Attributed

\* A friend's message answers no request.
LEMMA PushAttributed ==
    ASSUME Typed, Attributed, NEW ok \in BOOLEAN, ReceivePush(ok)
    PROVE  Attributed'
<1>1. /\ pushes' = pushes + 1
      /\ reader' = Reading([type |-> "rmsg", for |-> None, ok |-> ok])
      /\ UNCHANGED <<data, waiter, ui, sent, wire, settler, outcome>>
  BY DEF ReceivePush
<1>2. reader'.packet.for = None /\ reader'.packet.type = "rmsg"
  BY <1>1 DEF Reading
<1>3. InReader' \subseteq {reader'.packet}
  BY DEF InReader
<1>4. WaitsForItsEnd'
  BY <1>1 DEF Attributed, WaitsForItsEnd
<1>5. AnsweredOnce'
  BY <1>1, <1>2, <1>3, NoneAssumption DEF Attributed, AnsweredOnce
<1>6. ~NothingLate'
  BY <1>1, TypeAssumption DEF NothingLate, Typed, TypeOK
<1> QED
  BY <1>4, <1>5, <1>6 DEF Attributed

\* is_request_pending: a message keeps what it answers, or is dropped.
LEMMA AskAttributed ==
    ASSUME Typed, Attributed, NEW t \in {"login", "send"}, Ask(t)
    PROVE  Attributed'
<1>1. /\ reader.at = t /\ reader.packet \in Packet /\ reader.packet.type = "rmsg"
      /\ UNCHANGED <<data, waiter, ui, sent, wire, pushes, settler, outcome>>
  BY ReaderTypes DEF Ask, Typed, Attributed, AnsweredOnce
<1>2. \/ reader' = Idle
      \/ /\ reader'.at = "send" /\ reader'.packet = reader.packet
      \/ /\ reader'.at = "lookup" /\ reader'.packet = [reader.packet EXCEPT !.type = t]
  BY <1>1, ReaderTypes DEF Ask, Typed
<1>3. [reader.packet EXCEPT !.type = t].for = reader.packet.for
  BY <1>1 DEF Packet
<1>4. WaitsForItsEnd'
  BY <1>1 DEF Attributed, WaitsForItsEnd
<1>5. \A q \in InReader' : \E r \in InReader : q.for = r.for
  <2>1. reader # Idle /\ InReader = {reader.packet}
    BY <1>1 DEF InReader, Idle
  <2>2. reader' # Idle => reader'.packet.for = reader.packet.for
    BY <1>2, <1>3
  <2>3. InReader' = IF reader' = Idle THEN {} ELSE {reader'.packet}
    BY DEF InReader
  <2> QED
    BY <2>1, <2>2, <2>3
<1>6. AnsweredOnce'
  <2>1. reader'.at \in {"login", "send"} => reader'.packet.type = "rmsg"
    BY <1>1, <1>2 DEF Idle
  <2> QED
    BY <1>1, <1>5, <2>1 DEF Attributed, AnsweredOnce
<1>7. NothingLate' => OwnAnswers'
  <2>1. NothingLate' => NothingLate
    BY <1>1 DEF NothingLate, SendTimedOut
  <2>2. \A q : AnswersMessage(q) => AnswersMessage(q)'
    BY <1>1 DEF AnswersMessage
  <2>3. OwnAnswers /\ reader' # Idle => AnswersMessage(reader.packet)'
    BY <1>1, <1>2, <1>3 DEF OwnAnswers, AnswersMessage
  <2>4. reader'.at \in {"login", "send", "lookup"} => reader' # Idle
    BY DEF Idle
  <2>5. reader'.at # "settle"
    BY <1>2 DEF Idle
  <2> QED
    BY <1>1, <2>1, <2>2, <2>3, <2>4, <2>5 DEF Attributed, OwnAnswers
<1> QED
  BY <1>4, <1>6, <1>7 DEF Attributed

\* signal_response finds the message's own request: it is not late, so it still
\* is the request of its type.
LEMMA LookupAttributed ==
    ASSUME Typed, Entered, Attributed, Lookup
    PROVE  Attributed'
<1> DEFINE d == active[reader.packet.type]
<1>1. /\ reader.at = "lookup" /\ reader.packet \in Packet /\ reader.packet.type \in Type
      /\ UNCHANGED <<data, waiter, ui, sent, wire, pushes, settler, outcome>>
  BY ReaderTypes DEF Lookup, Typed, LookupNamesType
<1>2. \/ reader' = Idle
      \/ /\ d \in Data /\ d # None
         /\ reader' = [at |-> "settle", packet |-> reader.packet, data |-> d]
  BY <1>1 DEF Lookup, Typed, TypeOK
<1>3. reader' # Idle => data[d].state = "live" /\ data[d].type = reader.packet.type
  BY <1>1, <1>2 DEF Entered, TableIsLive
<1>4. WaitsForItsEnd'
  BY <1>1 DEF Attributed, WaitsForItsEnd
<1>5. InReader' \subseteq InReader /\ reader'.at \notin {"login", "send", "lookup"}
  BY <1>1, <1>2 DEF InReader, Idle
<1>6. AnsweredOnce'
  BY <1>1, <1>5 DEF Attributed, AnsweredOnce
<1>7. ASSUME NothingLate, OwnAnswers, reader' # Idle, reader.packet.type = "send"
      PROVE  d = reader.packet.for
  <2> DEFINE e == reader.packet.for
  <2>1. e \in Data /\ data[e].type = "send" /\ ~data[e].received
    BY <1>1, <1>7 DEF OwnAnswers, AnswersMessage
  <2>2. ~data[e].timedOut
    BY <1>7, <2>1 DEF NothingLate, SendTimedOut
  <2>3. data[e].state # "unused"
    BY <2>1 DEF Typed, TypeOK, None
  <2>4. data[e].state = "live"
    BY <2>1, <2>2, <2>3, LiveUntilItsEnd DEF Attributed
  <2> QED
    BY <1>2, <1>3, <1>7, <2>1, <2>4 DEF Entered, OnePerType
<1>8. NothingLate' => OwnAnswers'
  <2>1. NothingLate' => NothingLate
    BY <1>1 DEF NothingLate, SendTimedOut
  <2>2. \A q : AnswersMessage(q) => AnswersMessage(q)'
    BY <1>1 DEF AnswersMessage
  <2>3. reader'.at = "settle" => reader' # Idle
    BY DEF Idle
  <2> HIDE DEF d
  <2>4. reader' # Idle => reader'.data = d /\ reader'.packet = reader.packet
    BY <1>2
  <2> QED
    BY <1>1, <1>3, <1>5, <1>7, <2>1, <2>2, <2>3, <2>4 DEF Attributed, OwnAnswers
<1> QED
  BY <1>4, <1>6, <1>8 DEF Attributed

\* signal_response settles a message that its own answer reached.
LEMMA SettleAttributed ==
    ASSUME Typed, Attributed, Settle
    PROVE  Attributed'
<1> DEFINE d == reader.data
           p == reader.packet
<1>1. /\ reader.at = "settle" /\ d \in Data /\ p \in Packet /\ reader' = Idle
      /\ UNCHANGED <<waiter, ui, sent, wire, pushes, outcome>>
  BY ReaderTypes DEF Settle, Typed
<1>2. CASE data[d].state = "live"
  <2>1. /\ data'[d] = Settled(data[d], p.ok) /\ settler'[d] = p.for
        /\ \A e \in Data \ {d} : data'[e] = data[e] /\ settler'[e] = settler[e]
    BY <1>1, <1>2 DEF Settle, Typed, TypeOK
  <2>2. /\ Kept(data'[d], data[d]) /\ data'[d].received
        /\ data'[d].timedOut = data[d].timedOut
    BY <1>1, <2>1 DEF Settled, Kept, Typed, TypeOK, Block
  <2>3. WaitsForItsEnd'
    BY <1>1, <1>2, <2>1, <2>2 DEF Attributed, WaitsForItsEnd, Kept
  <2>4. PacketsLeft /\ NotesKept
    BY <1>1, <2>1, <2>2, TypeAssumption
       DEF PacketsLeft, NotesKept, Kept, Typed, TypeOK
  <2>5. AnsweredOnce'
    BY <2>4, PacketsStay DEF Attributed, Typed
  <2>6. ASSUME OwnAnswers PROVE OwnAnswers'
    <3>1. data[d].type = "send" => p.type = "send" /\ p.for = d
      BY <1>1, <2>6 DEF OwnAnswers
    <3>2. InReader = {p}
      BY <1>1 DEF InReader, Idle
    <3>3. data[d].type = "send" => d \notin sent /\ \A q \in wire : q.for # d
      BY <1>1, <3>1, <3>2 DEF Attributed, AnsweredOnce
    <3>4. \A e \in Data : data'[e].type = "send" =>
              /\ data'[e].received => settler'[e] = e
              /\ e \in sent' => ~data'[e].received
      BY <1>1, <2>1, <2>2, <2>6, <3>1, <3>3 DEF OwnAnswers, Kept
    <3>5. \A q \in wire : AnswersMessage(q)'
      BY <2>1, <2>2, <2>6, <3>3 DEF OwnAnswers, AnswersMessage, Kept
    <3> QED
      BY <1>1, <3>4, <3>5 DEF OwnAnswers, Idle
  <2> QED
    BY <2>3, <2>4, <2>5, <2>6, NothingLateBefore DEF Attributed, Typed
<1>3. CASE data[d].state # "live"
  <2>1. UNCHANGED <<data, settler>>
    BY <1>3 DEF Settle
  <2>2. WaitsForItsEnd'
    BY <1>1, <2>1 DEF Attributed, WaitsForItsEnd
  <2>3. PacketsLeft /\ NotesKept /\ NoMessageAnswered
    BY <1>1, <2>1, TypeAssumption
       DEF PacketsLeft, NotesKept, NoMessageAnswered, Attributed, WaitsForItsEnd, Typed, TypeOK
  <2> QED
    BY <2>2, <2>3, BlocksStep DEF Attributed, Typed
<1> QED
  BY <1>2, <1>3

\* cancel_request marks the log-in's block and answers nothing.
LEMMA CancelAttributed ==
    ASSUME Typed, Entered, Attributed, Cancel
    PROVE  Attributed'
<1>1. /\ reader.at = "lookup" /\ reader.packet.type = "login" /\ "login" \in Type
      /\ reader' = Idle
      /\ UNCHANGED <<waiter, ui, sent, wire, pushes, settler, outcome>>
  BY DEF Cancel, Typed, LookupNamesType
<1>2. \A e \in Data : /\ Kept(data'[e], data[e])
                      /\ data'[e].received = data[e].received
                      /\ data[e].timedOut => data'[e].timedOut
  <2>1. CASE active["login"] = None
    BY <2>1 DEF Cancel, Kept
  <2>2. CASE active["login"] # None
    <3>1. active["login"] \in Data
      BY <1>1, <2>2 DEF Typed, TypeOK
    <3>2. data' = [data EXCEPT ![active["login"]] = [data[active["login"]] EXCEPT !.timedOut = TRUE]]
      BY <2>2 DEF Cancel
    <3> QED
      BY <3>1, <3>2 DEF Typed, TypeOK, Block, Kept
  <2> QED
    BY <2>1, <2>2
<1>3. WaitsForItsEnd'
  BY <1>1, <1>2 DEF Attributed, WaitsForItsEnd, Kept
<1>4. PacketsLeft /\ NotesKept /\ NoMessageAnswered
  BY <1>1, <1>2, TypeAssumption
     DEF NotesKept, PacketsLeft, NoMessageAnswered, Kept, Attributed, WaitsForItsEnd,
         Typed, TypeOK
<1> QED
  BY <1>3, <1>4, BlocksStep DEF Attributed, Typed

\* Nothing has been answered at the start.
LEMMA InitAttributed == Init => Attributed
<1> SUFFICES ASSUME Init PROVE Attributed
  OBVIOUS
<1>1. /\ reader = Idle /\ wire = {} /\ sent = {} /\ ui = <<"idle", None>>
      /\ \A d \in Data : /\ data[d] = Unused /\ waiter[d] = "none" /\ outcome[d] = None
  BY DEF Init
<1>2. WaitsForItsEnd
  BY <1>1 DEF WaitsForItsEnd, Unused, None
<1>3. AnsweredOnce
  BY <1>1 DEF AnsweredOnce, InReader, Idle
<1>4. OwnAnswers
  BY <1>1 DEF OwnAnswers, Unused, Idle, None
<1> QED
  BY <1>2, <1>3, <1>4 DEF Attributed

\* Every action keeps the attribution of answers.
LEMMA NextAttributed == IInv /\ Attributed /\ [Next]_vars => Attributed'
<1> SUFFICES ASSUME IInv, Attributed, [Next]_vars PROVE Attributed'
  OBVIOUS
<1> USE DEF IInv
<1>1. ASSUME NEW t \in Type, NEW d \in Data, Start(t, d) PROVE Attributed'
  BY <1>1, StartAttributed
<1>2. ASSUME NEW d \in Data, Wait(d) PROVE Attributed'
  BY <1>2, WaitAttributed
<1>3. ASSUME NEW d \in Data, Main(d) PROVE Attributed'
  BY <1>3, SignalAttributed, DialogAttributed DEF Main
<1>4. ASSUME NEW d \in Data, NEW ok \in BOOLEAN, Answer(d, ok) PROVE Attributed'
  BY <1>4, AnswerAttributed
<1>5. ASSUME NEW p \in wire, Receive(p) PROVE Attributed'
  BY <1>5, ReceiveAttributed
<1>6. ASSUME NEW ok \in BOOLEAN, ReceivePush(ok) PROVE Attributed'
  BY <1>6, PushAttributed
<1>7. ASSUME Ask("login") \/ Ask("send") PROVE Attributed'
  BY <1>7, AskAttributed
<1>8. ASSUME Lookup \/ Settle \/ Cancel PROVE Attributed'
  BY <1>8, LookupAttributed, SettleAttributed, CancelAttributed
<1>9. ASSUME UNCHANGED vars PROVE Attributed'
  BY <1>9 DEF vars, Attributed, WaitsForItsEnd, AnsweredOnce, InReader, NothingLate,
              SendTimedOut, OwnAnswers, AnswersMessage
<1> QED
  BY <1>1, <1>2, <1>3, <1>4, <1>5, <1>6, <1>7, <1>8, <1>9 DEF Next

\* Without friends' messages, and until a message's request has timed out, a
\* message is taken as sent only on its own answer, for any number of messages.
THEOREM SentOnOwnAnswer == Spec => []SilenceMeansSentAlone
<1>1. IInv /\ Attributed => SilenceMeansSentAlone
  BY DEF IInv, Typed, TypeOK, SilenceMeansSentAlone, Attributed, WaitsForItsEnd, NothingLate,
         OwnAnswers
<1>2. Spec => []Attributed
  BY InitInvariant, NextInvariant, InitAttributed, NextAttributed, PTL DEF Spec
<1> QED
  BY <1>1, <1>2, Invariance, PTL

\* A step that marks a request as timed out after its answer is the reader's
\* cancel_request, whatever the other threads do.
LEMMA TimedOutBySteps ==
    ASSUME IInv, Attributed, [Next]_vars, NEW d \in Data,
           data[d].received, ~data[d].timedOut, data'[d].timedOut
    PROVE  reader.at = "lookup"
<1> USE DEF IInv, Typed
<1>1. ASSUME NEW e \in Data, NEW b, data' = [data EXCEPT ![e] = b],
             e = d => ~b.timedOut
      PROVE  FALSE
  BY <1>1 DEF TypeOK
<1>2. data[d] \in Block /\ data[d].state # "unused"
  BY DEF TypeOK, Attributed, WaitsForItsEnd
<1>3. ASSUME NEW t \in Type, NEW e \in Data, Start(t, e) PROVE FALSE
  <2>1. data[e].state = "unused" /\ data' = [data EXCEPT ![e] = Allocated(t)]
    BY <1>3 DEF Start
  <2> QED
    BY <1>1, <1>2, <2>1
<1>4. ASSUME NEW e \in Data, Wait(e) PROVE FALSE
  <2>1. TimedOut(data[d]) = data[d]
    BY DEF TimedOut
  <2> QED
    BY <1>1, <1>4, <2>1 DEF Wait, TimeOut, Wake
<1>5. ASSUME NEW e \in Data, Main(e) PROVE FALSE
  <2>1. ~Settled(data[d], data[d].type = "logout").timedOut /\ ~Freed(data[d]).timedOut
    BY <1>2 DEF Settled, Freed, Block
  <2>2. CASE SignalLocally(e)
    <3>1. data' = [data EXCEPT ![e] = Settled(data[e], data[e].type = "logout")]
      BY <2>2 DEF SignalLocally
    <3> QED
      BY <1>1, <2>1, <3>1
  <2>3. CASE Dialog(e) \/ Clear(e)
    BY <2>3 DEF Dialog, Clear
  <2>4. CASE FreeData(e)
    <3>1. data' = [data EXCEPT ![e] = Freed(data[e])]
      BY <2>4 DEF FreeData
    <3> QED
      BY <1>1, <2>1, <3>1
  <2> QED
    BY <1>5, <2>2, <2>3, <2>4 DEF Main
<1>6. ASSUME Settle PROVE FALSE
  <2>1. reader.data \in Data /\ reader.packet.ok \in BOOLEAN
    BY <1>6, ReaderTypes DEF Settle, Packet
  <2>2. ~Settled(data[d], reader.packet.ok).timedOut
    BY <1>2 DEF Settled, Block
  <2>3. \/ data' = data
        \/ data' = [data EXCEPT ![reader.data] = Settled(data[reader.data], reader.packet.ok)]
    BY <1>6 DEF Settle
  <2> QED
    BY <1>1, <2>1, <2>2, <2>3
<1>7. Cancel => reader.at = "lookup"
  BY DEF Cancel
<1>8. data' # data
  OBVIOUS
<1> QED
  BY <1>3, <1>4, <1>5, <1>6, <1>7, <1>8
     DEF Next, Answer, Receive, ReceivePush, Ask, Lookup, vars

\* A request that was answered before its time was up is never reported as
\* timed out, unless it is cancelled.
THEOREM AnswersBeatTimeOuts == Spec => AnswerBeatsTimeOut
<1>1. IInv /\ Attributed /\ [Next]_vars =>
      [\A d \in Data :
          /\ data[d].received /\ ~data[d].timedOut /\ data'[d].timedOut
          => reader.at = "lookup"]_vars
  BY TimedOutBySteps
<1>2. Spec => []Attributed
  BY InitInvariant, NextInvariant, InitAttributed, NextAttributed, PTL DEF Spec
<1> QED
  BY <1>1, <1>2, Invariance, PTL DEF Spec, AnswerBeatsTimeOut

-----------------------------------------------------------------------------
(* II.  The chat window.                                                   *)

Steps == {"idle", "set", "tell", "store", "show", "settle", "friend", "button", "put",
          "title", "clear", "fill"}

ARoom   == [id : Nat, amount : Nat, msgs : Seq(Nat)]
AButton == [index : Nat, name : Nat]

ChatTypeOK ==
    /\ rooms \in Seq(ARoom) /\ friends \in Nat
    /\ window \in {"login", "create", "chat", "none"} /\ built \in BOOLEAN
    /\ labels \in Nat /\ buttons \in Seq(AButton)
    /\ current \in Nat /\ header \in Nat /\ box \in Seq(Nat)
    /\ loggingIn \in BOOLEAN /\ sending \in BOOLEAN
    /\ queued \in Nat
    /\ pc \in [Thread -> Steps]
    /\ room \in [Thread -> Nat]
    /\ turn \in [Thread -> Nat \ {0}]
    /\ crossed \in BOOLEAN /\ hasty \in BOOLEAN
    /\ clicks \in Nat /\ news \in Nat /\ sends \in Nat

\* What each thread does follows from where it is, and what the windows are.
ChatPlaced ==
    /\ pc[Gtk] \in {"idle", "button", "title", "clear", "fill"}
    /\ window = "chat" <=> built /\ pc[Reader] \notin {"button", "put"}
    /\ pc[Reader] \in {"button", "put"} => built
    /\ pc[Gtk] = "button" => built
    /\ pc[Reader] = "set" => rooms # <<>> /\ rooms[Len(rooms)] = Blank
    /\ pc[Reader] = "store" => ~loggingIn /\ room[Reader] \in DOMAIN rooms
    /\ \A t \in Thread : Showing(t) => room[t] \in DOMAIN rooms
    /\ ~built => current = Nobody /\ header = Nobody /\ \A t \in Thread : ~Showing(t)

\* A packet that came before the chat window was made, or after the log-in.
InTime ==
    built /\ ~hasty /\ pc[Reader] \in {"set", "tell", "show", "friend"} => ~loggingIn

Opened == sentTo \subseteq opened /\ current \in opened \cup {Nobody}

\* A room without its button has somebody who will make it.
Shows(i)  == [index |-> i, name |-> rooms[i].id] \in {buttons[b] : b \in DOMAIN buttons}
Comes(i)  == \E t \in Thread : pc[t] = "button" /\ turn[t] <= i
ToTell(i) == pc[Reader] \in {"set", "tell"} /\ i = Len(rooms)

Listed ==
    built /\ ~hasty =>
        /\ labels = friends \/ pc[Reader] = "friend"
        /\ \A i \in DOMAIN rooms : Shows(i) \/ Comes(i) \/ ToTell(i) \/ queued > 0

\* The message that was counted is shown again when it is stored.
Stale == pc[Reader] \in {"store", "show"} /\ ~loggingIn

Titled == header # Nobody =>
    current \in DOMAIN rooms /\ header = rooms[current].id

\* box has the first n messages of the open chat.
Holds(n) == /\ Len(box) = n
            /\ \A k \in 1..n : box[k] = Entry(rooms[current], k)

OpenChat == ~crossed =>
    /\ \A t \in Thread : Showing(t) =>
           /\ room[t] = current
           /\ \A u \in Thread : Showing(u) => u = t
           /\ pc[t] # "title" => Titled
           /\ pc[t] = "fill" /\ ~hasty /\ ~Stale =>
                  turn[t] - 1 <= rooms[current].amount /\ Holds(turn[t] - 1)
    /\ (\A t \in Thread : ~Showing(t)) =>
           /\ Titled
           /\ ~hasty /\ ~Stale /\ header # Nobody => Holds(rooms[current].amount)

ChatInv == ChatTypeOK /\ ChatPlaced /\ InTime /\ Opened /\ Listed /\ OpenChat
-----------------------------------------------------------------------------
(* Types and places.                                                       *)

\* Every step of the two threads, by the part of the data it may change.
Windows == \/ CreateAccountButton \/ BackToLoginButton \/ LogInDialog \/ SendDialog
           \/ ClickSend
Answered == SettleSend \/ TellRoom \/ TellFriend

LEMMA Threads ==
    /\ Gtk \in Thread /\ Reader \in Thread /\ Gtk # Reader
    /\ \A t \in Thread : Shown(t) \in {"settle", "idle"}
  BY DEF Thread, Gtk, Reader, Shown

\* show_chat_with_room moves the thread, and sets nothing but the open chat.
LEMMA OpensTypes ==
    ASSUME ChatTypeOK, NEW t \in Thread, NEW i \in Nat, NEW from \in Steps, Opens(t, i, from)
    PROVE  /\ pc' \in [Thread -> Steps] /\ room' \in [Thread -> Nat]
           /\ current' \in Nat /\ crossed' \in BOOLEAN
  BY Threads DEF ChatTypeOK, Opens, Steps

\* A sequence whose i-th element is replaced.
LEMMA SeqReplaced ==
    ASSUME NEW S, NEW s \in Seq(S), NEW i \in DOMAIN s, NEW x \in S
    PROVE  /\ [s EXCEPT ![i] = x] \in Seq(S) /\ Len([s EXCEPT ![i] = x]) = Len(s)
           /\ DOMAIN [s EXCEPT ![i] = x] = DOMAIN s
  OBVIOUS

LEMMA SeqAppended ==
    ASSUME NEW S, NEW s \in Seq(S), NEW x \in S
    PROVE  /\ Append(s, x) \in Seq(S) /\ Len(Append(s, x)) = Len(s) + 1
           /\ DOMAIN Append(s, x) = 1..(Len(s) + 1) /\ Append(s, x)[Len(s) + 1] = x
           /\ \A i \in 1..Len(s) : Append(s, x)[i] = s[i]
  OBVIOUS

LEMMA RoomsSound ==
    ASSUME ChatTypeOK
    PROVE  /\ Len(rooms) \in Nat /\ DOMAIN rooms = 1..Len(rooms)
           /\ \A i \in DOMAIN rooms :
                  /\ i \in Nat \ {0} /\ rooms[i] \in ARoom
                  /\ rooms[i].id \in Nat /\ rooms[i].amount \in Nat
                  /\ rooms[i].msgs \in Seq(Nat)
<1>1. rooms \in Seq(ARoom)
  BY DEF ChatTypeOK
<1>2. /\ Len(rooms) \in Nat /\ DOMAIN rooms = 1..Len(rooms)
      /\ \A i \in DOMAIN rooms : i \in Nat \ {0} /\ rooms[i] \in ARoom
  BY <1>1
<1>3. \A r \in ARoom : r.id \in Nat /\ r.amount \in Nat /\ r.msgs \in Seq(Nat)
  BY DEF ARoom
<1> QED
  BY <1>2, <1>3

LEMMA EntryType ==
    ASSUME NEW r \in ARoom, NEW k \in Nat \ {0}
    PROVE  Entry(r, k) \in Nat
<1>1. r.msgs \in Seq(Nat)
  BY DEF ARoom
<1>2. k <= Len(r.msgs) => r.msgs[k] \in Nat
  BY <1>1
<1> QED
  BY <1>2 DEF Entry, Garbage

LEMMA ChatTypeKept ==
    ASSUME ChatTypeOK, ChatPlaced, ChatNext
    PROVE  ChatTypeOK'
<1> USE Threads DEF Go, userData, lists, chat, asked, threads, history, counts
<1>0. Nobody \in Nat /\ Garbage \in Nat
  BY DEF Nobody, Garbage
<1>1. ASSUME NEW t \in Thread, Title(t) PROVE ChatTypeOK'
  <2>1. rooms[room[t]].id \in Nat
    BY <1>1, RoomsSound DEF Title, ChatPlaced, Showing
  <2> QED
    BY <1>1, <2>1 DEF Title, Steps, ChatTypeOK
<1>2. ASSUME NEW t \in Thread, ClearChat(t) PROVE ChatTypeOK'
  BY <1>2 DEF ClearChat, NoMessages, Steps, ChatTypeOK
<1>3. ASSUME NEW t \in Thread, Fill(t) PROVE ChatTypeOK'
  <2>1. pc[t] = "fill" /\ room[t] \in DOMAIN rooms
    BY <1>3 DEF Fill, ChatPlaced, Showing
  <2>2. rooms[room[t]] \in ARoom /\ turn[t] \in Nat \ {0}
    BY <2>1, RoomsSound DEF ChatTypeOK
  <2>3. Entry(rooms[room[t]], turn[t]) \in Nat
    BY <2>2, EntryType
  <2>6. PICK to \in Steps, x \in Nat, n \in Nat \ {0} :
            /\ pc' = [pc EXCEPT ![t] = to] /\ turn' = [turn EXCEPT ![t] = n]
            /\ box' \in {box, Append(box, x)}
    <3>1. turn[t] + 1 \in Nat \ {0} /\ 1 \in Nat \ {0} /\ "fill" \in Steps /\ Shown(t) \in Steps
      BY <2>2 DEF Steps
    <3>2. \/ /\ pc' = [pc EXCEPT ![t] = "fill"] /\ turn' = [turn EXCEPT ![t] = turn[t] + 1]
             /\ box' = Append(box, Entry(rooms[room[t]], turn[t]))
          \/ /\ pc' = [pc EXCEPT ![t] = Shown(t)] /\ turn' = [turn EXCEPT ![t] = 1]
             /\ box' = box
      BY <1>3 DEF Fill
    <3> QED
      BY <2>3, <3>1, <3>2
  <2>7. box \in Seq(Nat)
    BY DEF ChatTypeOK
  <2>8. Append(box, x) \in Seq(Nat)
    BY <2>6, <2>7, SeqAppended
  <2>4. box' \in Seq(Nat)
    BY <2>6, <2>7, <2>8, Zenon
  <2>5. pc' \in [Thread -> Steps] /\ turn' \in [Thread -> Nat \ {0}]
    BY <2>6 DEF ChatTypeOK
  <2> QED
    BY <1>3, <2>4, <2>5 DEF Fill, ChatTypeOK
<1>4. ASSUME NEW t \in Thread, Button(t) PROVE ChatTypeOK'
  <2>1. turn[t] \in DOMAIN rooms =>
            [index |-> turn[t], name |-> rooms[turn[t]].id] \in AButton
    BY RoomsSound DEF AButton
  <2>4. PICK to \in Steps, n \in Nat \ {0} :
            pc' = [pc EXCEPT ![t] = to] /\ turn' = [turn EXCEPT ![t] = n]
    <3>1. turn[t] \in Nat \ {0}
      BY DEF ChatTypeOK
    <3> QED
      BY <1>4, <3>1 DEF Button, Steps
  <2>2. pc' \in [Thread -> Steps] /\ turn' \in [Thread -> Nat \ {0}]
    BY <2>4 DEF ChatTypeOK
  <2>5. \/ buttons' = buttons
        \/ /\ turn[t] \in DOMAIN rooms
           /\ buttons' = Append(buttons, [index |-> turn[t], name |-> rooms[turn[t]].id])
    BY <1>4 DEF Button
  <2>6. buttons \in Seq(AButton)
    BY DEF ChatTypeOK
  <2>3. buttons' \in Seq(AButton)
    BY <2>1, <2>5, <2>6, SeqAppended
  <2> QED
    BY <1>4, <2>2, <2>3 DEF Button, ChatTypeOK
<1>5. CASE Refresh
  <2>3. /\ pc' = pc \/ pc' = [pc EXCEPT ![Gtk] = "button"]
        /\ turn' = turn \/ turn' = [turn EXCEPT ![Gtk] = 1]
        /\ buttons' \in {buttons, <<>>} /\ queued > 0 /\ queued' \in {queued, queued - 1}
    BY <1>5 DEF Refresh
  <2>4. /\ buttons \in Seq(AButton) /\ <<>> \in Seq(AButton) /\ queued \in Nat
        /\ pc \in [Thread -> Steps] /\ turn \in [Thread -> Nat \ {0}]
    BY DEF ChatTypeOK
  <2>5. queued - 1 \in Nat
    BY <2>3, <2>4
  <2>1. buttons' \in Seq(AButton) /\ queued' \in Nat
    BY <2>3, <2>4, <2>5, Zenon
  <2>2. pc' \in [Thread -> Steps] /\ turn' \in [Thread -> Nat \ {0}]
    BY <2>3, <2>4 DEF Steps
  <2> QED
    BY <1>5, <2>1, <2>2 DEF Refresh, ChatTypeOK
<1>6. CASE Windows
  <2>1. CASE CreateAccountButton \/ BackToLoginButton
    BY <2>1 DEF CreateAccountButton, BackToLoginButton, ChatTypeOK
  <2>2. CASE LogInDialog \/ SendDialog
    BY <2>2 DEF LogInDialog, SendDialog, ChatTypeOK
  <2>3. CASE ClickSend
    BY <2>3 DEF ClickSend, ChatTypeOK
  <2> QED
    BY <1>6, <2>1, <2>2, <2>3 DEF Windows
<1>7. ASSUME NEW b \in DOMAIN buttons, ClickRoom(b) PROVE ChatTypeOK'
  <2>1. buttons[b] \in AButton
    BY <1>7 DEF ChatTypeOK
  <2>2. buttons[b].index \in Nat
    BY <2>1 DEF AButton
  <2> QED
    <3>1. Opens(Gtk, buttons[b].index, "idle") /\ clicks' = clicks + 1
      BY <1>7 DEF ClickRoom
    <3>2. /\ pc' \in [Thread -> Steps] /\ room' \in [Thread -> Nat]
          /\ current' \in Nat /\ crossed' \in BOOLEAN
      BY <2>2, <3>1, OpensTypes DEF Steps
    <3> QED
      BY <1>7, <3>1, <3>2 DEF ClickRoom, ChatTypeOK
<1>8. CASE ReadRoom
  <2>1. Blank \in ARoom
    BY <1>0 DEF Blank, ARoom
  <2>2. Append(rooms, Blank) \in Seq(ARoom)
    BY <2>1, SeqAppended DEF ChatTypeOK
  <2> QED
    BY <1>8, <2>2 DEF ReadRoom, Arrives, Steps, ChatTypeOK
<1>9. CASE SetRoom
  <2>1. \A amount \in 0..1 : [id |-> Len(rooms), amount |-> amount, msgs |-> <<>>] \in ARoom
    BY RoomsSound DEF ARoom
  <2>2. rooms # <<>> /\ Len(rooms) \in DOMAIN rooms
    BY <1>9, RoomsSound DEF SetRoom, ChatPlaced, ChatTypeOK
  <2>3. \A r \in ARoom : [rooms EXCEPT ![Len(rooms)] = r] \in Seq(ARoom)
    BY <2>2, SeqReplaced DEF ChatTypeOK
  <2>4. rooms' \in Seq(ARoom)
    BY <1>9, <2>1, <2>3 DEF SetRoom
  <2> QED
    BY <1>9, <2>4 DEF SetRoom, Steps, ChatTypeOK
<1>10. CASE Answered
  <2>0. pc' \in [Thread -> Steps] /\ room' \in [Thread -> Nat]
    <3>1. /\ pc' = [pc EXCEPT ![Reader] = "idle"]
          /\ room' \in {room, [room EXCEPT ![Reader] = Nobody]}
      <4>1. CASE SettleSend
        BY <4>1 DEF SettleSend
      <4>2. CASE TellRoom \/ TellFriend
        BY <4>2 DEF TellRoom, TellFriend
      <4> QED
        BY <1>10, <4>1, <4>2 DEF Answered
    <3>2. pc \in [Thread -> Steps] /\ room \in [Thread -> Nat] /\ "idle" \in Steps
      BY DEF Steps, ChatTypeOK
    <3> QED
      BY <1>0, <3>1, <3>2
  <2>1. CASE SettleSend
    BY <2>0, <2>1 DEF SettleSend, ChatTypeOK
  <2>2. CASE TellRoom
    BY <2>0, <2>2 DEF TellRoom, Told, ChatTypeOK
  <2>3. CASE TellFriend
    BY <2>0, <2>3 DEF TellFriend, ChatTypeOK
  <2> QED
    BY <1>10, <2>1, <2>2, <2>3 DEF Answered
<1>11. CASE ReadMessage
  <2>0. Arrives
    BY <1>11 DEF ReadMessage
  <2>1. news' \in Nat
    BY <2>0 DEF Arrives, ChatTypeOK
  <2>2. PICK i \in DOMAIN rooms :
            /\ room' = [room EXCEPT ![Reader] = i]
            /\ \/ rooms' = [rooms EXCEPT ![i].msgs = Append(@, news')] \/ rooms' = rooms
               \/ rooms' = [rooms EXCEPT ![i].amount = @ + 1]
    BY <1>11 DEF ReadMessage
  <2>8. Append(rooms[i].msgs, news') \in Seq(Nat) /\ rooms[i].amount + 1 \in Nat
    BY <2>1, RoomsSound, SeqAppended
  <2>3. /\ [rooms[i] EXCEPT !.msgs = Append(@, news')] \in ARoom
        /\ [rooms[i] EXCEPT !.amount = @ + 1] \in ARoom
        /\ i \in Nat
    BY <2>8, RoomsSound DEF ARoom
  <2>5. \A r \in ARoom : [rooms EXCEPT ![i] = r] \in Seq(ARoom)
    BY SeqReplaced DEF ChatTypeOK
  <2>6. rooms' \in Seq(ARoom)
    BY <2>2, <2>3, <2>5 DEF ChatTypeOK
  <2>7. pc' \in [Thread -> Steps] /\ hasty' \in BOOLEAN
    BY <1>11 DEF ReadMessage, Arrives, Steps, ChatTypeOK
  <2>4. rooms' \in Seq(ARoom) /\ room' \in [Thread -> Nat]
    BY <2>2, <2>3, <2>6 DEF ChatTypeOK
  <2> QED
    BY <1>11, <2>1, <2>4, <2>7 DEF ReadMessage, Arrives, ChatTypeOK
<1>12. CASE StoreMessage
  <2>1. room[Reader] \in DOMAIN rooms
    BY <1>12 DEF StoreMessage, ChatPlaced
  <2>4. Append(rooms[room[Reader]].msgs, news) \in Seq(Nat)
    BY <2>1, RoomsSound, SeqAppended DEF ChatTypeOK
  <2>2. [rooms[room[Reader]] EXCEPT !.msgs = Append(@, news)] \in ARoom
    BY <2>1, <2>4, RoomsSound DEF ARoom
  <2>3. rooms' \in Seq(ARoom)
    BY <1>12, <2>1, <2>2, SeqReplaced DEF StoreMessage, ChatTypeOK
  <2> QED
    BY <1>12, <2>3 DEF StoreMessage, Steps, ChatTypeOK
<1>13. CASE RefreshChat
  BY <1>13, OpensTypes DEF RefreshChat, ToRefresh, Steps, ChatTypeOK
<1>14. CASE ReadFriend
  BY <1>14 DEF ReadFriend, Arrives, Steps, ChatTypeOK
<1>15. CASE ShowChatWindow
  BY <1>15 DEF ShowChatWindow, Steps, ChatTypeOK
<1>16. CASE PutWindow
  BY <1>16, <1>0 DEF PutWindow, Steps, ChatTypeOK
<1> QED
  BY <1>1, <1>2, <1>3, <1>4, <1>5, <1>6, <1>7, <1>8, <1>9, <1>10, <1>11, <1>12, <1>13,
     <1>14, <1>15, <1>16 DEF ChatNext, MainStep, ReaderStep, Show, Windows, Answered

\* The last room, and any other, after a change of one of them.
LEMMA ChatPlacedKept ==
    ASSUME ChatTypeOK, ChatPlaced, ChatNext
    PROVE  ChatPlaced'
<1> USE Threads DEF Go, userData, lists, chat, asked, threads, history, counts
<1>0. /\ pc \in [Thread -> Steps] /\ room \in [Thread -> Nat]
      /\ built \in BOOLEAN /\ loggingIn \in BOOLEAN
  BY DEF ChatTypeOK
<1>r. Len(rooms) \in Nat /\ DOMAIN rooms = 1..Len(rooms)
  BY RoomsSound
<1>1. ASSUME NEW t \in Thread, Title(t) PROVE ChatPlaced'
  BY <1>0, <1>1 DEF Title, ChatPlaced, Showing, Thread, Gtk, Reader
<1>2. ASSUME NEW t \in Thread, ClearChat(t) PROVE ChatPlaced'
  BY <1>0, <1>2 DEF ClearChat, ChatPlaced, Showing, Thread, Gtk, Reader
<1>3. ASSUME NEW t \in Thread, Fill(t) PROVE ChatPlaced'
  <2>1. pc[t] = "fill" /\ pc' \in {pc, [pc EXCEPT ![t] = Shown(t)]}
    BY <1>0, <1>3 DEF Fill
  <2>2. UNCHANGED <<rooms, built, window, current, header, room, loggingIn>>
    BY <1>3 DEF Fill
  <2> QED
    BY <1>0, <2>1, <2>2 DEF ChatPlaced, Showing, Thread, Shown, Gtk, Reader
<1>4. ASSUME NEW t \in Thread, Button(t) PROVE ChatPlaced'
  <2>1. /\ pc[t] = "button"
        /\ pc' \in {pc, [pc EXCEPT ![t] = IF t = Gtk THEN "idle" ELSE "put"]}
    BY <1>0, <1>4 DEF Button
  <2>2. UNCHANGED <<rooms, built, window, current, header, room, loggingIn>>
    BY <1>4 DEF Button
  <2> QED
    BY <1>0, <2>1, <2>2 DEF ChatPlaced, Showing, Thread, Gtk, Reader
<1>5. CASE Refresh
  BY <1>0, <1>5 DEF Refresh, ChatPlaced, Showing, Thread, Gtk, Reader
<1>6. CASE Windows
  BY <1>0, <1>6 DEF Windows, CreateAccountButton, BackToLoginButton, LogInDialog, SendDialog,
     ClickSend, ChatPlaced, Showing, Thread, Gtk, Reader
<1>7. ASSUME NEW b \in DOMAIN buttons, ClickRoom(b) PROVE ChatPlaced'
  BY <1>0, <1>7 DEF ClickRoom, Opens, Shown, ChatPlaced, Showing, Thread, Gtk, Reader
<1>8. CASE ReadRoom
  <2>1. /\ rooms' # <<>> /\ rooms'[Len(rooms')] = Blank
        /\ \A i \in DOMAIN rooms : i \in DOMAIN rooms'
    BY <1>8, <1>r, SeqAppended DEF ReadRoom, ChatTypeOK
  <2> QED
    BY <1>0, <1>8, <2>1 DEF ReadRoom, Arrives, ChatPlaced, Showing, Thread, Gtk, Reader
<1>9. CASE SetRoom
  <2>1. DOMAIN rooms' = DOMAIN rooms
    BY <1>9 DEF SetRoom
  <2> QED
    BY <1>0, <1>9, <2>1 DEF SetRoom, ChatPlaced, Showing, Thread, Gtk, Reader
<1>10. CASE Answered
  BY <1>0, <1>10 DEF Answered, SettleSend, TellRoom, TellFriend, ChatPlaced, Showing, Thread,
     Gtk, Reader
<1>11. CASE ReadMessage
  <2>1. DOMAIN rooms' = DOMAIN rooms /\ pc[Reader] = "idle"
    BY <1>11 DEF ReadMessage
  <2>2. PICK i \in DOMAIN rooms : room' = [room EXCEPT ![Reader] = i]
    BY <1>11 DEF ReadMessage
  <2> QED
    BY <1>0, <1>11, <2>1, <2>2 DEF ReadMessage, Arrives, ChatPlaced, Showing, Thread, Gtk, Reader
<1>12. CASE StoreMessage
  <2>1. DOMAIN rooms' = DOMAIN rooms
    BY <1>12 DEF StoreMessage
  <2> QED
    BY <1>0, <1>12, <2>1 DEF StoreMessage, ChatPlaced, Showing, Thread, Gtk, Reader
<1>13. CASE RefreshChat
  <2>1. \/ loggingIn /\ pc' = [pc EXCEPT ![Reader] = "idle"] /\ UNCHANGED <<room, current>>
        \/ /\ current \in DOMAIN rooms /\ pc' = [pc EXCEPT ![Reader] = "title"]
           /\ room' = [room EXCEPT ![Reader] = current] /\ current' = current
        \/ pc' = [pc EXCEPT ![Reader] = "settle"] /\ UNCHANGED <<room, current>>
    BY <1>13 DEF RefreshChat, Opens, ToRefresh, Shown
  <2>2. pc[Reader] = "show" /\ Nobody \notin DOMAIN rooms
    BY <1>13, <1>r DEF RefreshChat, Opens, Nobody
  <2> QED
    BY <1>0, <1>13, <2>1, <2>2 DEF RefreshChat, ChatPlaced, Showing, Thread, Gtk, Reader
<1>14. CASE ReadFriend
  BY <1>0, <1>14 DEF ReadFriend, Arrives, ChatPlaced, Showing, Thread, Gtk, Reader
<1>15. CASE ShowChatWindow
  BY <1>0, <1>15 DEF ShowChatWindow, ChatPlaced, Showing, Thread, Gtk, Reader
<1>16. CASE PutWindow
  BY <1>0, <1>16 DEF PutWindow, ChatPlaced, Showing, Thread, Gtk, Reader
<1> QED
  BY <1>1, <1>2, <1>3, <1>4, <1>5, <1>6, <1>7, <1>8, <1>9, <1>10, <1>11, <1>12, <1>13,
     <1>14, <1>15, <1>16 DEF ChatNext, MainStep, ReaderStep, Show, Windows, Answered

-----------------------------------------------------------------------------
(* Where the messages go.                                                  *)

\* on_room_clicked makes its room the current one, and refresh_current_chat
\* leaves it; so an open chat was opened by a click, and messages go there.
LEMMA OpenedKept ==
    ASSUME ChatTypeOK, Opened, ChatNext
    PROVE  Opened'
<1> USE DEF Opened, Opens, Go, userData, lists, chat, asked, threads, history, counts
<1>1. CASE ClickSend
  BY <1>1, RoomsSound DEF ClickSend, Nobody
<1>2. CASE \E b \in DOMAIN buttons : ClickRoom(b)
  BY <1>2 DEF ClickRoom
<1>3. CASE RefreshChat
  BY <1>3 DEF RefreshChat, ToRefresh
<1>4. CASE ReadRoom \/ ReadMessage \/ ReadFriend
  BY <1>4 DEF ReadRoom, ReadMessage, ReadFriend
<1>5. CASE PutWindow
  BY <1>5 DEF PutWindow
<1>6. CASE \E t \in Thread : Show(t) \/ Button(t)
  BY <1>6 DEF Show, Title, ClearChat, Fill, Button
<1>7. CASE Refresh \/ CreateAccountButton \/ BackToLoginButton \/ LogInDialog \/ SendDialog
  BY <1>7 DEF Refresh, CreateAccountButton, BackToLoginButton, LogInDialog, SendDialog
<1>8. CASE SetRoom \/ TellRoom \/ StoreMessage \/ SettleSend \/ TellFriend \/ ShowChatWindow
  BY <1>8 DEF SetRoom, TellRoom, StoreMessage, SettleSend, TellFriend, ShowChatWindow
<1> QED
  BY <1>1, <1>2, <1>3, <1>4, <1>5, <1>6, <1>7, <1>8 DEF ChatNext, MainStep, ReaderStep

-----------------------------------------------------------------------------
(* The lists.                                                              *)

\* A packet that comes while the log-in is under way comes before the window,
\* or makes the history hasty.
LEMMA InTimeKept ==
    ASSUME ChatTypeOK, ChatPlaced, InTime, ChatNext
    PROVE  InTime'
<1> USE Threads DEF Go, userData, lists, chat, asked, threads, history, counts
<1>0. /\ pc \in [Thread -> Steps] /\ built \in BOOLEAN /\ loggingIn \in BOOLEAN
      /\ hasty \in BOOLEAN
  BY DEF ChatTypeOK
<1>1. ASSUME NEW t \in Thread, Show(t) \/ Button(t) PROVE InTime'
  <2>1. /\ t = Reader => pc[Reader] \in {"title", "clear", "fill", "button"}
        /\ UNCHANGED <<built, hasty, loggingIn>>
        /\ \E to \in {"clear", "fill", "button", "idle", "put", "settle"} :
               pc' = [pc EXCEPT ![t] = to]
    <3>1. CASE Title(t) \/ ClearChat(t)
      BY <3>1 DEF Title, ClearChat
    <3>2. CASE Fill(t)
      BY <3>2 DEF Fill
    <3>3. CASE Button(t)
      BY <3>3 DEF Button
    <3> QED
      BY <1>1, <3>1, <3>2, <3>3 DEF Show
  <2> QED
    BY <1>0, <2>1 DEF InTime, Thread
<1>2. CASE Refresh
  BY <1>0, <1>2 DEF Refresh, InTime
<1>3. CASE Windows
  BY <1>0, <1>3 DEF Windows, CreateAccountButton, BackToLoginButton, LogInDialog, SendDialog,
     ClickSend, InTime
<1>4. ASSUME NEW b \in DOMAIN buttons, ClickRoom(b) PROVE InTime'
  BY <1>0, <1>4 DEF ClickRoom, Opens, InTime
<1>5. CASE ReadRoom \/ ReadFriend
  BY <1>0, <1>5 DEF ReadRoom, ReadFriend, Arrives, InTime, ChatPlaced
<1>6. CASE ReadMessage
  BY <1>0, <1>6 DEF ReadMessage, Arrives, InTime, ChatPlaced
<1>7. CASE SetRoom \/ StoreMessage
  BY <1>0, <1>7 DEF SetRoom, StoreMessage, InTime, ChatPlaced
<1>8. CASE Answered
  BY <1>0, <1>8 DEF Answered, SettleSend, TellRoom, TellFriend, InTime
<1>9. CASE RefreshChat
  BY <1>0, <1>9 DEF RefreshChat, Opens, Shown, InTime
<1>10. CASE ShowChatWindow \/ PutWindow
  BY <1>0, <1>10 DEF ShowChatWindow, PutWindow, InTime
<1> QED
  BY <1>1, <1>2, <1>3, <1>4, <1>5, <1>6, <1>7, <1>8, <1>9, <1>10
     DEF ChatNext, MainStep, ReaderStep, Windows, Answered

\* What neither adds nor names a room, and leaves the lists and who makes them.
ListsKept ==
    /\ DOMAIN rooms' = DOMAIN rooms /\ Len(rooms') = Len(rooms)
    /\ \A i \in DOMAIN rooms : rooms'[i].id = rooms[i].id
    /\ UNCHANGED <<lists, friends, built, queued>> /\ (hasty => hasty')
    /\ \A t \in Thread : pc[t] = "button" => pc'[t] = "button" /\ turn'[t] = turn[t]
    /\ pc[Reader] \in {"set", "tell"} => pc'[Reader] \in {"set", "tell"}
    /\ pc[Reader] = "friend" => pc'[Reader] = "friend"

LEMMA ListedFrame == Listed /\ ListsKept => Listed'
<1> SUFFICES ASSUME Listed, ListsKept, built', ~hasty' PROVE Listed'
  BY DEF Listed
<1>1. /\ labels = friends \/ pc[Reader] = "friend"
      /\ \A i \in DOMAIN rooms : Shows(i) \/ Comes(i) \/ ToTell(i) \/ queued > 0
  BY DEF Listed, ListsKept
<1>2. labels' = friends' \/ pc'[Reader] = "friend"
  BY <1>1 DEF ListsKept, lists
<1>3. ASSUME NEW i \in DOMAIN rooms' PROVE Shows(i)' \/ Comes(i)' \/ ToTell(i)' \/ queued' > 0
  <2>1. i \in DOMAIN rooms
    BY DEF ListsKept
  <2>2. Shows(i) => Shows(i)'
    BY <2>1 DEF Shows, ListsKept, lists
  <2>3. Comes(i) => Comes(i)'
    BY DEF Comes, ListsKept
  <2>4. (ToTell(i) => ToTell(i)') /\ queued' = queued
    BY DEF ToTell, ListsKept
  <2> QED
    BY <1>1, <2>1, <2>2, <2>3, <2>4
<1> QED
  BY <1>2, <1>3 DEF Listed

\* Every step but those that are about the lists.
LEMMA ListsKeptBy ==
    ASSUME ChatTypeOK, ChatPlaced,
           \/ \E t \in Thread : Show(t)
           \/ Windows \/ SettleSend \/ ReadMessage \/ StoreMessage \/ RefreshChat \/ PutWindow
           \/ \E b \in DOMAIN buttons : ClickRoom(b)
    PROVE  ListsKept
<1> USE Threads DEF Go, userData, lists, chat, asked, threads, history, counts
<1>0. /\ pc \in [Thread -> Steps] /\ hasty \in BOOLEAN /\ turn \in [Thread -> Nat \ {0}]
  BY DEF ChatTypeOK
<1>1. ASSUME NEW t \in Thread, Show(t) PROVE ListsKept
  <2>1. /\ pc[t] \in {"title", "clear", "fill"}
        /\ \E to \in Steps : pc' = [pc EXCEPT ![t] = to]
        /\ \E n \in Nat : turn' = [turn EXCEPT ![t] = n]
        /\ UNCHANGED <<rooms, friends, built, queued, labels, buttons, hasty>>
    <3>1. CASE Title(t)
      BY <1>0, <3>1 DEF Title, Steps
    <3>2. CASE ClearChat(t)
      BY <1>0, <3>2 DEF ClearChat, Steps
    <3>3. CASE Fill(t)
      BY <1>0, <3>3 DEF Fill, Steps
    <3> QED
      BY <1>1, <3>1, <3>2, <3>3 DEF Show
  <2> QED
    BY <1>0, <2>1 DEF ListsKept
<1>2. CASE Windows
  BY <1>0, <1>2 DEF Windows, CreateAccountButton, BackToLoginButton, LogInDialog, SendDialog,
     ClickSend, ListsKept
<1>3. CASE SettleSend
  BY <1>0, <1>3 DEF SettleSend, ListsKept
<1>4. CASE ReadMessage
  <2>1. PICK i \in DOMAIN rooms :
            \/ rooms' = [rooms EXCEPT ![i].msgs = Append(@, news')] \/ rooms' = rooms
            \/ rooms' = [rooms EXCEPT ![i].amount = @ + 1]
    BY <1>4 DEF ReadMessage
  <2>2. \A k \in DOMAIN rooms : rooms[k] \in ARoom
    BY RoomsSound
  <2>3. DOMAIN rooms' = DOMAIN rooms /\ \A k \in DOMAIN rooms : rooms'[k].id = rooms[k].id
    BY <2>1, <2>2 DEF ARoom
  <2>4. Len(rooms') = Len(rooms)
    BY <1>4, <2>3, RoomsSound, ChatTypeKept DEF ChatNext, ReaderStep, ChatTypeOK
  <2> QED
    BY <1>0, <1>4, <2>3, <2>4 DEF ReadMessage, Arrives, ListsKept
<1>5. CASE StoreMessage
  <2>2. \A k \in DOMAIN rooms : rooms[k] \in ARoom
    BY RoomsSound
  <2>3. DOMAIN rooms' = DOMAIN rooms /\ \A k \in DOMAIN rooms : rooms'[k].id = rooms[k].id
    BY <1>5, <2>2 DEF StoreMessage, ARoom
  <2>4. Len(rooms') = Len(rooms)
    BY <1>5, <2>3, RoomsSound, ChatTypeKept DEF ChatNext, ReaderStep, ChatTypeOK
  <2> QED
    BY <1>0, <1>5, <2>3, <2>4 DEF StoreMessage, ListsKept
<1>6. CASE RefreshChat
  BY <1>0, <1>6 DEF RefreshChat, Opens, ListsKept
<1>7. CASE PutWindow
  BY <1>0, <1>7 DEF PutWindow, ListsKept
<1>8. ASSUME NEW b \in DOMAIN buttons, ClickRoom(b) PROVE ListsKept
  BY <1>0, <1>8 DEF ClickRoom, Opens, ListsKept
<1> QED
  BY <1>1, <1>2, <1>3, <1>4, <1>5, <1>6, <1>7, <1>8

\* A button is added to those that are there.
LEMMA ShownStay ==
    ASSUME ChatTypeOK, NEW x \in AButton, buttons' = Append(buttons, x), rooms' = rooms
    PROVE  /\ \A i \in DOMAIN rooms : Shows(i) => Shows(i)'
           /\ \A i \in DOMAIN rooms : x = [index |-> i, name |-> rooms[i].id] => Shows(i)'
<1>1. /\ DOMAIN buttons = 1..Len(buttons) /\ Len(buttons) \in Nat
      /\ DOMAIN buttons' = 1..(Len(buttons) + 1)
      /\ buttons'[Len(buttons) + 1] = x /\ \A b \in DOMAIN buttons : buttons'[b] = buttons[b]
  BY SeqAppended DEF ChatTypeOK
<1>2. \A b \in DOMAIN buttons : b \in DOMAIN buttons'
  BY <1>1
<1>3. Len(buttons) + 1 \in DOMAIN buttons'
  BY <1>1
<1> QED
  BY <1>1, <1>2, <1>3 DEF Shows

LEMMA ListedKept ==
    ASSUME ChatTypeOK, ChatPlaced, InTime, Listed, ChatNext
    PROVE  Listed'
<1> USE Threads DEF Go, userData, lists, chat, asked, threads, history, counts
<1>0. /\ pc \in [Thread -> Steps] /\ turn \in [Thread -> Nat \ {0}]
      /\ built \in BOOLEAN /\ hasty \in BOOLEAN /\ loggingIn \in BOOLEAN /\ queued \in Nat
  BY DEF ChatTypeOK
<1>r. /\ Len(rooms) \in Nat /\ DOMAIN rooms = 1..Len(rooms)
      /\ \A i \in DOMAIN rooms : i \in Nat \ {0} /\ rooms[i].id \in Nat
  BY RoomsSound
<1>1. ASSUME NEW t \in Thread, Button(t) PROVE Listed'
  <2>1. CASE turn[t] \in DOMAIN rooms
    <3>1. /\ buttons' = Append(buttons, [index |-> turn[t], name |-> rooms[turn[t]].id])
          /\ pc[t] = "button" /\ pc' = pc /\ turn' = [turn EXCEPT ![t] = @ + 1]
          /\ UNCHANGED <<rooms, friends, built, queued, labels, hasty>>
      BY <1>0, <1>1, <2>1 DEF Button
    <3>2. [index |-> turn[t], name |-> rooms[turn[t]].id] \in AButton
      BY <1>r, <2>1 DEF AButton
    <3>3. \A i \in DOMAIN rooms : (Shows(i) \/ i = turn[t]) => Shows(i)'
      BY <3>1, <3>2, ShownStay
    <3>4. \A i \in DOMAIN rooms : Comes(i) => Comes(i)' \/ i = turn[t]
      <4> SUFFICES ASSUME NEW i \in DOMAIN rooms, NEW u \in Thread,
                          pc[u] = "button", turn[u] <= i, i # turn[t]
                   PROVE  pc'[u] = "button" /\ turn'[u] <= i
        BY DEF Comes
      <4> QED
        BY <1>0, <1>r, <3>1
    <3> QED
      BY <3>1, <3>3, <3>4 DEF Listed, ToTell
  <2>2. CASE turn[t] \notin DOMAIN rooms
    <3>1. /\ pc[t] = "button" /\ pc' = [pc EXCEPT ![t] = IF t = Gtk THEN "idle" ELSE "put"]
          /\ turn' = [turn EXCEPT ![t] = 1]
          /\ UNCHANGED <<rooms, friends, built, queued, labels, hasty, buttons>>
      BY <1>0, <1>1, <2>2 DEF Button
    <3>2. \A i \in DOMAIN rooms : Comes(i) => Comes(i)'
      <4> SUFFICES ASSUME NEW i \in DOMAIN rooms, NEW u \in Thread,
                          pc[u] = "button", turn[u] <= i
                   PROVE  pc'[u] = "button" /\ turn'[u] <= i
        BY DEF Comes
      <4>1. u # t
        BY <1>0, <1>r, <2>2
      <4> QED
        BY <1>0, <3>1, <4>1
    <3>3. pc'[Reader] = pc[Reader] \/ t = Reader
      BY <1>0, <3>1
    <3>4. /\ pc[Reader] = "friend" => pc'[Reader] = "friend"
          /\ \A i \in DOMAIN rooms : ToTell(i) => ToTell(i)'
      BY <3>1, <3>3 DEF ToTell
    <3>5. \A i \in DOMAIN rooms : Shows(i) => Shows(i)'
      BY <3>1 DEF Shows
    <3> QED
      BY <3>1, <3>2, <3>4, <3>5 DEF Listed
  <2> QED
    BY <2>1, <2>2
<1>2. CASE Refresh
  <2>1. CASE built
    <3>1. /\ pc' = [pc EXCEPT ![Gtk] = "button"] /\ turn' = [turn EXCEPT ![Gtk] = 1]
          /\ UNCHANGED <<rooms, friends, built, labels, hasty>>
      BY <1>2, <2>1 DEF Refresh
    <3>2. \A i \in DOMAIN rooms : Comes(i)'
      BY <1>0, <1>r, <3>1 DEF Comes
    <3>3. pc'[Reader] = pc[Reader]
      BY <1>0, <3>1
    <3> QED
      BY <3>1, <3>2, <3>3 DEF Listed
  <2> QED
    BY <1>2, <2>1 DEF Refresh, Listed
<1>3. CASE ReadRoom
  <2>1. built' /\ ~hasty' => ~loggingIn /\ ~hasty /\ built
    BY <1>0, <1>3 DEF ReadRoom, Arrives, ChatPlaced
  <2>2. /\ rooms' = Append(rooms, Blank) /\ pc[Reader] = "idle" /\ pc'[Reader] = "set"
        /\ \A t \in Thread : pc[t] = "button" => pc'[t] = "button"
        /\ UNCHANGED <<friends, labels, buttons, turn, queued>>
    BY <1>0, <1>3 DEF ReadRoom
  <2>3. /\ Len(rooms') = Len(rooms) + 1 /\ DOMAIN rooms' = 1..(Len(rooms) + 1)
        /\ \A i \in DOMAIN rooms : rooms'[i] = rooms[i]
    <3>1. rooms \in Seq(ARoom) /\ Blank \in ARoom
      BY DEF ChatTypeOK, Blank, ARoom, Nobody
    <3> QED
      BY <1>r, <2>2, <3>1, SeqAppended
  <2>4. \A i \in DOMAIN rooms : (Shows(i) => Shows(i)') /\ (Comes(i) => Comes(i)')
    BY <2>2, <2>3 DEF Shows, Comes
  <2>5. \A i \in DOMAIN rooms' : i \in DOMAIN rooms \/ ToTell(i)'
    BY <1>r, <2>2, <2>3 DEF ToTell
  <2>6. \A i \in DOMAIN rooms : ~ToTell(i)
    BY <2>2 DEF ToTell
  <2>7. \A i \in DOMAIN rooms' :
            built /\ ~hasty => Shows(i)' \/ Comes(i)' \/ ToTell(i)' \/ queued' > 0
    BY <2>2, <2>4, <2>5, <2>6 DEF Listed
  <2> QED
    BY <2>1, <2>2, <2>7 DEF Listed
<1>4. CASE SetRoom
  <2>1. rooms # <<>> /\ Len(rooms) \in DOMAIN rooms /\ rooms \in Seq(ARoom)
    BY <1>4, <1>r DEF SetRoom, ChatPlaced, ChatTypeOK
  <2>2. PICK amount \in 0..1 : rooms' = [rooms EXCEPT
            ![Len(rooms)] = [id |-> Len(rooms), amount |-> amount, msgs |-> <<>>]]
    BY <1>4 DEF SetRoom
  <2>3. [id |-> Len(rooms), amount |-> amount, msgs |-> <<>>] \in ARoom
    BY <1>r DEF ARoom
  <2>4. /\ Len(rooms') = Len(rooms) /\ DOMAIN rooms' = DOMAIN rooms
        /\ \A i \in DOMAIN rooms : i # Len(rooms) => rooms'[i] = rooms[i]
    BY <2>1, <2>2, <2>3, SeqReplaced
  <2>5. /\ pc[Reader] = "set" /\ pc'[Reader] = "tell"
        /\ \A t \in Thread : pc[t] = "button" => pc'[t] = "button"
        /\ UNCHANGED <<friends, labels, buttons, turn, queued, built, hasty>>
    BY <1>0, <1>4 DEF SetRoom
  <2>6. \A i \in DOMAIN rooms : i = Len(rooms) \/ (Shows(i) => Shows(i)')
    BY <2>4, <2>5 DEF Shows
  <2>7. \A i \in DOMAIN rooms : /\ Comes(i) => Comes(i)'
                                /\ i = Len(rooms) => ToTell(i)'
                                /\ ToTell(i) => i = Len(rooms)
    BY <2>4, <2>5 DEF Comes, ToTell
  <2> QED
    BY <2>4, <2>5, <2>6, <2>7 DEF Listed
<1>5. CASE TellRoom
  <2>1. /\ pc[Reader] = "tell" /\ (~loggingIn => queued' > 0)
        /\ UNCHANGED <<rooms, friends, labels, buttons, turn, built, hasty>>
    BY <1>0, <1>5 DEF TellRoom, Told, Answers
  <2>3. built /\ ~hasty => ~loggingIn
    BY <2>1 DEF InTime
  <2>2. built /\ ~hasty => queued' > 0 /\ labels = friends
    BY <2>1, <2>3 DEF Listed
  <2> QED
    BY <1>0, <1>5, <2>1, <2>2 DEF TellRoom, Listed
<1>6. CASE ReadFriend
  <2>1. /\ pc[Reader] = "idle" /\ pc'[Reader] = "friend"
        /\ \A t \in Thread : pc[t] = "button" => pc'[t] = "button"
        /\ UNCHANGED <<rooms, labels, buttons, turn, queued, built>> /\ (hasty => hasty')
    BY <1>0, <1>6 DEF ReadFriend, Arrives
  <2>2. \A i \in DOMAIN rooms : /\ (Shows(i) => Shows(i)') /\ (Comes(i) => Comes(i)')
                                /\ ~ToTell(i)
    BY <2>1 DEF Shows, Comes, ToTell
  <2>3. built /\ ~hasty => \A i \in DOMAIN rooms : Shows(i)' \/ Comes(i)' \/ queued' > 0
    BY <2>1, <2>2 DEF Listed
  <2> QED
    BY <2>1, <2>3 DEF Listed
<1>7. CASE TellFriend
  <2>1. /\ pc[Reader] = "friend"
        /\ \A t \in Thread : pc[t] = "button" => pc'[t] = "button"
        /\ UNCHANGED <<rooms, friends, buttons, turn, queued, built, hasty>>
        /\ ~loggingIn /\ built => labels' = friends
    BY <1>0, <1>7 DEF TellFriend, Answers
  <2>2. built /\ ~hasty => ~loggingIn
    BY <2>1 DEF InTime
  <2>3. \A i \in DOMAIN rooms : /\ (Shows(i) => Shows(i)') /\ (Comes(i) => Comes(i)')
                                /\ ~ToTell(i)
    BY <2>1 DEF Shows, Comes, ToTell
  <2>4. built /\ ~hasty => \A i \in DOMAIN rooms : Shows(i)' \/ Comes(i)' \/ queued' > 0
    BY <2>1, <2>3 DEF Listed
  <2> QED
    BY <2>1, <2>2, <2>4 DEF Listed
<1>8. CASE ShowChatWindow
  <2>1. /\ pc'[Reader] = "button" /\ turn'[Reader] = 1 /\ labels' = friends'
        /\ UNCHANGED rooms
    BY <1>0, <1>8 DEF ShowChatWindow
  <2>2. \A i \in DOMAIN rooms : Comes(i)'
    BY <1>r, <2>1 DEF Comes
  <2> QED
    BY <2>1, <2>2 DEF Listed
<1> QED
  BY <1>1, <1>2, <1>3, <1>4, <1>5, <1>6, <1>7, <1>8, ListedFrame, ListsKeptBy
     DEF ChatNext, MainStep, ReaderStep, Windows

-----------------------------------------------------------------------------
(* The open chat.                                                          *)

\* Nothing that shows a chat moves, and the history gets no cleaner.
ShowersStay ==
    /\ UNCHANGED <<current, header, box, crossed>> /\ (hasty => hasty')
    /\ \A t \in Thread : /\ Showing(t)' <=> Showing(t)
                         /\ Showing(t) => /\ pc'[t] = pc[t] /\ room'[t] = room[t]
                                          /\ turn'[t] = turn[t]

LEMMA ChatFrame ==
    ASSUME OpenChat, ShowersStay, rooms' = rooms, Stale => Stale'
    PROVE  OpenChat'
<1> SUFFICES ASSUME ~crossed' PROVE OpenChat'
  BY DEF OpenChat
<1>1. ~crossed
  BY DEF ShowersStay
<1>2. Titled' <=> Titled
  BY DEF ShowersStay, Titled
<1>3. \A n : Holds(n)' <=> Holds(n)
  BY DEF ShowersStay, Holds
<1>4. ASSUME NEW t \in Thread, Showing(t)'
      PROVE  /\ room'[t] = current' /\ \A u \in Thread : Showing(u)' => u = t
             /\ pc'[t] # "title" => Titled'
             /\ pc'[t] = "fill" /\ ~hasty' /\ ~Stale' =>
                    turn'[t] - 1 <= rooms'[current'].amount /\ Holds(turn[t] - 1)'
  <2>1. /\ Showing(t) /\ pc'[t] = pc[t] /\ room'[t] = room[t] /\ turn'[t] = turn[t]
        /\ \A u \in Thread : Showing(u)' => Showing(u)
        /\ current' = current /\ (hasty => hasty')
    BY <1>4 DEF ShowersStay
  <2>2. Holds(turn[t] - 1) => Holds(turn[t] - 1)'
    BY <2>1 DEF Holds, ShowersStay
  <2> QED
    BY <1>1, <1>2, <2>1, <2>2 DEF OpenChat
<1>5. ASSUME \A t \in Thread : ~Showing(t)'
      PROVE  /\ Titled'
             /\ ~hasty' /\ ~Stale' /\ header' # Nobody => Holds(rooms[current].amount)'
  <2>1. Holds(rooms[current].amount) => Holds(rooms[current].amount)'
    BY DEF Holds, ShowersStay
  <2> QED
    BY <1>1, <1>2, <1>5, <2>1 DEF OpenChat, ShowersStay
<1> QED
  BY <1>4, <1>5 DEF OpenChat

LEMMA ChatFrameBy ==
    ASSUME ChatTypeOK, ChatPlaced,
           \/ \E t \in Thread : Button(t)
           \/ Refresh \/ Windows \/ Answered \/ ReadFriend \/ ShowChatWindow
    PROVE  ShowersStay /\ rooms' = rooms /\ (Stale => Stale')
<1> USE Threads DEF Go, userData, lists, chat, asked, threads, history, counts
<1>0. /\ pc \in [Thread -> Steps] /\ turn \in [Thread -> Nat \ {0}]
      /\ room \in [Thread -> Nat] /\ hasty \in BOOLEAN
  BY DEF ChatTypeOK
<1>1. ASSUME NEW t \in Thread, Button(t) PROVE ShowersStay /\ rooms' = rooms /\ (Stale => Stale')
  <2>1. /\ pc[t] = "button" /\ \E to \in {"button", "idle", "put"} : pc' = [pc EXCEPT ![t] = to]
        /\ \E n \in Nat : turn' = [turn EXCEPT ![t] = n]
        /\ UNCHANGED <<rooms, current, header, box, crossed, hasty, room, loggingIn>>
    BY <1>0, <1>1 DEF Button
  <2> QED
    BY <1>0, <2>1 DEF ShowersStay, Showing, Stale
<1>2. CASE Refresh
  BY <1>0, <1>2 DEF Refresh, ShowersStay, Showing, Stale
<1>3. CASE Windows
  BY <1>0, <1>3 DEF Windows, CreateAccountButton, BackToLoginButton, LogInDialog, SendDialog,
     ClickSend, ShowersStay, Showing, Stale
<1>4. CASE Answered
  BY <1>0, <1>4 DEF Answered, SettleSend, TellRoom, TellFriend, ShowersStay, Showing, Stale
<1>5. CASE ReadFriend
  BY <1>0, <1>5 DEF ReadFriend, Arrives, ShowersStay, Showing, Stale
<1>6. CASE ShowChatWindow
  BY <1>0, <1>6 DEF ShowChatWindow, ShowersStay, Showing, Stale
<1> QED
  BY <1>1, <1>2, <1>3, <1>4, <1>5, <1>6

\* What becomes of the open chat when a packet changes the rooms.
LEMMA RoomsChange ==
    ASSUME ChatTypeOK, ChatPlaced, OpenChat, ShowersStay,
           \A i \in DOMAIN rooms : i \in DOMAIN rooms' /\ rooms'[i].id = rooms[i].id,
           \/ hasty' \/ Stale' \/ ~built
           \/ ~Stale /\ \A i \in DOMAIN rooms : rooms'[i] = rooms[i]
    PROVE  OpenChat'
<1> SUFFICES ASSUME ~crossed' PROVE OpenChat'
  BY DEF OpenChat
<1>1. /\ ~crossed /\ UNCHANGED <<current, header, box>> /\ (hasty => hasty')
  BY DEF ShowersStay
<1>2. Titled => Titled'
  BY <1>1 DEF Titled
<1>3. ~built => header' = Nobody /\ \A t \in Thread : ~Showing(t)'
  BY <1>1 DEF ShowersStay, ChatPlaced
<1>4. ASSUME NEW t \in Thread, Showing(t)'
      PROVE  /\ room'[t] = current' /\ \A u \in Thread : Showing(u)' => u = t
             /\ pc'[t] # "title" => Titled'
             /\ pc'[t] = "fill" /\ ~hasty' /\ ~Stale' =>
                    turn'[t] - 1 <= rooms'[current'].amount /\ Holds(turn[t] - 1)'
  <2>1. /\ Showing(t) /\ pc'[t] = pc[t] /\ room'[t] = room[t] /\ turn'[t] = turn[t]
        /\ \A u \in Thread : Showing(u)' => Showing(u)
    BY <1>4 DEF ShowersStay
  <2>2. room[t] = current /\ current \in DOMAIN rooms
    BY <1>1, <2>1 DEF OpenChat, ChatPlaced
  <2>3. /\ \A u \in Thread : Showing(u) => u = t
        /\ pc[t] # "title" => Titled
        /\ pc[t] = "fill" /\ ~hasty /\ ~Stale =>
               turn[t] - 1 <= rooms[current].amount /\ Holds(turn[t] - 1)
    BY <1>1, <2>1 DEF OpenChat
  <2>4. ~hasty' /\ ~Stale' => ~Stale /\ rooms'[current] = rooms[current]
    BY <1>3, <1>4, <2>2
  <2>5. rooms'[current] = rooms[current] /\ Holds(turn[t] - 1) => Holds(turn[t] - 1)'
    BY <1>1, <2>1 DEF Holds
  <2> QED
    BY <1>1, <1>2, <2>1, <2>2, <2>3, <2>4, <2>5
<1>5. ASSUME \A t \in Thread : ~Showing(t)'
      PROVE  /\ Titled'
             /\ ~hasty' /\ ~Stale' /\ header' # Nobody => Holds(rooms[current].amount)'
  <2>1. \A t \in Thread : ~Showing(t)
    BY <1>5 DEF ShowersStay
  <2>2. Titled /\ (~hasty /\ ~Stale /\ header # Nobody => Holds(rooms[current].amount))
    BY <1>1, <2>1 DEF OpenChat
  <2>3. ASSUME ~hasty', ~Stale', header' # Nobody PROVE Holds(rooms[current].amount)'
    <3>1. ~Stale /\ rooms'[current] = rooms[current]
      BY <1>1, <1>3, <2>2, <2>3 DEF Titled
    <3> QED
      BY <1>1, <2>2, <2>3, <3>1 DEF Holds
  <2> QED
    BY <1>2, <2>2, <2>3
<1> QED
  BY <1>4, <1>5 DEF OpenChat

LEMMA SetRoomChat ==
    ASSUME ChatTypeOK, ChatPlaced, OpenChat, SetRoom
    PROVE  OpenChat'
<1> USE Threads DEF Go, userData, lists, chat, asked, threads, history, counts
<1>0. /\ pc \in [Thread -> Steps] /\ turn \in [Thread -> Nat \ {0}]
      /\ room \in [Thread -> Nat] /\ hasty \in BOOLEAN /\ box \in Seq(Nat)
  BY DEF ChatTypeOK
<1> SUFFICES ASSUME ~crossed' PROVE OpenChat'
  BY DEF OpenChat
<1>1. /\ rooms # <<>> /\ Len(rooms) \in DOMAIN rooms /\ rooms[Len(rooms)] = Blank
      /\ rooms \in Seq(ARoom) /\ DOMAIN rooms = 1..Len(rooms) /\ Len(rooms) \in Nat
  BY RoomsSound DEF SetRoom, ChatPlaced, ChatTypeOK
<1>2. PICK amount \in 0..1 : rooms' = [rooms EXCEPT
          ![Len(rooms)] = [id |-> Len(rooms), amount |-> amount, msgs |-> <<>>]]
  BY DEF SetRoom
<1>3. /\ DOMAIN rooms' = DOMAIN rooms
      /\ \A i \in DOMAIN rooms : i # Len(rooms) => rooms'[i] = rooms[i]
      /\ rooms'[Len(rooms)].amount = amount
  BY <1>1, <1>2
<1>4. /\ pc[Reader] = "set" /\ pc' = [pc EXCEPT ![Reader] = "tell"]
      /\ UNCHANGED <<current, header, box, crossed, hasty, room, turn>>
      /\ ~Stale /\ ~Stale'
  BY <1>0 DEF SetRoom, Stale
<1>5. \A t \in Thread : /\ Showing(t)' <=> Showing(t)
                        /\ Showing(t) => pc'[t] = pc[t]
  BY <1>0, <1>4 DEF Showing
<1>6. Titled /\ current = Len(rooms) => header = Nobody
  BY <1>1 DEF Titled, Blank
<1>7. Titled => Titled'
  BY <1>3, <1>4, <1>6 DEF Titled
<1>8. ASSUME NEW t \in Thread, Showing(t)'
      PROVE  /\ room'[t] = current' /\ \A u \in Thread : Showing(u)' => u = t
             /\ pc'[t] # "title" => Titled'
             /\ pc'[t] = "fill" /\ ~hasty' /\ ~Stale' =>
                    turn'[t] - 1 <= rooms'[current'].amount /\ Holds(turn[t] - 1)'
  <2>1. /\ room[t] = current /\ current \in DOMAIN rooms
        /\ \A u \in Thread : Showing(u) => u = t
        /\ pc[t] # "title" => Titled
        /\ pc[t] = "fill" /\ ~hasty =>
               turn[t] - 1 <= rooms[current].amount /\ Holds(turn[t] - 1)
    BY <1>4, <1>5, <1>8 DEF OpenChat, ChatPlaced
  <2>2. CASE current = Len(rooms)
    <3>1. turn[t] \in Nat \ {0} /\ rooms[current].amount = 0
      BY <1>0, <1>1, <2>2 DEF Blank
    <3>2. pc[t] = "fill" /\ ~hasty => turn[t] - 1 = 0 /\ Len(box) = 0
      BY <2>1, <3>1 DEF Holds
    <3>3. pc[t] = "fill" /\ ~hasty =>
              turn'[t] - 1 <= rooms'[current'].amount /\ Holds(turn[t] - 1)'
      BY <1>2, <1>3, <1>4, <2>2, <3>2 DEF Holds
    <3> QED
      BY <1>4, <1>5, <1>7, <1>8, <2>1, <3>3
  <2>3. CASE current # Len(rooms)
    <3>1. rooms'[current] = rooms[current]
      BY <1>3, <2>1, <2>3
    <3>2. Holds(turn[t] - 1) => Holds(turn[t] - 1)'
      BY <1>4, <3>1 DEF Holds
    <3> QED
      BY <1>4, <1>5, <1>7, <1>8, <2>1, <3>1, <3>2
  <2> QED
    BY <2>2, <2>3
<1>9. ASSUME \A t \in Thread : ~Showing(t)'
      PROVE  /\ Titled'
             /\ ~hasty' /\ ~Stale' /\ header' # Nobody => Holds(rooms[current].amount)'
  <2>1. /\ Titled
        /\ ~hasty /\ header # Nobody => Holds(rooms[current].amount)
    BY <1>4, <1>5, <1>9 DEF OpenChat
  <2>2. header # Nobody => current \in DOMAIN rooms /\ rooms'[current] = rooms[current]
    BY <1>3, <1>6, <2>1 DEF Titled
  <2> QED
    BY <1>4, <1>7, <2>1, <2>2 DEF Holds
<1> QED
  BY <1>8, <1>9 DEF OpenChat

LEMMA PacketsChat ==
    ASSUME ChatTypeOK, ChatPlaced, OpenChat, ReadRoom \/ ReadMessage \/ StoreMessage
    PROVE  OpenChat'
<1> USE Threads DEF Go, userData, lists, chat, asked, threads, history, counts
<1>0. /\ pc \in [Thread -> Steps] /\ room \in [Thread -> Nat] /\ built \in BOOLEAN
      /\ hasty \in BOOLEAN /\ loggingIn \in BOOLEAN
  BY DEF ChatTypeOK
<1>1. CASE ReadRoom
  <2>1. rooms \in Seq(ARoom) /\ Blank \in ARoom
    BY DEF ChatTypeOK, Blank, ARoom, Nobody
  <2>2. \A i \in DOMAIN rooms : i \in DOMAIN rooms' /\ rooms'[i] = rooms[i]
    BY <1>1, <2>1, RoomsSound, SeqAppended DEF ReadRoom
  <2>3. ShowersStay /\ ~Stale
    BY <1>0, <1>1 DEF ReadRoom, Arrives, ShowersStay, Showing, Stale
  <2> QED
    BY <2>2, <2>3, RoomsChange
<1>2. CASE ReadMessage
  <2>1. /\ DOMAIN rooms' = DOMAIN rooms /\ \A k \in DOMAIN rooms : rooms'[k].id = rooms[k].id
    BY <1>2, ListsKeptBy DEF ListsKept
  <2>2. /\ pc[Reader] = "idle" /\ pc'[Reader] \in {"show", "store"}
        /\ \A t \in Thread \ {Reader} : pc'[t] = pc[t] /\ room'[t] = room[t]
    BY <1>0, <1>2 DEF ReadMessage
  <2>3. ShowersStay
    BY <1>2, <2>2 DEF ReadMessage, Arrives, ShowersStay, Showing
  <2>4. hasty' \/ Stale' \/ ~built
    BY <1>0, <1>2, <2>2 DEF ReadMessage, Arrives, Stale, ChatPlaced
  <2> QED
    BY <2>1, <2>3, <2>4, RoomsChange
<1>3. CASE StoreMessage
  <2>1. /\ DOMAIN rooms' = DOMAIN rooms /\ \A k \in DOMAIN rooms : rooms'[k].id = rooms[k].id
    BY <1>3, ListsKeptBy DEF ListsKept
  <2>2. ShowersStay /\ Stale'
    BY <1>0, <1>3 DEF StoreMessage, ShowersStay, Showing, Stale, ChatPlaced
  <2> QED
    BY <2>1, <2>2, RoomsChange
<1> QED
  BY <1>1, <1>2, <1>3

\* Whoever shows a chat alone shows the current one.
LEMMA ShowChat ==
    ASSUME ChatTypeOK, ChatPlaced, OpenChat, NEW t \in Thread, Show(t)
    PROVE  OpenChat'
<1> USE Threads DEF Go, userData, lists, chat, asked, threads, history, counts
<1>0. /\ pc \in [Thread -> Steps] /\ turn \in [Thread -> Nat \ {0}] /\ box \in Seq(Nat)
  BY DEF ChatTypeOK
<1> SUFFICES ASSUME ~crossed' PROVE OpenChat'
  BY DEF OpenChat
<1>1. /\ UNCHANGED <<rooms, current, room, hasty, loggingIn, crossed>>
      /\ pc[t] \in {"title", "clear", "fill"}
      /\ \E to \in {"clear", "fill", Shown(t)} : pc' = [pc EXCEPT ![t] = to]
  <2>1. CASE Title(t)
    BY <2>1 DEF Title
  <2>2. CASE ClearChat(t)
    BY <2>2 DEF ClearChat
  <2>3. CASE Fill(t)
    BY <1>0, <2>3 DEF Fill
  <2> QED
    BY <2>1, <2>2, <2>3 DEF Show
<1>2. /\ room[t] = current /\ current \in DOMAIN rooms
      /\ \A u \in Thread : Showing(u) => u = t
      /\ pc[t] # "title" => Titled
      /\ pc[t] = "fill" /\ ~hasty /\ ~Stale =>
             turn[t] - 1 <= rooms[current].amount /\ Holds(turn[t] - 1)
  BY <1>1 DEF OpenChat, ChatPlaced, Showing
<1>3. \A u \in Thread : Showing(u)' => u = t
  BY <1>0, <1>1, <1>2 DEF Showing
<1>4. ~Stale' => ~Stale
  BY <1>0, <1>1 DEF Stale
<1>5. rooms[current].amount \in Nat
  BY <1>2, RoomsSound
<1>6. CASE Title(t)
  <2>1. pc'[t] = "clear" /\ header' = rooms[current].id
    BY <1>0, <1>2, <1>6 DEF Title
  <2> QED
    BY <1>1, <1>2, <1>3, <2>1 DEF OpenChat, Titled, Showing
<1>7. CASE ClearChat(t)
  <2>1. pc[t] = "clear" /\ pc'[t] = "fill" /\ turn'[t] = 1 /\ Len(box') = 0 /\ header' = header
    BY <1>0, <1>7 DEF ClearChat, NoMessages
  <2>2. Titled' /\ Holds(0)'
    BY <1>1, <1>2, <2>1 DEF Titled, Holds
  <2>3. turn'[t] - 1 = 0 /\ 0 <= rooms'[current'].amount
    BY <1>1, <1>5, <2>1
  <2> QED
    BY <1>1, <1>2, <1>3, <2>1, <2>2, <2>3 DEF OpenChat, Showing
<1>8. CASE Fill(t) /\ pc'[t] = "fill"
  <2>1. /\ pc[t] = "fill" /\ turn[t] <= rooms[current].amount /\ turn'[t] = turn[t] + 1
        /\ box' = Append(box, Entry(rooms[current], turn[t])) /\ header' = header
    BY <1>0, <1>2, <1>8 DEF Fill, Shown
  <2>2. Titled'
    BY <1>1, <1>2, <2>1 DEF Titled
  <2>5. PICK n \in Nat : n = turn[t]
    BY <1>0
  <2>3. ASSUME ~hasty', ~Stale' PROVE Holds(n)'
    <3>1. Holds(turn[t] - 1) /\ turn[t] \in Nat \ {0}
      BY <1>0, <1>1, <1>2, <1>4, <2>1, <2>3
    <3>2. /\ Len(box) = turn[t] - 1
          /\ \A k \in 1..(turn[t] - 1) : box[k] = Entry(rooms[current], k)
      BY <3>1 DEF Holds
    <3>3. /\ Len(box') = turn[t] /\ box'[turn[t]] = Entry(rooms[current], turn[t])
          /\ \A k \in 1..(turn[t] - 1) : box'[k] = box[k]
      <4>1. Entry(rooms[current], turn[t]) \in Nat
        BY <1>2, <3>1, RoomsSound DEF Entry, Garbage
      <4>2. /\ Len(box') = Len(box) + 1 /\ box'[Len(box) + 1] = Entry(rooms[current], turn[t])
            /\ \A k \in 1..Len(box) : box'[k] = box[k]
        BY <1>0, <2>1, <4>1, SeqAppended
      <4>3. Len(box) + 1 = turn[t]
        BY <3>1, <3>2
      <4> QED
        BY <3>2, <4>2, <4>3
    <3>4. \A k \in 1..turn[t] : k = turn[t] \/ k \in 1..(turn[t] - 1)
      BY <3>1
    <3>5. \A k \in 1..turn[t] : box'[k] = Entry(rooms[current], k)
      BY <3>2, <3>3, <3>4
    <3> QED
      BY <1>1, <2>5, <3>3, <3>5 DEF Holds
  <2>4. turn'[t] - 1 = n
    BY <1>0, <2>1, <2>5
  <2> QED
    BY <1>1, <1>2, <1>3, <1>8, <2>1, <2>2, <2>3, <2>4, <2>5 DEF OpenChat, Showing
<1>9. CASE Fill(t) /\ pc'[t] # "fill"
  <2>1. /\ pc[t] = "fill" /\ turn[t] > rooms[current].amount
        /\ box' = box /\ header' = header /\ pc'[t] = Shown(t)
    BY <1>0, <1>2, <1>9 DEF Fill
  <2>2. Titled'
    BY <1>1, <1>2, <2>1 DEF Titled
  <2>3. ASSUME ~hasty', ~Stale' PROVE Holds(rooms[current].amount)'
    <3>1. Holds(turn[t] - 1) /\ turn[t] - 1 <= rooms[current].amount
      BY <1>1, <1>2, <1>4, <2>1, <2>3
    <3>2. turn[t] - 1 = rooms[current].amount
      BY <1>0, <1>5, <2>1, <3>1
    <3> QED
      BY <1>1, <2>1, <3>1, <3>2 DEF Holds
  <2>4. ~Showing(t)'
    BY <2>1 DEF Showing
  <2> QED
    BY <1>1, <1>3, <2>2, <2>3, <2>4 DEF OpenChat
<1> QED
  BY <1>6, <1>7, <1>8, <1>9 DEF Show

\* A chat that is opened, by a click or again, is the only one that is shown.
LEMMA OpensChat ==
    ASSUME ChatTypeOK, NEW t \in Thread, NEW i \in DOMAIN rooms, NEW from \in Steps,
           Opens(t, i, from), UNCHANGED rooms
    PROVE  OpenChat'
<1>0. pc \in [Thread -> Steps] /\ room \in [Thread -> Nat]
  BY DEF ChatTypeOK
<1> SUFFICES ASSUME ~crossed' PROVE OpenChat'
  BY DEF OpenChat
<1>1. /\ pc' = [pc EXCEPT ![t] = "title"] /\ room' = [room EXCEPT ![t] = i]
      /\ current' = i /\ \A u \in Thread : ~Showing(u)
  BY DEF Opens
<1>2. \A u \in Thread : Showing(u)' => u = t
  BY <1>0, <1>1 DEF Showing
<1>3. pc'[t] = "title" /\ room'[t] = current' /\ Showing(t)'
  BY <1>0, <1>1 DEF Showing
<1> QED
  BY <1>2, <1>3 DEF OpenChat

LEMMA ClickChat ==
    ASSUME ChatTypeOK, ChatPlaced, OpenChat, NEW b \in DOMAIN buttons, ClickRoom(b)
    PROVE  OpenChat'
<1>1. CASE buttons[b].index \in DOMAIN rooms
  BY <1>1, OpensChat, Threads DEF ClickRoom, Steps, userData
<1>2. CASE buttons[b].index \notin DOMAIN rooms
  <2>1. pc' = pc /\ UNCHANGED <<room, current, crossed, rooms, header, box, turn, hasty, loggingIn>>
    BY <1>2, Threads DEF ClickRoom, Opens, Shown, ChatTypeOK, userData, asked
  <2> QED
    BY <2>1, ChatFrame DEF ShowersStay, Showing, Stale
<1> QED
  BY <1>1, <1>2

LEMMA RefreshedChat ==
    ASSUME ChatTypeOK, ChatPlaced, OpenChat, RefreshChat
    PROVE  OpenChat'
<1> USE Threads DEF Go, userData, lists, chat, asked, threads, history, counts
<1>0. pc \in [Thread -> Steps] /\ room \in [Thread -> Nat] /\ loggingIn \in BOOLEAN
  BY DEF ChatTypeOK
<1>1. CASE loggingIn
  <2>1. /\ pc[Reader] = "show" /\ pc' = [pc EXCEPT ![Reader] = "idle"] /\ rooms' = rooms
        /\ UNCHANGED <<room, current, crossed, header, box, turn, hasty, loggingIn>>
    BY <1>0, <1>1 DEF RefreshChat
  <2> QED
    BY <1>0, <1>1, <2>1, ChatFrame DEF ShowersStay, Showing, Stale
<1>2. CASE ~loggingIn /\ current \in DOMAIN rooms
  BY <1>2, OpensChat DEF RefreshChat, ToRefresh, Steps
<1>3. CASE ~loggingIn /\ current \notin DOMAIN rooms
  <2>1. /\ pc' = [pc EXCEPT ![Reader] = "settle"] /\ pc[Reader] = "show"
        /\ UNCHANGED <<rooms, room, current, crossed, header>>
    BY <1>0, <1>3 DEF RefreshChat, Opens, ToRefresh, Shown
  <2>2. ASSUME ~crossed PROVE /\ \A t \in Thread : ~Showing(t)
                              /\ header = Nobody
    BY <1>3, <2>2 DEF OpenChat, ChatPlaced, Titled
  <2>3. ~crossed => \A t \in Thread : ~Showing(t)'
    BY <1>0, <2>1, <2>2 DEF Showing
  <2> QED
    BY <2>1, <2>2, <2>3 DEF OpenChat, Titled
<1> QED
  BY <1>1, <1>2, <1>3

LEMMA PutChat ==
    ASSUME ChatTypeOK, ChatPlaced, OpenChat, PutWindow
    PROVE  OpenChat'
<1>0. pc \in [Thread -> Steps]
  BY DEF ChatTypeOK
<1> SUFFICES ASSUME ~crossed' PROVE OpenChat'
  BY DEF OpenChat
<1>1. /\ ~Showing(Gtk) /\ pc[Reader] = "put" /\ pc' = [pc EXCEPT ![Reader] = "idle"]
      /\ header' = Nobody
  BY <1>0, Threads DEF PutWindow, Go
<1>2. \A t \in Thread : ~Showing(t)'
  BY <1>0, <1>1, Threads DEF Showing, Thread
<1> QED
  BY <1>1, <1>2 DEF OpenChat, Titled

-----------------------------------------------------------------------------
(* The theorems.                                                           *)

LEMMA ChatInitInvariant == ChatInit => ChatInv
<1> SUFFICES ASSUME ChatInit PROVE ChatInv
  OBVIOUS
<1>1. ChatTypeOK
  <2>1. <<>> \in Seq(ARoom) /\ <<>> \in Seq(AButton) /\ <<>> \in Seq(Nat)
    OBVIOUS
  <2>2. /\ pc \in [Thread -> Steps] /\ room \in [Thread -> Nat]
        /\ turn \in [Thread -> Nat \ {0}]
    BY DEF ChatInit, Nobody, Steps
  <2> QED
    BY <2>1, <2>2 DEF ChatInit, ChatTypeOK, Nobody
<1>2. \A t \in Thread : pc[t] = "idle"
  BY DEF ChatInit
<1>3. ChatPlaced /\ InTime /\ Opened /\ Listed
  BY <1>2, Threads DEF ChatInit, ChatPlaced, InTime, Opened, Listed, Showing
<1>4. OpenChat
  BY <1>2 DEF ChatInit, OpenChat, Titled, Showing
<1> QED
  BY <1>1, <1>3, <1>4 DEF ChatInv

LEMMA ChatNextInvariant == ChatInv /\ [ChatNext]_chatVars => ChatInv'
<1> SUFFICES ASSUME ChatInv, [ChatNext]_chatVars PROVE ChatInv'
  OBVIOUS
<1>1. CASE ChatNext
  <2>1. ChatTypeOK' /\ ChatPlaced' /\ Opened' /\ InTime' /\ Listed'
    BY <1>1, ChatTypeKept, ChatPlacedKept, OpenedKept, InTimeKept, ListedKept DEF ChatInv
  <2>2. OpenChat'
    <3>1. CASE \/ \E t \in Thread : Button(t)
               \/ Refresh \/ Windows \/ Answered \/ ReadFriend \/ ShowChatWindow
      BY <3>1, ChatFrameBy, ChatFrame DEF ChatInv
    <3>2. CASE ReadRoom \/ ReadMessage \/ StoreMessage \/ SetRoom
      BY <3>2, PacketsChat, SetRoomChat DEF ChatInv
    <3>3. CASE \E t \in Thread : Show(t)
      BY <3>3, ShowChat DEF ChatInv
    <3>4. CASE RefreshChat \/ PutWindow \/ \E b \in DOMAIN buttons : ClickRoom(b)
      BY <3>4, ClickChat, RefreshedChat, PutChat DEF ChatInv
    <3> QED
      BY <1>1, <3>1, <3>2, <3>3, <3>4 DEF ChatNext, MainStep, ReaderStep, Windows, Answered
  <2> QED
    BY <2>1, <2>2 DEF ChatInv
<1>2. CASE UNCHANGED chatVars
  <2> USE DEF chatVars, userData, lists, chat, asked, threads, history, counts
  <2>1. ChatTypeOK' /\ ChatPlaced'
    BY <1>2 DEF ChatInv, ChatTypeOK, ChatPlaced, Showing
  <2>2. InTime' /\ Opened'
    BY <1>2 DEF ChatInv, InTime, Opened
  <2>3. Listed'
    BY <1>2, ListedFrame DEF ChatInv, ListsKept
  <2>4. OpenChat'
    BY <1>2, ChatFrame DEF ChatInv, ShowersStay, Showing, Stale
  <2> QED
    BY <2>1, <2>2, <2>3, <2>4 DEF ChatInv
<1> QED
  BY <1>1, <1>2

\* The invariant of the chat window, for any number of rooms, packets and clicks.
THEOREM ChatInvariance == ChatSpec => []ChatInv
  BY ChatInitInvariant, ChatNextInvariant, PTL DEF ChatSpec

\* Both threads set current_room_index without a lock, yet every message of the
\* user goes to a room that he has opened.
THEOREM MessagesGoWhereOpened == ChatSpec => []SentToOpenedRooms
<1>1. ChatInv => SentToOpenedRooms
  BY DEF ChatInv, Opened, SentToOpenedRooms
<1> QED
  BY <1>1, ChatInvariance, PTL

\* When no thread and no callback is under way, every friend has a label and every
\* room a button with its name, although both threads make them.
THEOREM WindowListsAll == ChatSpec => []ListsAreComplete
<1>1. ChatInv => ListsAreComplete
  <2> SUFFICES ASSUME ChatInv, Usual, queued = 0 PROVE ListsAreComplete
    BY DEF ListsAreComplete
  <2>1. built /\ ~hasty /\ \A t \in Thread : pc[t] = "idle"
    BY DEF ChatInv, ChatPlaced, Usual, AtRest
  <2> QED
    BY <2>1, Threads DEF ChatInv, Listed, ListsAreComplete, Shows, Comes, ToTell
<1> QED
  BY <1>1, ChatInvariance, PTL

\* The open chat is its room in user_data, name and messages, unless both threads
\* were changing it at once or a packet came before the log-in's dialog.
THEOREM OpenChatStaysCurrent == ChatSpec => []OpenChatIsCurrent
<1>1. ChatInv => OpenChatIsCurrent
  <2> SUFFICES ASSUME ChatInv, Usual, ~crossed, header # Nobody PROVE OpenChatIsCurrent
    BY DEF OpenChatIsCurrent
  <2>1. ~hasty /\ ~Stale /\ \A t \in Thread : ~Showing(t)
    BY Threads DEF Usual, AtRest, Showing, Stale
  <2>2. Titled /\ Holds(rooms[current].amount)
    BY <2>1 DEF ChatInv, OpenChat
  <2>3. current \in DOMAIN rooms /\ header = rooms[current].id /\ rooms[current].amount \in Nat
    BY <2>2, RoomsSound DEF ChatInv, Titled
  <2>4. box \in Seq(Nat)
    BY DEF ChatInv, ChatTypeOK
  <2>5. box = [k \in 1..rooms[current].amount |-> Entry(rooms[current], k)]
    BY <2>2, <2>3, <2>4 DEF Holds
  <2> QED
    BY <2>3, <2>5 DEF OpenChatIsCurrent
<1> QED
  BY <1>1, ChatInvariance, PTL
=============================================================================
