----------------------------- MODULE ChatWindow -----------------------------
(***************************************************************************)
(* The client's windows and the data they show (gui/app.c, gui/login.c,    *)
(* gui/creation.c, user_app.c).  GTK's main thread handles clicks and idle *)
(* callbacks; the reader thread stores what the server sends in user_data  *)
(* and calls the same functions to show it, without a lock.  Labels and    *)
(* buttons are named by the room they stand for.  A step is one call that  *)
(* changes a widget or one access to user_data.  How requests end is in    *)
(* Requests, which packets come is in LoginTransfer.                       *)
(***************************************************************************)
EXTENDS Integers, Sequences

CONSTANTS MaxRooms,  \* bound: rooms the server sends
          MaxNews,   \* bound: rooms, messages and friends it sends, in all
          MaxClicks, \* bound: rooms opened
          MaxSends   \* bound: messages the user sends

ASSUME BoundsAssumption == {MaxRooms, MaxNews, MaxClicks, MaxSends} \subseteq Nat

Gtk    == "main"
Reader == "reader"
Thread == {Gtk, Reader}
Nobody == 0                  \* no room: an empty label, the index -1

VARIABLES
    \* user_data
    rooms,    \* [id, amount, msgs]: msg_amount, and what was written to messages
    friends,  \* friend_amount
    \* widgets
    window,   \* "login", "create", "chat", or "none" while the chat's is made
    built,    \* the boxes of the chat window exist
    labels,   \* friends_list_box
    buttons,  \* chats_list_box: [index, name]
    current,  \* current_room_index
    header,   \* chat_name_label
    box,      \* chat_messages_box
    \* requests and callbacks
    loggingIn, sending,
    queued,   \* calls of refresh_chats_list that g_idle_add has queued
    \* threads
    pc, room, turn,
    \* what happened
    sentTo,   \* entries of rooms the user's messages went to
    opened,   \* entries of rooms whose buttons he clicked
    crossed,  \* the two threads were changing the open chat at once
    hasty,    \* a packet came between the chat window and the log-in's dialog
    clicks, news, sends

userData == <<rooms, friends>>
lists    == <<labels, buttons>>
chat     == <<current, header, box>>
asked    == <<loggingIn, sending>>
threads  == <<pc, room, turn>>
history  == <<sentTo, opened, crossed, hasty>>
counts   == <<clicks, news, sends>>
chatVars == <<userData, window, built, lists, chat, asked, queued, threads, history, counts>>

Garbage == 0      \* an entry of messages that nobody has written

ChatInit ==
    /\ rooms = <<>> /\ friends = 0
    /\ window = "login" /\ built = FALSE
    /\ labels = 0 /\ buttons = <<>>
    /\ current = Nobody /\ header = Nobody /\ box = <<>>
    /\ loggingIn = TRUE /\ sending = FALSE
    /\ queued = 0
    /\ pc = [t \in Thread |-> "idle"]
    /\ room = [t \in Thread |-> Nobody]
    /\ turn = [t \in Thread |-> 1]
    /\ sentTo = {} /\ opened = {}
    /\ crossed = FALSE /\ hasty = FALSE
    /\ clicks = 0 /\ news = 0 /\ sends = 0

Go(t, from, to) == pc[t] = from /\ pc' = [pc EXCEPT ![t] = to]

Showing(t) == pc[t] \in {"title", "clear", "fill"}

Blank == [id |-> Nobody, amount |-> 0, msgs |-> <<>>]

-----------------------------------------------------------------------------
(* show_chat_with_room, by either thread *)

\* After it the main thread is done, and the reader goes on.
Shown(t) == IF t = Reader THEN "settle" ELSE "idle"

Opens(t, i, from) ==
    /\ pc[t] = from
    /\ IF i \in DOMAIN rooms
       THEN /\ pc' = [pc EXCEPT ![t] = "title"]
            /\ room' = [room EXCEPT ![t] = i]
            /\ current' = i
            /\ crossed' = (crossed \/ \E u \in Thread : Showing(u))
       ELSE /\ pc' = [pc EXCEPT ![t] = Shown(t)]
            /\ UNCHANGED <<room, current, crossed>>

Title(t) ==
    /\ Go(t, "title", "clear")
    /\ header' = rooms[room[t]].id
    /\ UNCHANGED <<userData, window, built, lists, current, box, asked, queued, room, turn,
                   history, counts>>

\* Fault: the messages of the other chat stay.
Uncleared == box

NoMessages == <<>>

ClearChat(t) ==
    /\ Go(t, "clear", "fill")
    /\ box' = NoMessages
    /\ turn' = [turn EXCEPT ![t] = 1]
    /\ UNCHANGED <<userData, window, built, lists, current, header, asked, queued, room,
                   history, counts>>

Entry(r, k) == IF k <= Len(r.msgs) THEN r.msgs[k] ELSE Garbage

\* The loop asks for msg_amount in every turn.
Fill(t) ==
    /\ \/ /\ Go(t, "fill", "fill")
          /\ turn[t] <= rooms[room[t]].amount
          /\ box' = Append(box, Entry(rooms[room[t]], turn[t]))
          /\ turn' = [turn EXCEPT ![t] = @ + 1]
       \/ /\ Go(t, "fill", Shown(t))
          /\ turn[t] > rooms[room[t]].amount
          /\ turn' = [turn EXCEPT ![t] = 1]
          /\ UNCHANGED box
    /\ UNCHANGED <<userData, window, built, lists, current, header, asked, queued, room,
                   history, counts>>

Show(t) == Title(t) \/ ClearChat(t) \/ Fill(t)

-----------------------------------------------------------------------------
(* The buttons of the chats: refresh_chats_list and show_chat_window *)

\* The loop asks for room_amount in every turn.
Button(t) ==
    /\ IF turn[t] \in DOMAIN rooms
       THEN /\ Go(t, "button", "button")
            /\ buttons' = Append(buttons, [index |-> turn[t], name |-> rooms[turn[t]].id])
            /\ turn' = [turn EXCEPT ![t] = @ + 1]
       ELSE /\ Go(t, "button", IF t = Gtk THEN "idle" ELSE "put")
            /\ turn' = [turn EXCEPT ![t] = 1]
            /\ UNCHANGED buttons
    /\ UNCHANGED <<userData, window, built, labels, chat, asked, queued, room, history, counts>>

\* refresh_chats_list as an idle callback.  It returns nothing, so that what
\* GLib takes for its result may keep it queued.
Refresh ==
    /\ queued > 0
    /\ IF built
       THEN /\ Go(Gtk, "idle", "button")
            /\ buttons' = <<>>
            /\ turn' = [turn EXCEPT ![Gtk] = 1]
       ELSE pc[Gtk] = "idle" /\ UNCHANGED <<pc, buttons, turn>>
    /\ queued' \in {queued, queued - 1}
    /\ UNCHANGED <<userData, window, built, labels, chat, asked, room, history, counts>>

-----------------------------------------------------------------------------
(* The main thread *)

\* on_create_account_button
CreateAccountButton ==
    /\ pc[Gtk] = "idle"
    /\ window = "login" /\ window' = "create"
    /\ UNCHANGED <<userData, built, lists, chat, asked, queued, threads, history, counts>>

\* on_back_to_login_button
BackToLoginButton ==
    /\ pc[Gtk] = "idle"
    /\ window = "create" /\ window' = "login"
    /\ UNCHANGED <<userData, built, lists, chat, asked, queued, threads, history, counts>>

\* show_login_dialog, after an answer or the time-out.
LogInDialog ==
    /\ pc[Gtk] = "idle" /\ loggingIn
    /\ loggingIn' = FALSE
    /\ UNCHANGED <<userData, window, built, lists, chat, sending, queued, threads, history, counts>>

SendDialog ==
    /\ pc[Gtk] = "idle" /\ sending
    /\ sending' = FALSE
    /\ UNCHANGED <<userData, window, built, lists, chat, loggingIn, queued, threads, history, counts>>

\* on_room_clicked
ClickRoom(b) ==
    /\ window = "chat" /\ clicks < MaxClicks
    /\ Opens(Gtk, buttons[b].index, "idle")
    /\ clicks' = clicks + 1
    /\ opened' = opened \cup {buttons[b].index}
    /\ UNCHANGED <<userData, window, built, lists, header, box, asked, queued, turn,
                   sentTo, hasty, news, sends>>

\* on_send_clicked, with a text in the entry.
ClickSend ==
    /\ window = "chat" /\ sends < MaxSends
    /\ pc[Gtk] = "idle"
    /\ current \in DOMAIN rooms /\ ~sending
    /\ sending' = TRUE
    /\ sentTo' = sentTo \cup {current}
    /\ sends' = sends + 1
    /\ UNCHANGED <<userData, window, built, lists, chat, loggingIn, queued, threads, opened,
                   crossed, hasty, clicks, news>>

-----------------------------------------------------------------------------
(* The reader: recognize_packet *)

Arrives ==
    /\ news < MaxNews /\ news' = news + 1
    /\ hasty' = (hasty \/ (window = "chat" /\ loggingIn))

\* Only a request that is still under way is answered to the server.
Answers == loggingIn

\* extract_room takes the next entry and then writes it.
ReadRoom ==
    /\ Go(Reader, "idle", "set")
    /\ Len(rooms) < MaxRooms
    /\ rooms' = Append(rooms, Blank)
    /\ Arrives
    /\ UNCHANGED <<friends, window, built, lists, chat, asked, queued, room, turn,
                   sentTo, opened, crossed, clicks, sends>>

SetRoom ==
    /\ Go(Reader, "set", "tell")
    /\ \E amount \in 0..1 :
        rooms' = [rooms EXCEPT ![Len(rooms)] = [id |-> Len(rooms), amount |-> amount, msgs |-> <<>>]]
    /\ UNCHANGED <<friends, window, built, lists, chat, asked, queued, room, turn, history, counts>>

\* Fault: the list is refreshed for the room that completes a log-in.
Untold == IF Answers THEN queued + 1 ELSE queued

Told == IF Answers THEN queued ELSE queued + 1

TellRoom ==
    /\ Go(Reader, "tell", "idle")
    /\ queued' = Told
    /\ UNCHANGED <<userData, window, built, lists, chat, asked, room, turn, history, counts>>

\* extract_rmsg: a message of the history, as far as the room lacks some, or a
\* new one, which is counted before it is stored.
ReadMessage ==
    /\ pc[Reader] = "idle"
    /\ Arrives
    /\ \E i \in DOMAIN rooms :
        /\ room' = [room EXCEPT ![Reader] = i]
        /\ IF loggingIn
           THEN /\ pc' = [pc EXCEPT ![Reader] = "show"]
                /\ rooms' = IF Len(rooms[i].msgs) < rooms[i].amount
                            THEN [rooms EXCEPT ![i].msgs = Append(@, news')] ELSE rooms
           ELSE /\ pc' = [pc EXCEPT ![Reader] = "store"]
                /\ rooms' = [rooms EXCEPT ![i].amount = @ + 1]
    /\ UNCHANGED <<friends, window, built, lists, chat, asked, queued, turn,
                   sentTo, opened, crossed, clicks, sends>>

StoreMessage ==
    /\ Go(Reader, "store", "show")
    /\ rooms' = [rooms EXCEPT ![room[Reader]].msgs = Append(@, news)]
    /\ UNCHANGED <<friends, window, built, lists, chat, asked, queued, room, turn,
                   history, counts>>

\* Fault: a new message opens its room.
ItsRoom == room[Reader]

\* refresh_current_chat
ToRefresh == current

RefreshChat ==
    /\ \/ /\ loggingIn
          /\ Go(Reader, "show", "idle")
          /\ UNCHANGED <<room, current, crossed>>
       \/ ~loggingIn /\ Opens(Reader, ToRefresh, "show")
    /\ UNCHANGED <<userData, window, built, lists, header, box, asked, queued, turn,
                   sentTo, opened, hasty, counts>>

\* The answer to the user's own message, if one is awaited.
SettleSend ==
    /\ Go(Reader, "settle", "idle")
    /\ sending' = FALSE
    /\ room' = [room EXCEPT ![Reader] = Nobody]
    /\ UNCHANGED <<userData, window, built, lists, chat, loggingIn, queued, turn, history, counts>>

\* extract_frnd, then refresh_friends_list.
ReadFriend ==
    /\ Go(Reader, "idle", "friend")
    /\ friends' = friends + 1
    /\ Arrives
    /\ UNCHANGED <<rooms, window, built, lists, chat, asked, queued, room, turn,
                   sentTo, opened, crossed, clicks, sends>>

TellFriend ==
    /\ Go(Reader, "friend", "idle")
    /\ labels' = IF ~Answers /\ built THEN friends ELSE labels
    /\ UNCHANGED <<userData, window, built, buttons, chat, asked, queued, room, turn,
                   history, counts>>

\* room;ok, or a user without friends: show_chat_window empties the window and
\* makes the two lists.
ShowChatWindow ==
    /\ Go(Reader, "idle", "button")
    /\ ~built \/ loggingIn
    /\ window' = "none"
    /\ built' = TRUE
    /\ labels' = friends /\ buttons' = <<>>
    /\ turn' = [turn EXCEPT ![Reader] = 1]
    /\ UNCHANGED <<userData, chat, asked, queued, room, history, counts>>

\* After the buttons it makes a new label and box for the open chat, but leaves
\* current_room_index.
PutWindow ==
    /\ Go(Reader, "put", "idle")
    /\ window' = "chat"
    /\ header' = Nobody /\ box' = <<>>
    /\ crossed' = (crossed \/ Showing(Gtk))
    /\ UNCHANGED <<userData, built, lists, current, asked, queued, room, turn,
                   sentTo, opened, hasty, counts>>

MainStep ==
    \/ Refresh \/ CreateAccountButton \/ BackToLoginButton
    \/ LogInDialog \/ SendDialog \/ ClickSend
    \/ \E b \in DOMAIN buttons : ClickRoom(b)

ReaderStep ==
    \/ ReadRoom \/ SetRoom \/ TellRoom
    \/ ReadMessage \/ StoreMessage \/ RefreshChat \/ SettleSend
    \/ ReadFriend \/ TellFriend \/ ShowChatWindow \/ PutWindow

ChatNext == MainStep \/ ReaderStep \/ \E t \in Thread : Show(t) \/ Button(t)

ChatSpec == ChatInit /\ [][ChatNext]_chatVars

-----------------------------------------------------------------------------
(* Properties *)

AtRest == \A t \in Thread : pc[t] = "idle"
Usual  == AtRest /\ window = "chat" /\ ~hasty

\* The open chat is what user_data has of its room: its name, and its messages
\* in order, each once, however messages of this and other rooms arrive between
\* clicks, unless the two threads were changing it at once.
OpenChatIsCurrent ==
    Usual /\ ~crossed /\ header # Nobody =>
        /\ current \in DOMAIN rooms /\ header = rooms[current].id
        /\ box = [k \in 1..rooms[current].amount |-> Entry(rooms[current], k)]

\* A message goes to a room that the user has opened, although the reader sets
\* current_room_index too, and both threads do so without a lock.
SentToOpenedRooms == sentTo \subseteq opened

\* When nothing is under way every room has a button with its name, even when
\* the main thread made the list while the reader was adding to it, and every
\* friend has a label.
ListsAreComplete ==
    Usual /\ queued = 0 =>
        /\ labels = friends
        /\ \A i \in DOMAIN rooms : [index |-> i, name |-> rooms[i].id] \in {buttons[b] : b \in DOMAIN buttons}
=============================================================================
