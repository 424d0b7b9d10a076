--------------------------- MODULE MCLoginTransfer ---------------------------
(* Two chats, the first with a history of two packets.                     *)
EXTENDS LoginTransfer

MCRoom   == 1..3
MCChats  == <<1, 2>>
MCAll    == {"message", "friend", "fail", "expire", "merge", "extract", "misread"}
Plain(n) == [n |-> n, split |-> FALSE]
MCHistory == (1 :> <<Plain(1), Plain(2)>>) @@ (2 :> <<[n |-> 1, split |-> TRUE]>>) @@ (3 :> <<>>)
=============================================================================
