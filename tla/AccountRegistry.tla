--------------------------- MODULE AccountRegistry ---------------------------
(***************************************************************************)
(* What the login process promises, without its threads and stores: a name *)
(* is registered at most once and keeps the id and the password it was     *)
(* registered with, and a connection is admitted as the user whose name    *)
(* and password it presented.                                              *)
(***************************************************************************)
EXTENDS Integers

CONSTANTS Conn,      \* connections to the login port
          Name,      \* user names
          Password   \* passwords

VARIABLES account,   \* account[n]: the credentials of n, or NoAccount
          admitted   \* the pairs <<connection, user id>> of successful log-ins

NoAccount == [id |-> 0, password |-> "none"]

Init ==
    /\ account  = [n \in Name |-> NoAccount]
    /\ admitted = {}

Ids == {account[n].id : n \in Name}

\* Some unused id and some password become the credentials of a free name.
Register(n) ==
    /\ account[n] = NoAccount
    /\ account'[n].id \notin Ids
    /\ account'[n].password \in Password
    /\ account' = [account EXCEPT ![n] = account'[n]]
    /\ UNCHANGED admitted

Admit(c) ==
    /\ \E n \in Name :
          /\ account[n] # NoAccount
          /\ admitted' = admitted \cup {<<c, account[n].id>>}
    /\ UNCHANGED account

Next == \/ \E n \in Name : Register(n)
        \/ \E c \in Conn : Admit(c)

Spec == Init /\ [][Next]_<<account, admitted>>
=============================================================================
