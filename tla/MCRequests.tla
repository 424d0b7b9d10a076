----------------------------- MODULE MCRequests -----------------------------
(* Two blocks for all types of request.                                    *)
EXTENDS Requests, TLC

CONSTANTS d1, d2

MCTwoData  == {d1, d2}
MCTypes    == {"login", "send", "logout", "friend", "register"}
=============================================================================
