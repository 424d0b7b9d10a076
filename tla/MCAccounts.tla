----------------------------- MODULE MCAccounts -----------------------------
(* Two names, two passwords and three connections to the login port.       *)
EXTENDS Accounts, TLC

CONSTANTS a, b, c, ann, bob, p, q

MCConn     == {a, b, c}
MCName     == {ann, bob}
MCPassword == {p, q}
MCMaxClock == 1
=============================================================================
