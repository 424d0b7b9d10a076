----------------------------- MODULE MCPresence -----------------------------
(* Three connections of two users, and two descriptors.                    *)
EXTENDS Presence, TLC

CONSTANTS c1, c2, c3, ann, bob

MCConn    == {c1, c2, c3}
MCUser    == {ann, bob}
Symmetry  == Permutations(MCConn) \cup Permutations(MCUser)
=============================================================================
