------------------------------ MODULE MCFriends ------------------------------
(* Two users who connect, leave and ask each other to be friends.          *)
EXTENDS Friends, TLC

CONSTANTS ann, bob

MCTwo    == {ann, bob}
Symmetry == Permutations(User)
=============================================================================
