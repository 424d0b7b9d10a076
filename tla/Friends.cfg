CONSTANTS
    ann = ann
    bob = bob
    User       <- MCTwo
    Garbage    = Garbage
    MaxLogins  = 2
    MaxAdds    = 2
SPECIFICATION Spec
INVARIANTS  FriendshipIsMutualAlone CountsMatchListsAlone OfflineLeavesNothingAlone
SYMMETRY Symmetry
CHECK_DEADLOCK FALSE
