SPECIFICATION Spec
CONSTANTS
    MaxSends = 2
    MaxReplies = 1
INVARIANTS
    QuietPeerLosesNothing
CHECK_DEADLOCK FALSE
