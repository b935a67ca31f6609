\* Three variables; a's destructor uses b and c, b's uses c, so it takes as many
\* rounds as there are variables.  A value of each, and two to replace them.
CONSTANTS
    b1 = b1
    b2 = b2
    b3 = b3
    b4 = b4
    b5 = b5
    Vars = {"a", "b", "c"}
    Blocks = {b1, b2, b3, b4, b5}
    DropUses <- DropChain
    MaxRounds = 3
    MaxDepth = 6
    Null = null
    One = one
SPECIFICATION TlsSpec
SYMMETRY Symmetry
CHECK_DEADLOCK FALSE
INVARIANTS UseLive DroppedAlone AllDropped
