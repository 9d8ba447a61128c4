CONSTANTS
    n1 = n1
    n2 = n2
    n3 = n3
    a = a
    b = b
    Roots <- MCRoots
    IntMax = 7
    Nodes <- MCNodes
    Wanted <- MCWanted
    Root = Root
    Unborn = Unborn
    Dead = Dead
    MaxParameters = 1
    MaxCallbacks = 2
    MaxInstance = 1
    Protocol = "oscquery"
    RenameInner = TRUE
SPECIFICATION Spec
SYMMETRY MCSymmetry
INVARIANT
    ListenedIsNotified
CHECK_DEADLOCK FALSE
