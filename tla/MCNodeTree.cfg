CONSTANTS
    n1 = n1
    n2 = n2
    n3 = n3
    a = a
    b = b
    Roots <- MCRoots
    IntMax = 7
    Nodes <- MCNodes
    Wanted <- MCWanted
    Root = Root
    Unborn = Unborn
    Dead = Dead
    MaxParameters = 2
    MaxCallbacks = 2
    MaxInstance = 1
    Protocol = "oscquery"
    RenameInner = FALSE
SPECIFICATION Spec
SYMMETRY MCSymmetry
INVARIANTS
    TypeOK
    AddressCacheFresh
    TableIsExact
    ListenedIsNotified
    DeliveredToItsAddress
CHECK_DEADLOCK FALSE
