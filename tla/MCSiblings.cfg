CONSTANTS
    n1 = n1
    n2 = n2
    n3 = n3
    n4 = n4
    t1 = t1
    t2 = t2
    a = a
    b = b
    Roots <- MCRoots
    IntMax = 3
    Ids <- MCIds
    Editors <- MCEditors
    Wanted <- MCWanted
SPECIFICATION ChildrenSpec
SYMMETRY MCSymmetry
INVARIANTS
    NamesUnique
CHECK_DEADLOCK FALSE
