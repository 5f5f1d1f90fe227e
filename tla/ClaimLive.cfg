SPECIFICATION FairSpec
CONSTANTS
    None = None
    b1 = b1 b2 = b2 b3 = b3 n1 = n1 n2 = n2
    BName = {n1, n2}
    Binding = {b1, b2, b3}
    NameOf <- Names
    VMName = {v1}
    MaxVM = 2
    MaxUID = 5
    Plans <- Live
PROPERTY Settles RetainReleases
CHECK_DEADLOCK FALSE
