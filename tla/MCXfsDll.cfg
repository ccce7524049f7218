SPECIFICATION DllSpec
CONSTANTS
    t1 = t1
    t2 = t2
    h1 = h1
    h2 = h2
    AppThreads <- MCThreads
    Handles <- MCHandles
    Windows = {w1}
    Devices = {IDC30, CDM30}
    Classes = {SERVICE, EXECUTE}
    None = None
SYMMETRY MCSymmetry
INVARIANTS
    RoutedToBound
