CONSTANTS
    f1 = f1
    f2 = f2
    a = a
    b = b
    x = x
    Conn = {c1, c2}
    Path <- MCPaths
    File = {f1, f2}
    Inode <- NewNumbers
    maxHandles = 2
    None = None
SPECIFICATION Spec
SYMMETRY MCSymmetry
INVARIANTS
    HandleMeansOneFile
PROPERTIES
    RenameKeepsHandles
    StaleForGood
