CONSTANTS
    f1 = f1
    f2 = f2
    a = a
    b = b
    x = x
    Conn = {c1, c2}
    Path <- MCPaths
    File = {f1, f2}
    Inode <- UsedNumbers
    maxHandles = 2
    None = None
SPECIFICATION Spec
INVARIANT RemovedNotReused
