\* Two images with one file name.
SPECIFICATION Spec
CONSTANTS
    None = None
    Ids = {i1, i2}
    Users = {u1}
    Names = {n1}
    Pods = {p1}
    MaxPuts = 1
    QueueCap = 1
    Env = {}
INVARIANTS
    OriginalIsOwn
