\* The comment of queue.go:102 says the upload is moved to original.
SPECIFICATION Spec
CONSTANTS
    None = None
    Ids = {i1}
    Users = {u1}
    Names = {n1}
    Pods = {p1}
    MaxPuts = 2
    QueueCap = 1
    Env = {}
PROPERTIES
    MovePreserves
