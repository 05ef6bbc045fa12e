\* exam.md:27 says that pods are restarted without losing data.
SPECIFICATION Spec
CONSTANTS
    None = None
    Ids = {i1}
    Users = {u1}
    Names = {n1}
    Pods = {p1, p2}
    MaxPuts = 1
    QueueCap = 1
    Env = {"crash"}
INVARIANTS
    NoAcceptedWorkLost
