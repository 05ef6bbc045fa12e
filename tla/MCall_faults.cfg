\* Everything that may go wrong does, and two pods work on one image at a time.
SPECIFICATION Spec
CONSTANTS
    None = None
    Ids = {i1}
    Users = {u1, u2}
    Names = {n1}
    Pods = {p1, p2}
    MaxPuts = 2
    QueueCap = 1
    Env = {"db", "s3", "push", "loss", "crash", "overlap", "stray"}
INVARIANTS
    ServedLinksResolve
    WorkerKeepsOrder
PROPERTIES
    KeepsLifecycle
