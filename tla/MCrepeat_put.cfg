\* One image PUT up to three times, and one pod after another: rounds of
\* processing follow and interrupt each other while the table works.
SPECIFICATION Spec
CONSTANTS
    None = None
    Ids = {i1}
    Users = {u1}
    Names = {n1}
    Pods = {p1, p2}
    MaxPuts = 3
    QueueCap = 1
    Env = {"s3", "push", "crash", "loss", "stray"}
INVARIANTS
    ReadyPreviewsMatch
PROPERTIES
    KeepsLifecycle
