\* Two images, each PUT once, that may share a name; a channel of one, so that
\* the second webhook call blocks.  MinIO fails and loses events; the worker
\* and push-service keep running.
SPECIFICATION FairSpec
CONSTANTS
    None = None
    Ids = {i1, i2}
    Users = {u1}
    Names = {n1, n2}
    Pods = {p1}
    MaxPuts = 1
    QueueCap = 1
    Env = {"s3", "loss"}
INVARIANTS
    TypeOK
    NoAcceptedWorkLost
    LastWord
    OriginalMatches
    NotifiedIsStored
PROPERTIES
    MovePreserves
    KeepsQueue
    AcceptedSettles
    ParkedIsAccepted
