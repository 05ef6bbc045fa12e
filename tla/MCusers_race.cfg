\* Two requests in progress, two users: every interleaving of statements.
SPECIFICATION Spec
CONSTANTS
    None = None
    Faulty = TRUE
    Ids = {u1, u2}
    Pids = {f1, f2}
    Emails = {e1, e2}
    Data = {d1, d2}
    Requests = {h1, h2}
INVARIANTS
    TypeOK
    ProfilesHaveUsers
    RowsAreUnique
PROPERTIES
    ActsAsRegister
