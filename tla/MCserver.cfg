SPECIFICATION ServerSpec
CONSTANTS
    Ids = {u1, u2}
    Pids = {p1}
    Emails = {e1}
    Data = {d1}
    Requests = {r1, r2}
    Watched <- MCWatched
    Faulty = TRUE
    None = None
SYMMETRY Symmetry
INVARIANTS
    ServerTypeOK
    AnswersAreMeasured
    ScrapesAreBounded
    RatesAreBounded
CHECK_DEADLOCK FALSE
