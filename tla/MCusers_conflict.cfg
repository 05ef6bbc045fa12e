\* readme.md:191: a duplicate profile is a 409.  Two requests race.
SPECIFICATION Spec
CONSTANTS
    None = None
    Faulty = FALSE
    Ids = {u1}
    Pids = {f1}
    Emails = {e1}
    Data = {d1}
    Requests = {h1, h2}
INVARIANTS
    DuplicateIsConflict
