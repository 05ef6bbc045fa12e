\* handler/profile.go:67: the answer of PUT is the updated profile.
SPECIFICATION Spec
CONSTANTS
    None = None
    Faulty = FALSE
    Ids = {u1}
    Pids = {f1}
    Emails = {e1}
    Data = {d1, d2}
    Requests = {h1, h2}
PROPERTIES
    PutAnswersUpdated
