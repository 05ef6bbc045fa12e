SPECIFICATION Spec
CONSTANTS
    Ids = {i1, i2}
    Users = {ann, bob}
    Requests = {r1, r2, r3}
    Names <- MCNames
    Bodies <- MCBodies
    None = None
    Env = {"db", "s3"}
SYMMETRY Symmetry
INVARIANTS
    TypeOK
    HandlersCount
PROPERTIES
    ImplementsApi
    ReadYourPosts
CHECK_DEADLOCK FALSE
