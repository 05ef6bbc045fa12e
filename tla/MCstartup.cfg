\* Two processes, a rollout under Kubernetes, and a Postgres that dies three
\* times, with its tables or without.
SPECIFICATION Spec
CONSTANTS
    Pods = {p1, p2}
    MaxDeaths = 3
INVARIANTS
    ServingHasTables
PROPERTIES
    BeginsWithTables
    Serves
\* With every death spent and every process serving nothing is left to do.
CHECK_DEADLOCK FALSE
