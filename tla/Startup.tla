------------------------------ MODULE Startup -------------------------------
(***************************************************************************)
(* How sirius_go comes up: main opens the database, pings it, creates the  *)
(* two tables and serves; any error on the way is a log.Fatal.  Under      *)
(* Kubernetes an exited process is started again and a rollout runs two,   *)
(* but Postgres has no volume: when it dies the tables are gone.  Under    *)
(* docker-compose Postgres keeps its volume, and an exited process stays   *)
(* so until somebody calls docker-compose up again.                        *)
(***************************************************************************)
EXTENDS Naturals

CONSTANTS
    Pods,       \* processes there may be at a time
    MaxDeaths   \* bound: how often Postgres dies

ASSUME StartupAssumption == MaxDeaths \in Nat

VARIABLES
    deployment, \* what the system runs under, once and for all
    db,         \* whether Postgres accepts connections
    deaths,     \* how often it has died
    tables,     \* the tables there are
    pc          \* where main is in each process

vars == <<deployment, db, deaths, tables, pc>>

\* Whether exited processes are started again by themselves.
Restarts == deployment = "kubernetes"

\* Whether the database survives the death of Postgres.
Durable == deployment = "compose"

Tables == {"users", "profiles"}

TypeOK ==
    /\ deployment \in {"compose", "kubernetes"}
    /\ db \in BOOLEAN /\ deaths \in 0..MaxDeaths
    /\ tables \subseteq Tables
    /\ pc \in [Pods -> {"none", "ping", "serving", "exited"} \cup Tables]

Init ==
    /\ deployment \in {"compose", "kubernetes"}
    /\ db = FALSE /\ deaths = 0
    /\ tables = {}
    /\ pc = [p \in Pods |-> "none"]

-----------------------------------------------------------------------------

\* Postgres gets ready, initialising its database when there is none.
DbStarts ==
    /\ ~db
    /\ db' = TRUE
    /\ UNCHANGED <<deployment, deaths, tables, pc>>

DbDies ==
    /\ db /\ deaths < MaxDeaths
    /\ db' = FALSE /\ deaths' = deaths + 1
    /\ tables' = IF Durable THEN tables ELSE {}
    /\ UNCHANGED <<deployment, pc>>

Goto(p, l) == pc' = [pc EXCEPT ![p] = l]

\* The process is started, whether or not Postgres is ready.
Launch(p) ==
    /\ pc[p] \in {"none", "exited"}
    /\ Goto(p, "ping")
    /\ UNCHANGED <<deployment, db, deaths, tables>>

\* db.Ping, the first thing to connect.
Ping(p) ==
    /\ pc[p] = "ping"
    /\ \/ db /\ Goto(p, "users")
       \/ ~db /\ Goto(p, "exited")
    /\ UNCHANGED <<deployment, db, deaths, tables>>

After == [users |-> "profiles", profiles |-> "serving"]

\* Mutant: user_id refers to no table.
NeedsNothing == [users |-> {}, profiles |-> {}]

\* REFERENCES users(id).
Needs == [users |-> {}, profiles |-> {"users"}]

\* Processes at the same statement: those whose look for the table is over
\* when it is created fail, IF NOT EXISTS or not.
Contenders(p, t) == {q \in Pods \ {p} : pc[q] = t}

\* Mutant: CREATE TABLE without IF NOT EXISTS.
CreateAnew(p, t) ==
    /\ pc[p] = t
    /\ \/ /\ db /\ t \notin tables /\ Needs[t] \subseteq tables
          /\ tables' = tables \cup {t} /\ Goto(p, After[t])
       \/ /\ ~db \/ t \in tables \/ ~(Needs[t] \subseteq tables)
          /\ UNCHANGED tables /\ Goto(p, "exited")
    /\ UNCHANGED <<deployment, db, deaths>>

\* Mutant: Migrate goes on after an error.
CreateRegardless(p, t) ==
    /\ pc[p] = t
    /\ tables' = IF db /\ Needs[t] \subseteq tables THEN tables \cup {t} ELSE tables
    /\ Goto(p, After[t])
    /\ UNCHANGED <<deployment, db, deaths>>

\* One statement of Migrate: CREATE TABLE IF NOT EXISTS.
Create(p, t) ==
    /\ pc[p] = t
    /\ \/ /\ db /\ t \in tables
          /\ UNCHANGED tables /\ Goto(p, After[t])
       \/ /\ db /\ t \notin tables /\ Needs[t] \subseteq tables
          /\ tables' = tables \cup {t}
          /\ \E late \in SUBSET Contenders(p, t) :
                pc' = [q \in Pods |-> IF q = p THEN After[t]
                                     ELSE IF q \in late THEN "exited" ELSE pc[q]]
       \/ /\ ~db \/ (t \notin tables /\ ~(Needs[t] \subseteq tables))
          /\ UNCHANGED tables /\ Goto(p, "exited")
    /\ UNCHANGED <<deployment, db, deaths>>

Main(p) == Ping(p) \/ \E t \in Tables : Create(p, t)

Next == DbStarts \/ DbDies \/ \E p \in Pods : Launch(p) \/ Main(p)

\* Postgres comes up, main runs on, and docker-compose up or kubectl apply
\* starts each process once; again only where there is somebody to do it.
Fairness ==
    /\ WF_vars(DbStarts)
    /\ \A p \in Pods : /\ WF_vars(Main(p))
                       /\ WF_vars(pc[p] = "none" /\ Launch(p))
                       /\ WF_vars(Restarts /\ Launch(p))

Spec == Init /\ [][Next]_vars /\ Fairness

-----------------------------------------------------------------------------
(* Properties                                                              *)

\* A process begins to serve only with both tables there, although Postgres
\* may lose them between Migrate's two statements.
BeginsWithTables ==
    [][\A p \in Pods : pc[p] # "serving" /\ pc'[p] = "serving" =>
                          tables' = Tables]_vars

\* Where the database survives, whoever serves has both tables.
ServingHasTables ==
    Durable => \A p \in Pods : pc[p] = "serving" => tables = Tables

\* Where exited processes are started again the application is up in the end,
\* however often Postgres was not there or another process came first.
Serves == \A p \in Pods : <>(Restarts => pc[p] = "serving")
=============================================================================
