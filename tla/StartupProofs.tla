--------------------------- MODULE StartupProofs ----------------------------
(***************************************************************************)
(* Proofs about Startup, for any number of processes that migrate at the   *)
(* same time and any number of deaths of Postgres.                         *)
(*                                                                         *)
(* What ties the properties together is Closed: there is no table without  *)
(* the tables it refers to.  So the process whose last statement finds its *)
(* table there needs no memory of having executed the first.               *)
(***************************************************************************)
EXTENDS Startup, TLAPS

Closed == \A t \in tables : Needs[t] \subseteq tables

IInv == TypeOK /\ Closed /\ ServingHasTables

\* The only way to serve is through the second statement.
LEMMA LastStatement ==
    ASSUME NEW t \in Tables
    PROVE  /\ After[t] = "serving" <=> t = "profiles"
           /\ After[t] \in {"serving"} \cup Tables
           /\ Needs[t] \subseteq Tables
BY DEF After, Needs, Tables

\* Both tables are there when the last of them is.
LEMMA ClosedIsAll ==
    ASSUME TypeOK, Closed, "profiles" \in tables
    PROVE  tables = Tables
BY DEF TypeOK, Closed, Needs, Tables

\* A statement of Migrate: a process that leaves for serving finds or makes
\* the second table and, by Closed, has the first.
LEMMA CreateStep ==
    ASSUME IInv, NEW p \in Pods, NEW t \in Tables, Create(p, t)
    PROVE  /\ IInv'
           /\ \A q \in Pods : pc[q] # "serving" /\ pc'[q] = "serving" =>
                 tables' = Tables
<1> USE DEF IInv, Durable
<1>0. UNCHANGED deployment
  BY DEF Create
<1> USE <1>0
<1>1. CASE db /\ t \in tables /\ UNCHANGED tables /\ Goto(p, After[t])
  <2>1. TypeOK'
    BY <1>1, LastStatement DEF Create, Goto, TypeOK
  <2>2. Closed'
    BY <1>1 DEF Closed
  <2>3. \A q \in Pods : pc'[q] = "serving" => pc[q] = "serving" \/ t = "profiles"
    BY <1>1, LastStatement DEF Goto, TypeOK
  <2>4. t = "profiles" => tables' = Tables
    <3>1. "profiles" \in tables => tables = Tables
      BY ClosedIsAll
    <3>. QED BY <1>1, <3>1
  <2>. QED BY <1>1, <2>1, <2>2, <2>3, <2>4 DEF ServingHasTables
<1>2. CASE /\ db /\ t \notin tables /\ Needs[t] \subseteq tables
           /\ tables' = tables \cup {t}
           /\ \E late \in SUBSET Contenders(p, t) :
                 pc' = [q \in Pods |-> IF q = p THEN After[t]
                                      ELSE IF q \in late THEN "exited" ELSE pc[q]]
  <2>1. TypeOK'
    BY <1>2, LastStatement DEF Create, TypeOK
  <2>2. Closed'
    BY <1>2 DEF Closed
  <2>3. \A q \in Pods : pc'[q] = "serving" => pc[q] = "serving" \/ t = "profiles"
    BY <1>2, LastStatement
  <2>4. t = "profiles" => tables' = Tables
    <3>1. t = "profiles" => "users" \in tables
      BY <1>2 DEF Needs
    <3>2. tables \subseteq Tables
      BY DEF TypeOK
    <3>. QED BY <1>2, <3>1, <3>2 DEF Tables
  <2>5. Durable /\ (\E q \in Pods : pc[q] = "serving") => tables' = Tables
    BY <1>2 DEF ServingHasTables, TypeOK
  <2>. QED BY <2>1, <2>2, <2>3, <2>4, <2>5 DEF ServingHasTables
<1>3. CASE UNCHANGED tables /\ Goto(p, "exited")
  BY <1>3 DEF Create, Goto, TypeOK, Closed, ServingHasTables
<1>. QED BY <1>1, <1>2, <1>3 DEF Create

\* Every other step of a process leaves the tables alone and leads nobody to
\* serving; Postgres loses all tables, or none when it is durable.
LEMMA OtherStep ==
    ASSUME IInv,
           \/ DbStarts \/ DbDies \/ UNCHANGED vars
           \/ \E p \in Pods : Launch(p) \/ Ping(p)
    PROVE  /\ IInv'
           /\ \A q \in Pods : pc'[q] = "serving" => pc[q] = "serving"
<1> USE DEF IInv, Durable
<1>0. UNCHANGED deployment
  BY DEF DbStarts, DbDies, Launch, Ping, vars
<1> USE <1>0
<1>1. CASE DbStarts
  BY <1>1 DEF DbStarts, TypeOK, Closed, ServingHasTables
<1>2. CASE DbDies
  <2>1. deaths + 1 \in 0..MaxDeaths
    BY <1>2, StartupAssumption DEF DbDies, TypeOK
  <2>2. TypeOK'
    BY <1>2, <2>1 DEF DbDies, TypeOK
  <2>3. Closed'
    BY <1>2 DEF DbDies, Closed
  <2>. QED BY <1>2, <2>2, <2>3 DEF DbDies, ServingHasTables
<1>3. ASSUME NEW p \in Pods, Launch(p) \/ Ping(p)
      PROVE  /\ IInv'
             /\ \A q \in Pods : pc'[q] = "serving" => pc[q] = "serving"
  <2>1. PICK l \in {"ping", "users", "exited"} : Goto(p, l)
    BY <1>3 DEF Launch, Ping
  <2>2. UNCHANGED <<deployment, db, deaths, tables>>
    BY <1>3 DEF Launch, Ping
  <2>. QED BY <2>1, <2>2 DEF Goto, TypeOK, Tables, Closed, ServingHasTables
<1>4. CASE UNCHANGED vars
  BY <1>4 DEF vars, TypeOK, Closed, ServingHasTables
<1>. QED BY <1>1, <1>2, <1>3, <1>4

LEMMA InvInit == Init => IInv
<1>. SUFFICES ASSUME Init PROVE IInv
  OBVIOUS
<1>1. TypeOK
  <2>1. pc \in [Pods -> {"none"}]
    BY DEF Init
  <2>2. pc \in [Pods -> {"none", "ping", "serving", "exited"} \cup Tables]
    BY <2>1
  <2>3. deaths \in 0..MaxDeaths
    BY StartupAssumption DEF Init
  <2>. QED BY <2>2, <2>3 DEF Init, TypeOK
<1>2. Closed /\ ServingHasTables
  BY DEF Init, Closed, ServingHasTables
<1>. QED BY <1>1, <1>2 DEF IInv

LEMMA InvStep == IInv /\ [Next]_vars => IInv'
BY CreateStep, OtherStep DEF Next, Main

\* Together with what one step does to IInv, the action property.
LEMMA BeginStep ==
    ASSUME IInv, [Next]_vars
    PROVE  [\A p \in Pods : pc[p] # "serving" /\ pc'[p] = "serving" =>
                               tables' = Tables]_vars
BY CreateStep, OtherStep DEF Next, Main

\* IInv is an invariant of Startup.
LEMMA InvHolds == Spec => []IInv
BY InvInit, InvStep, PTL DEF Spec

\* Variables stay in their domains, whoever dies and whoever races.
THEOREM StartupTypesHold == Spec => []TypeOK
<1>1. IInv => TypeOK
  BY DEF IInv
<1>. QED BY <1>1, InvHolds, PTL

\* Where the database survives Postgres, a process of main.go that serves has
\* both tables, however many of them migrated at the same time.
THEOREM ServingHasTablesHolds == Spec => []ServingHasTables
<1>1. IInv => ServingHasTables
  BY DEF IInv
<1>. QED BY <1>1, InvHolds, PTL

\* Migrate lets main.go serve only with both tables there, although Postgres
\* may lose them between any two of its statements.
THEOREM BeginsWithTablesHolds == Spec => BeginsWithTables
<1>. QED BY InvHolds, BeginStep, PTL DEF Spec, BeginsWithTables
=============================================================================
