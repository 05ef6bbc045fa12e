-------------------------- MODULE ProfileRegister ---------------------------
(***************************************************************************)
(* What the users and profiles of sirius_go promise: every living user has *)
(* a register that holds one profile or none, a create fills an empty one, *)
(* and the register dies with its user, who never returns.  A request is   *)
(* told "done" in the very step that does it, and "failed" in a step that  *)
(* changes nothing or, when answers may lie (Faulty), in one that does.    *)
(***************************************************************************)
CONSTANTS Ids, Data, Requests, Faulty

VARIABLES
    alive,      \* the users there are
    gone,       \* the users there have been
    profile,    \* the profiles of each user, a set of at most one
    ack         \* what each request has been told

vars == <<alive, gone, profile, ack>>

Init ==
    /\ alive = {} /\ gone = {}
    /\ profile = [id \in Ids |-> {}]
    /\ ack = [h \in Requests |-> "none"]

Told(h, word) == ack' = [ack EXCEPT ![h] = word]

\* What a request may be told of a change.
Tell(h) == Told(h, "done") \/ (Faulty /\ Told(h, "failed"))

Born(h, id) ==
    /\ id \notin alive \cup gone
    /\ alive' = alive \cup {id}
    /\ UNCHANGED <<gone, profile>>
    /\ Tell(h)

Die(h, id) ==
    /\ alive' = alive \ {id}
    /\ gone' = gone \cup (alive \cap {id})
    /\ profile' = [profile EXCEPT ![id] = {}]
    /\ Tell(h)

Create(h, id, d) ==
    /\ id \in alive /\ profile[id] = {}
    /\ profile' = [profile EXCEPT ![id] = {d}]
    /\ UNCHANGED <<alive, gone>>
    /\ Tell(h)

Clear(h, id) ==
    /\ profile' = [profile EXCEPT ![id] = {}]
    /\ UNCHANGED <<alive, gone>>
    /\ Tell(h)

\* A PUT is answered later, or fails: it is told nothing here.
Replace(id, d) ==
    /\ profile[id] # {}
    /\ profile' = [profile EXCEPT ![id] = {d}]
    /\ UNCHANGED <<alive, gone, ack>>

\* A request fails, or its client has the answer and goes on.
Fail(h)   == Told(h, "failed") /\ UNCHANGED <<alive, gone, profile>>
Forget(h) == Told(h, "none") /\ UNCHANGED <<alive, gone, profile>>

Next ==
    \/ \E h \in Requests : Fail(h) \/ Forget(h)
    \/ \E h \in Requests, id \in Ids : Born(h, id) \/ Die(h, id) \/ Clear(h, id)
    \/ \E h \in Requests, id \in Ids, d \in Data : Create(h, id, d)
    \/ \E id \in Ids, d \in Data : Replace(id, d)

Spec == Init /\ [][Next]_vars
=============================================================================
