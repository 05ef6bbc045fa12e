---------------------------- MODULE WaitingLine -----------------------------
(***************************************************************************)
(* What img-service's channel, the handlers blocked on it and its worker   *)
(* promise together: one waiting line per process, first come first        *)
(* served, one at a time, which only the death of the process breaks up.   *)
(* Where the channel ends and the blocked handlers begin does not show.    *)
(***************************************************************************)
EXTENDS Sequences

CONSTANTS Pods, Ids, Nobody

VARIABLES
    life,       \* of each process: "new", "up" or "dead"
    line,       \* the ids that wait, of each process
    hand        \* the id being worked on, or Nobody

vars == <<life, line, hand>>

Init ==
    /\ life = [p \in Pods |-> "new"]
    /\ line = [p \in Pods |-> <<>>]
    /\ hand = [p \in Pods |-> Nobody]

Begin(p) ==
    /\ life[p] = "new"
    /\ life' = [life EXCEPT ![p] = "up"]
    /\ UNCHANGED <<line, hand>>

Join(p, id) ==
    /\ life[p] = "up"
    /\ line' = [line EXCEPT ![p] = Append(@, id)]
    /\ UNCHANGED <<life, hand>>

Serve(p) ==
    /\ life[p] = "up"
    /\ hand[p] = Nobody /\ line[p] # <<>>
    /\ hand' = [hand EXCEPT ![p] = Head(line[p])]
    /\ line' = [line EXCEPT ![p] = Tail(@)]
    /\ UNCHANGED life

Release(p) ==
    /\ life[p] = "up" /\ hand[p] # Nobody
    /\ hand' = [hand EXCEPT ![p] = Nobody]
    /\ UNCHANGED <<life, line>>

\* A process dies once, and nobody joins or leaves its line any more.
Die(p) ==
    /\ life[p] = "up"
    /\ life' = [life EXCEPT ![p] = "dead"]
    /\ line' = [line EXCEPT ![p] = <<>>]
    /\ hand' = [hand EXCEPT ![p] = Nobody]

Next ==
    \E p \in Pods : \/ Begin(p) \/ Serve(p) \/ Release(p) \/ Die(p)
                    \/ \E id \in Ids : Join(p, id)

Spec == Init /\ [][Next]_vars
=============================================================================
