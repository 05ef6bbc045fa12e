--------------------------- MODULE ImageLifecycle ---------------------------
(***************************************************************************)
(* What the pipeline promises of an image, without saying how: a status    *)
(* that moves along Moves, and a set of artefacts that only grows.  An     *)
(* image becomes ready only when all its artefacts are in the public       *)
(* buckets, so the links GET /api/img hands out never lead nowhere.        *)
(***************************************************************************)
CONSTANTS
    Ids,
    Artefacts,  \* what a finished image has
    Reliable    \* whether every write of a status takes effect, in order

VARIABLES
    status,     \* "absent", "upload", "process", "ready" or "error"
    artefacts   \* those of each image that exist

vars == <<status, artefacts>>

\* The pairs <<from, to>> a status may move along: each round of processing
\* passes through "process", unless that write may be lost or two workers may
\* have the image at a time.
Moves ==
    IF Reliable
    THEN ({"upload", "ready", "error"} \X {"process"}) \cup
         ({"process"} \X {"ready", "error"})
    ELSE {"upload", "process", "ready", "error"} \X
         {"process", "ready", "error"}

Init ==
    /\ status = [id \in Ids |-> "absent"]
    /\ artefacts \in [Ids -> SUBSET Artefacts]

\* Two images with one name share their original, so an artefact may appear
\* for several images at once, and before an image is created.
Grow == \A id \in Ids : artefacts[id] \subseteq artefacts'[id]
                        /\ artefacts'[id] \subseteq Artefacts

Create(id) ==
    /\ status[id] = "absent"
    /\ status' = [status EXCEPT ![id] = "upload"]
    /\ Grow

Publish == Grow /\ UNCHANGED status

Move(id, to) ==
    /\ <<status[id], to>> \in Moves
    /\ to = "ready" => artefacts[id] = Artefacts
    /\ status' = [status EXCEPT ![id] = to]
    /\ UNCHANGED artefacts

Next ==
    \/ \E id \in Ids : Create(id)
    \/ Publish
    \/ \E id \in Ids, to \in {"process", "ready", "error"} : Move(id, to)

Spec == Init /\ [][Next]_vars
=============================================================================
