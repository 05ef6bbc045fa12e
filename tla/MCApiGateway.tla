---------------------------- MODULE MCApiGateway ----------------------------
(***************************************************************************)
(* ApiGateway on small instances: names and bodies on both sides of every  *)
(* bound of the checks and of the columns.                                 *)
(***************************************************************************)
EXTENDS ApiGateway, TLC

Ascii(n) == [bytes |-> n, chars |-> n, nul |-> FALSE]
WithNul  == [Ascii(10) EXCEPT !.nul = TRUE]

\* One name is short enough for its column and has too many bytes.
MCNames == {Ascii(1), Ascii(255), Ascii(256), [Ascii(256) EXCEPT !.chars = 128],
            WithNul}

Good == [json |-> TRUE, image |-> TRUE, size |-> 10 * MiB,
         name |-> Ascii(1), type |-> Ascii(9)]

MCBodies ==
    {[Good EXCEPT !.name = name] : name \in MCNames} \cup
    {[Good EXCEPT !.json = FALSE], [Good EXCEPT !.image = FALSE],
     [Good EXCEPT !.type = Ascii(129)], [Good EXCEPT !.type = WithNul],
     [Good EXCEPT !.size = 10 * MiB + 1]}

Symmetry == Permutations(Requests) \cup Permutations(Ids) \cup
            Permutations(Users)
=============================================================================
