----------------------------- MODULE MCUserApi ------------------------------
(***************************************************************************)
(* UserApi on small instances.                                             *)
(***************************************************************************)
EXTENDS UserApi, TLC

\* No action and no invariant tells users, profiles, e-mails, data or
\* requests apart.
Symmetry == Permutations(Ids) \cup Permutations(Pids) \cup
            Permutations(Emails) \cup Permutations(Data) \cup
            Permutations(Requests)
=============================================================================
