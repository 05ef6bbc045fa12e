---------------------------- MODULE MCUserServer ----------------------------
(***************************************************************************)
(* UserServer on small instances.                                          *)
(***************************************************************************)
EXTENDS UserServer, TLC

\* Of the creates of profiles, which may end in any class: the samples of
\* errors, and the total they are compared with.
MCWatched ==
    {<<"app_request_total", "profile", "create", 4>>,
     <<"app_client_errors_total", "profile", "create">>,
     <<"app_server_errors_total", "profile", "create">>}

\* No action and no invariant tells users, profiles or requests apart.
Symmetry == Permutations(Ids) \cup Permutations(Pids) \cup
            Permutations(Requests)
=============================================================================
