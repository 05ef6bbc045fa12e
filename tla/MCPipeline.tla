----------------------------- MODULE MCPipeline -----------------------------
(***************************************************************************)
(* Pipeline on small instances.  The sets are model values given in the    *)
(* .cfg files.                                                             *)
(***************************************************************************)
EXTENDS Pipeline, TLC

\* No action and no safety property tells images or file names apart.
Symmetry == Permutations(Ids) \cup Permutations(Names)
=============================================================================
