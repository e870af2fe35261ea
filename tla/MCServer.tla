------------------------------ MODULE MCServer ------------------------------
(***************************************************************************)
(* The connections of the server for TLC: nothing distinguishes a client   *)
(* or a worker from another, so that states which differ by their names    *)
(* only are checked once.  For invariants only.                            *)
(***************************************************************************)
EXTENDS Server, TLC

Symmetry == Permutations(Client) \cup Permutations(Worker)
=============================================================================
