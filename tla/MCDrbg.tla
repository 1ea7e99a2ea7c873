------------------------------- MODULE MCDrbg -------------------------------
(* Drbg for TLC: processes and contexts are interchangeable. *)
EXTENDS Drbg, TLC

\* One context in three processes, or two contexts of one process with long requests.
MCBounds == {[ctxs |-> 1, blocks |-> 1, forks |-> 2, intervals |-> {1}],
             [ctxs |-> 2, blocks |-> 2, forks |-> 0, intervals |-> {0, 2, 3}]}

Symmetry == Permutations(Pids) \cup Permutations(Ctxs)
=============================================================================
