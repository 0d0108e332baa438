------------------------------ MODULE MCRunner ------------------------------
(* Runner on small instances: see the RunnerXxx.cfg files. *)
EXTENDS Runner, TLC

Symmetry == Permutations(Clients) \cup Permutations(Models)

=============================================================================
