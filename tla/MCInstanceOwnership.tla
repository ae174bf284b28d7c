------------------------- MODULE MCInstanceOwnership -------------------------
(* Instances of InstanceOwnership for model checking. *)
EXTENDS InstanceOwnership, TLC

\* Processes, directory identities and members are interchangeable.
Symmetry == Permutations(Procs \ Abandoned) \cup Permutations(DirIds)
            \cup Permutations(Members)
=============================================================================
