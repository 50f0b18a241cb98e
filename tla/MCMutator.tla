------------------------------- MODULE MCMutator -------------------------------
(***************************************************************************)
(* The mutator with as many names as operations, each of which takes one at *)
(* most.  Long workloads are made of files alone, short ones of everything; *)
(* some configurations never remove.                                        *)
(***************************************************************************)
EXTENDS Mutator

AllWeights  == [kind \in Kinds |-> 100]
FileWeights == [AllWeights EXCEPT !["MkDir"] = 0, !["Symlink"] = 0, !["Hardlink"] = 0]

MCConfigurations ==
  { Configuration(AllWeights, MutationKinds, 3, 1),
    Configuration(AllWeights, {"Insert"}, 2, 2),
    Configuration(FileWeights, MutationKinds, 5, 1) }

=============================================================================
