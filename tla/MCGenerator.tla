------------------------------ MODULE MCGenerator ------------------------------
(***************************************************************************)
(* The generator with a handful of names.                                   *)
(***************************************************************************)
EXTENDS Generator

CONSTANTS MaxName,          \* names are 0 .. MaxName
          MaxDescriptors,   \* descriptors ever opened
          MaxFileSize,      \* length of a file
          MaxRecording      \* operations of the workload

MCNames        == 0 .. MaxName
UniformWeights == [kind \in Kinds |-> 100]
NoWriteWeights == [UniformWeights EXCEPT !["Write"] = 0]
NoCreationWeights ==
  [UniformWeights EXCEPT !["MkDir"] = 0, !["Create"] = 0, !["Symlink"] = 0]

MCWeightsSet      == {UniformWeights, NoCreationWeights}
MCNoWriteWeights  == {NoWriteWeights}

WithinBounds(s) ==
  /\ Len(s.descriptors) <= MaxDescriptors
  /\ \A f \in DOMAIN s.files : s.files[f].size <= MaxFileSize
  /\ Len(s.recording) <= MaxRecording

MCNext == GeneratorNext /\ WithinBounds(fs')
MCSpec == GeneratorInit /\ [][MCNext]_generator_vars

(* The tree without its history, which decides nothing.                     *)
Tree == <<[fs EXCEPT !.recording = <<>>], weights, name_idx, unwrap_failed>>

=============================================================================
