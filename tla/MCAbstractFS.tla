----------------------------- MODULE MCAbstractFS -----------------------------
(***************************************************************************)
(* AbstractFS on small trees.  Two sets of bounds are used, each the        *)
(* smallest in which its hazards occur: many directories and symlinks, and  *)
(* many descriptors with the history of the calls.                          *)
(***************************************************************************)
EXTENDS AbstractFS, TLC

CONSTANTS MaxDirs, MaxFiles, MaxSymlinks, MaxDescriptors,   \* ever created
          MaxNodes,         \* directories, files and symlinks together
          MaxFileSize,      \* length of a file
          MaxPathLen,       \* segments of a path
          MaxRecording      \* successful calls

MCPaths == UNION {[1 .. n -> Names] : n \in 0 .. MaxPathLen}

WithinBounds(s) ==
  /\ Len(s.dirs) <= MaxDirs
  /\ Len(s.files) <= MaxFiles
  /\ Len(s.symlinks) <= MaxSymlinks
  /\ Len(s.dirs) + Len(s.files) + Len(s.symlinks) <= MaxNodes
  /\ Len(s.descriptors) <= MaxDescriptors
  /\ \A f \in DOMAIN s.files : s.files[f].size <= MaxFileSize
  /\ Len(s.recording) <= MaxRecording

MCNext == Next /\ WithinBounds(fs')
MCSpec == Init /\ [][MCNext]_vars

(* Nothing tells two names apart.                                           *)
Interchangeable == Permutations(Names)

(* The tree without its history, which decides nothing.                     *)
Tree == [fs EXCEPT !.recording = <<>>]

=============================================================================
