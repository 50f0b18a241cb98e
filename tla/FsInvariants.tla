----------------------------- MODULE FsInvariants -----------------------------
(***************************************************************************)
(* What is true of every tree the operations of AbstractFS make, whoever    *)
(* calls them: its clients are the state machines AbstractFS, Generator,    *)
(* Mutator and Reducer.                                                     *)
(***************************************************************************)
EXTENDS FsOperations

NodeAllocated(s, node) ==
  /\ node.kind = "Dir"     => node.idx \in DOMAIN s.dirs
  /\ node.kind = "File"    => node.idx \in DOMAIN s.files
  /\ node.kind = "Symlink" => node.idx \in DOMAIN s.symlinks

EntriesAllocated(s) ==
  /\ RootIndex \in DOMAIN s.dirs
  /\ \A d \in DOMAIN s.dirs, n \in Keys : NodeAllocated(s, s.dirs[d][n])

(* A file and the descriptor it is open under name each other.              *)
FilesKnowTheirDescriptors(s) ==
  \A f \in DOMAIN s.files :
    s.files[f].descriptor # None =>
      /\ s.files[f].descriptor \in DOMAIN s.descriptors
      /\ s.descriptors[s.files[f].descriptor].file = f

OffsetsWithinFiles(s) ==
  \A d \in DOMAIN s.descriptors :
    /\ s.descriptors[d].file \in DOMAIN s.files
    /\ s.descriptors[d].offset <= s.files[s.descriptors[d].file].size

SubdirsOf(s, d) == {c \in DOMAIN s.dirs : \E n \in Keys : s.dirs[d][n] = DirNode(c)}

(* The root has no parent, no directory has two entries, and none lies      *)
(* below itself: of any directories, one lies in none of them.              *)
Forest(s) ==
  /\ \A d \in DOMAIN s.dirs : RootIndex \notin SubdirsOf(s, d)
  /\ \A c, d \in DOMAIN s.dirs, n, m \in Keys :
       s.dirs[c][n].kind = "Dir" /\ s.dirs[c][n] = s.dirs[d][m] => c = d /\ n = m
  /\ \A S \in (SUBSET DOMAIN s.dirs) \ {{}} :
       \E c \in S : \A d \in S : c \notin SubdirsOf(s, d)

=============================================================================
