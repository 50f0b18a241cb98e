------------------------------- MODULE FsModel -------------------------------
(***************************************************************************)
(* The file tree that DIFFuzzer keeps in memory to know which operations a  *)
(* test case may contain (diffuzzer/src/abstract_fs/fs.rs, node.rs,         *)
(* pathname.rs): its data, the resolution of a path to a node, and every    *)
(* operation as a function from a tree to an outcome, the tree left behind  *)
(* together with the error returned.                                        *)
(*                                                                          *)
(* A path is the sequence of its names, the root is the empty sequence.     *)
(* Indices start at 1 where the code's vectors start at 0.  A file's        *)
(* contents are reduced to their length: module Content models the slices.  *)
(***************************************************************************)
EXTENDS Naturals, Sequences, FiniteSets

CONSTANTS Names,        \* file names
          EmptyName,    \* the name of the root, ""
          StackDepth    \* nested path resolutions the thread's stack has room for

ASSUME EmptyNameAssumption  == EmptyName \notin Names
ASSUME StackDepthAssumption == StackDepth \in Nat

Root  == <<>>
PathName == Seq(Names)

IsRoot(path)   == path = Root
ParentOf(path) == IF IsRoot(path) THEN Root ELSE SubSeq(path, 1, Len(path) - 1)
NameOf(path)   == IF IsRoot(path) THEN EmptyName ELSE path[Len(path)]
Join(path, name) == Append(path, name)

(***************************************************************************)
(* Nodes and the tree.                                                      *)
(***************************************************************************)
RootIndex == 1
None      == 0     \* File.descriptor = Option::None; descriptors count from 1

DirNode(i)     == [kind |-> "Dir", idx |-> i]
FileNode(i)    == [kind |-> "File", idx |-> i]
SymlinkNode(i) == [kind |-> "Symlink", idx |-> i]
Absent         == [kind |-> "Absent", idx |-> 0]

Node == [kind : {"Dir", "File", "Symlink"}, idx : Nat]
Keys == Names \cup {EmptyName}     \* what Dir.children may be indexed with
Dir  == [Keys -> Node \cup {Absent}]
File == [descriptor : Nat, size : Nat]
FileDescriptor == [file : Nat, offset : Nat]

EmptyDir == [n \in Keys |-> Absent]

NewFS == [dirs |-> <<EmptyDir>>, files |-> <<>>, symlinks |-> <<>>,
          descriptors |-> <<>>, recording |-> <<>>]

IsEmptyDir(s, d)       == s.dirs[d] = EmptyDir
NameExists(s, d, name) == s.dirs[d][name] # Absent

(***************************************************************************)
(* Outcomes.  "Panic" is an index outside its vector or a failed assert!,   *)
(* "StackOverflow" a recursion that outgrows the stack: the process ends in *)
(* both, every other error is returned to the caller.                       *)
(***************************************************************************)
Ok      == "Ok"
Crashes == {"Panic", "StackOverflow"}

Failed(s, e) == [err |-> e, fs |-> s]
Done(s, op)  == [err |-> Ok, fs |-> [s EXCEPT !.recording = Append(@, op)]]

(***************************************************************************)
(* Path resolution.  A result carries the node and the set of directories   *)
(* the resolution went through.                                             *)
(***************************************************************************)
Resolved(node, dirs) == [err |-> Ok, node |-> node, dirs |-> dirs]
Unresolved(e)        == [err |-> e, node |-> Absent, dirs |-> {}]
Via(dirs, r)         == [err |-> r.err, node |-> r.node, dirs |-> dirs \cup r.dirs]

(* resolve_dir: the resolution must end at a directory.  Every caller then  *)
(* looks the directory up, with an unwrap.                                  *)
AsDir(s, r) ==
  IF r.err # Ok THEN r
  ELSE IF r.node.kind # "Dir" THEN Unresolved("NotADir")
  ELSE IF r.node.idx \notin DOMAIN s.dirs THEN Unresolved("Panic")
  ELSE r

(* A query of the resolution: a path, whether a symlink in its basename is  *)
(* followed, the symlinks visited so far.  below answers the queries that   *)
(* come up underway.                                                        *)
Query == PathName \X BOOLEAN \X SUBSET Nat

(* The directory in which the next segment is looked up, when the segments  *)
(* before it led to r: a directory itself, or the one an interior symlink   *)
(* leads to.  An interior symlink is resolved with no symlink visited.      *)
Enter(s, below, r) ==
  IF r.err # Ok \/ r.node.kind = "Dir" THEN AsDir(s, r)
  ELSE IF r.node.kind = "File" THEN Unresolved("NotADir")
  ELSE IF r.node.idx \notin DOMAIN s.symlinks THEN Unresolved("Panic")
  ELSE Via(r.dirs, AsDir(s, below[<<s.symlinks[r.node.idx], TRUE, {}>>]))

(* Name looked up in a directory that was entered.                          *)
LookUp(s, in, name) ==
  IF in.err # Ok THEN in
  ELSE IF ~NameExists(s, in.node.idx, name) THEN Unresolved("NotFound")
  ELSE Resolved(s.dirs[in.node.idx][name], in.dirs \cup {in.node.idx})

(* One more segment: name looked up in the directory that r leads to.       *)
Child(s, below, r, name) == LookUp(s, Enter(s, below, r), name)

(* A symlink in the basename is followed only on request, and never twice.  *)
Follow(s, below, r, visited) ==
  IF r.node.idx \in visited THEN Unresolved("LoopExists")
  ELSE IF r.node.idx \notin DOMAIN s.symlinks THEN Unresolved("Panic")
  ELSE Via(r.dirs,
           below[<<s.symlinks[r.node.idx], TRUE, visited \cup {r.node.idx}>>])

(* The body of resolve_node_rec, which walks the segments from the left:    *)
(* the segments before the last, then the last, then the final symlink.     *)
FollowLast(s, below, last, follow, visited) ==
  IF last.err = Ok /\ last.node.kind = "Symlink" /\ follow
  THEN Follow(s, below, last, visited)
  ELSE last

ResolveNodeRec(s, below, path, follow, visited) ==
  IF IsRoot(path) THEN Resolved(DirNode(RootIndex), {})
  ELSE FollowLast(s, below, Child(s, below, below[<<ParentOf(path), FALSE, {}>>], NameOf(path)),
                  follow, visited)

(* The recursion itself, cut off where the stack would end: queries are     *)
(* answered with the answers of one stack frame less.                       *)
Walk(s) ==
  LET walk[depth \in Nat] ==
        [q \in Query |->
           IF depth = 0 THEN Unresolved("StackOverflow")
           ELSE ResolveNodeRec(s, walk[depth - 1], q[1], q[2], q[3])]
  IN  walk

ResolveNode(s, path, follow) == Walk(s)[StackDepth][<<path, follow, {}>>]

ResolveDir(s, path)  == AsDir(s, ResolveNode(s, path, TRUE))

AsFile(r) == IF r.err = Ok /\ r.node.kind # "File" THEN Unresolved("NotAFile") ELSE r

ResolveFile(s, path) == AsFile(ResolveNode(s, path, TRUE))

=============================================================================
