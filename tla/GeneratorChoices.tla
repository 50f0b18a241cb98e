--------------------------- MODULE GeneratorChoices ---------------------------
(***************************************************************************)
(* What append_one (diffuzzer/src/abstract_fs/generator.rs) may draw in a   *)
(* given AbstractFS: the nodes that are alive, the kinds of operation that  *)
(* can apply to them, and the calls each kind may make.  The generator      *)
(* draws at the end of a workload, the mutator anywhere in it.              *)
(***************************************************************************)
EXTENDS FsOperations

CONSTANT Sizes      \* sizes and offsets drawn for reads and writes

Kinds == {"Create", "MkDir", "Remove", "Hardlink", "Rename", "Open", "Close",
          "Read", "Write", "FSync", "Symlink"}

ASSUME NamesAreNumbers == Names \subseteq Nat
ASSUME SizesAreNumbers == Sizes \subseteq Nat

(***************************************************************************)
(* alive(): a search from the root, symlinks to directories followed in a   *)
(* second round only (MAX_SYMLINK_FOLLOW).  An element is an index with the *)
(* path it was found under.                                                 *)
(***************************************************************************)
ChildrenOf(s, at, kind) ==
  {<<s.dirs[at[1]][n].idx, Join(at[2], n)>> :
     n \in {m \in Keys : s.dirs[at[1]][m].kind = kind}}

ChildrenIn(s, found, kind) == UNION {ChildrenOf(s, at, kind) : at \in found}

Search(s, queue) ==
  LET within[steps \in Nat] ==
        IF steps = 0 THEN queue
        ELSE LET found == within[steps - 1] IN found \cup ChildrenIn(s, found, "Dir")
  IN  within[Len(s.dirs)]

\* Mutant: the index of the link stands for that of its node.
FollowedToShadowed(s, found, kind) ==
  {link \in ChildrenIn(s, found, "Symlink") :
     ResolveNode(s, s.symlinks[link[1]], TRUE).node.kind = kind}

(* The symlinks among the found directories' entries that lead to a node of *)
(* this kind, with the index of that node.                                  *)
FollowedTo(s, found, kind) ==
  {<<ResolveNode(s, s.symlinks[link[1]], TRUE).node.idx, link[2]>> :
     link \in {l \in ChildrenIn(s, found, "Symlink") :
                 ResolveNode(s, s.symlinks[l[1]], TRUE).node.kind = kind}}

Alive(s) ==
  LET first  == Search(s, {<<RootIndex, Root>>})
      second == Search(s, FollowedTo(s, first, "Dir"))
      found  == first \cup second
  IN  [dirs            |-> found \cup FollowedTo(s, second, "Dir"),
       files           |-> ChildrenIn(s, found, "File"),
       files_symlinked |-> FollowedTo(s, found, "File"),
       symlinks        |-> {link[2] : link \in ChildrenIn(s, found, "Symlink")}]

PathsOf(found) == {at[2] : at \in found}

DirsExceptRoot(alive) == {at \in alive.dirs : at[1] # RootIndex}

\* Mutant: open files are drawn as well.
ClosedFilesAny(s, alive) == alive.files \cup alive.files_symlinked

ClosedFiles(s, alive) ==
  {at \in alive.files \cup alive.files_symlinked : s.files[at[1]].descriptor = None}

OpenDescriptors(s, alive) ==
  {s.files[at[1]].descriptor : at \in alive.files} \ {None}

(***************************************************************************)
(* What may be drawn.                                                       *)
(***************************************************************************)
(* Whether append_one keeps this kind among the weights.                    *)
Applicable(s, alive, kind) ==
  CASE kind \in {"Remove", "Rename"} -> DirsExceptRoot(alive) # {} \/ alive.files # {}
    [] kind = "Hardlink" -> alive.files # {}
    [] kind = "Open" -> ClosedFiles(s, alive) # {}
    [] kind \in {"Close", "Read", "Write", "FSync"} -> OpenDescriptors(s, alive) # {}
    [] kind \in {"MkDir", "Create", "Symlink"} -> TRUE

\* Mutant: every new name is the first one.
NewPathsReusingName(alive, name) == {Join(path, 0) : path \in PathsOf(alive.dirs)}

NewPaths(alive, name) == {Join(path, name) : path \in PathsOf(alive.dirs)}

RemovablePaths(alive) ==
  PathsOf(DirsExceptRoot(alive)) \cup PathsOf(alive.files) \cup alive.symlinks

LinkTargets(alive, name) ==
  PathsOf(alive.dirs) \cup PathsOf(alive.files) \cup alive.symlinks

(* The calls made for a kind; for rename, each attempt of its loop.  The    *)
(* kind Write reads and the kind Read writes.                               *)
CallsFor(s, alive, kind, name) ==
  CASE kind = "MkDir"    -> {MkDirOp(p) : p \in NewPaths(alive, name)}
    [] kind = "Create"   -> {CreateOp(p) : p \in NewPaths(alive, name)}
    [] kind = "Remove"   -> {RemoveOp(p) : p \in RemovablePaths(alive)}
    [] kind = "Hardlink" -> {HardlinkOp(old, new) : old \in PathsOf(alive.files),
                                                    new \in NewPaths(alive, name)}
    [] kind = "Rename"   -> {RenameOp(old, new) : old \in RemovablePaths(alive),
                                                  new \in NewPaths(alive, name)}
    [] kind = "Open"     -> {OpenOp(p, 0) : p \in PathsOf(ClosedFiles(s, alive))}
    [] kind = "Close"    -> {CloseOp(d) : d \in OpenDescriptors(s, alive)}
    [] kind = "Write"    -> {ReadOp(d, size) : d \in OpenDescriptors(s, alive), size \in Sizes}
    [] kind = "Read"     -> {WriteOp(d, 0, size) : d \in OpenDescriptors(s, alive), size \in Sizes}
    [] kind = "FSync"    -> {FSyncOp(d) : d \in OpenDescriptors(s, alive)}
    [] kind = "Symlink"  -> {SymlinkOp(target, p) : target \in LinkTargets(alive, name),
                                                    p \in NewPaths(alive, name)}

NamingKinds == {"MkDir", "Create", "Hardlink", "Rename", "Symlink"}

=============================================================================
