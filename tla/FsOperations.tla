----------------------------- MODULE FsOperations -----------------------------
(***************************************************************************)
(* The operations of AbstractFS (diffuzzer/src/abstract_fs/fs.rs), each a   *)
(* function from a tree to an outcome, and the replay of a recorded         *)
(* workload.  A successful operation appends itself to the recording.       *)
(***************************************************************************)
EXTENDS FsModel

(***************************************************************************)
(* Operations as the recording holds them (operation.rs).  The modes of     *)
(* mkdir and create are left out, no decision depends on them.              *)
(***************************************************************************)
MkDirOp(path)          == [kind |-> "MkDir", path |-> path]
CreateOp(path)         == [kind |-> "Create", path |-> path]
RemoveOp(path)         == [kind |-> "Remove", path |-> path]
HardlinkOp(old, new)   == [kind |-> "Hardlink", old_path |-> old, new_path |-> new]
RenameOp(old, new)     == [kind |-> "Rename", old_path |-> old, new_path |-> new]
OpenOp(path, des)      == [kind |-> "Open", path |-> path, des |-> des]
CloseOp(des)           == [kind |-> "Close", des |-> des]
ReadOp(des, size)      == [kind |-> "Read", des |-> des, size |-> size]
WriteOp(des, src, size) ==
  [kind |-> "Write", des |-> des, src_offset |-> src, size |-> size]
FSyncOp(des)           == [kind |-> "FSync", des |-> des]
\* Mutant: the recording swaps target and link.
SymlinkOpSwapped(target, linkpath) ==
  [kind |-> "Symlink", target |-> linkpath, linkpath |-> target]
SymlinkOp(target, linkpath) ==
  [kind |-> "Symlink", target |-> target, linkpath |-> linkpath]

(* What the recording may hold.                                             *)
Operation ==
  [kind : {"MkDir", "Create", "Remove"}, path : PathName]
  \cup [kind : {"Hardlink", "Rename"}, old_path : PathName, new_path : PathName]
  \cup [kind : {"Symlink"}, target : PathName, linkpath : PathName]
  \cup [kind : {"Open"}, path : PathName, des : Nat]
  \cup [kind : {"Close", "FSync"}, des : Nat]
  \cup [kind : {"Read"}, des : Nat, size : Nat]
  \cup [kind : {"Write"}, des : Nat, src_offset : Nat, size : Nat]

(* An operation, but for the descriptor that an open returns.               *)
Anonymous(op) == IF op.kind = "Open" THEN [op EXCEPT !.des = 0] ELSE op

(* The fields of AbstractFS as fs.rs and node.rs declare them.              *)
FS == [dirs : Seq(Dir), files : Seq(File), symlinks : Seq(PathName),
       descriptors : Seq(FileDescriptor), recording : Seq(Operation)]

(***************************************************************************)
(* Entries of directories.                                                  *)
(***************************************************************************)
(* The index of the next element: taken before the push.                    *)
\* Mutant: the index is taken after the push.
NextIndexAfterPush(vec) == Len(vec) + 2

NextIndex(vec) == Len(vec) + 1

Insert(s, d, name, node) == [s EXCEPT !.dirs[d][name] = node]
Delete(s, d, name)       == [s EXCEPT !.dirs[d][name] = Absent]

Vacant(s, parent, name) ==
  IF parent.err = Ok /\ NameExists(s, parent.node.idx, name)
  THEN Unresolved("NameAlreadyExists")
  ELSE parent

(* The parent of path, when a new entry may be made there.                  *)
NewEntry(s, path) == Vacant(s, ResolveDir(s, ParentOf(path)), NameOf(path))

Remove(s, path) ==
  LET parent == ResolveDir(s, ParentOf(path))
  IN  IF IsRoot(path) THEN Failed(s, "RootRemovalForbidden")
      ELSE IF parent.err # Ok THEN Failed(s, parent.err)
      ELSE IF ~NameExists(s, parent.node.idx, NameOf(path)) THEN Failed(s, "NotFound")
      ELSE Done(Delete(s, parent.node.idx, NameOf(path)), RemoveOp(path))

MkDir(s, path) ==
  LET parent == NewEntry(s, path)
      grown  == [s EXCEPT !.dirs = Append(@, EmptyDir)]
  IN  IF parent.err # Ok THEN Failed(s, parent.err)
      ELSE Done(Insert(grown, parent.node.idx, NameOf(path), DirNode(NextIndex(s.dirs))),
                MkDirOp(path))

Create(s, path) ==
  LET parent == NewEntry(s, path)
      grown  == [s EXCEPT !.files = Append(@, [descriptor |-> None, size |-> 0])]
  IN  IF parent.err # Ok THEN Failed(s, parent.err)
      ELSE Done(Insert(grown, parent.node.idx, NameOf(path), FileNode(NextIndex(s.files))),
                CreateOp(path))

Hardlink(s, old, new) ==
  LET source == ResolveDir(s, ParentOf(old))
      file   == ResolveFile(s, old)
      parent == NewEntry(s, new)
  IN  IF source.err # Ok THEN Failed(s, source.err)
      ELSE IF s.dirs[source.node.idx][NameOf(old)].kind = "Symlink"
           THEN Failed(s, "HardlinkToSymlinkForbidden")
      ELSE IF file.err # Ok THEN Failed(s, file.err)
      ELSE IF parent.err # Ok THEN Failed(s, parent.err)
      ELSE Done(Insert(s, parent.node.idx, NameOf(new), file.node), HardlinkOp(old, new))

Symlink(s, target, linkpath) ==
  LET parent == NewEntry(s, linkpath)
      grown  == [s EXCEPT !.symlinks = Append(@, target)]
  IN  IF parent.err # Ok THEN Failed(s, parent.err)
      ELSE Done(Insert(grown, parent.node.idx, NameOf(linkpath),
                       SymlinkNode(NextIndex(s.symlinks))),
                SymlinkOp(target, linkpath))

(***************************************************************************)
(* rename.  The entry is made under the new name first; only then is the    *)
(* parent of the old name resolved, a second time and in the changed tree.  *)
(***************************************************************************)
\* Mutant: only the new parent itself is compared.
MovesIntoItselfShallow(source, dest) ==
  source.kind = "Dir" /\ source.idx = dest.node.idx

MovesIntoItself(source, dest) ==
  source.kind = "Dir" /\ (source.idx \in dest.dirs \/ source.idx = dest.node.idx)

\* Mutant: the destination need not be empty.
ReplacesNonEmptyDirNever(s, target) == FALSE

ReplacesNonEmptyDir(s, target) ==
  target.err = Ok /\ ~IsEmptyDir(s, target.node.idx)

\* Mutant: the old name is removed from the new parent.
UnlinkOldFromDest(s, old, origin, dest) == Delete(s, dest.node.idx, NameOf(old))

UnlinkOld(s, old, origin, dest) == Delete(s, origin.node.idx, NameOf(old))

Rename(s, old, new) ==
  LET target == ResolveDir(s, new)
      source == ResolveNode(s, old, FALSE)
      dest   == ResolveDir(s, ParentOf(new))
      linked == Insert(s, dest.node.idx, NameOf(new), source.node)
      origin == ResolveDir(linked, ParentOf(old))
  IN  IF ReplacesNonEmptyDir(s, target) THEN Failed(s, "DirNotEmpty")
      ELSE IF target.err \in Crashes THEN Failed(s, target.err)
      ELSE IF source.err # Ok THEN Failed(s, source.err)
      ELSE IF dest.err # Ok THEN Failed(s, dest.err)
      ELSE IF MovesIntoItself(source.node, dest) THEN Failed(s, "RenameToSubdirectoryError")
      ELSE IF origin.err # Ok THEN Failed(linked, origin.err)
      ELSE Done(UnlinkOld(linked, old, origin, dest), RenameOp(old, new))

(***************************************************************************)
(* Descriptors.  A file holds the descriptor it is open under; a closed     *)
(* descriptor stays in the vector.                                          *)
(***************************************************************************)
\* Mutant: the descriptor counts one too few.
FreshDescriptorZeroBased(s) == Len(s.descriptors)

FreshDescriptor(s) == NextIndex(s.descriptors)

Open(s, path) ==
  LET des  == FreshDescriptor(s)
      file == ResolveFile(s, path)
      f    == file.node.idx
  IN  IF file.err # Ok THEN Failed(s, file.err)
      ELSE IF f \notin DOMAIN s.files THEN Failed(s, "Panic")
      ELSE IF s.files[f].descriptor # None THEN Failed(s, "FileAlreadyOpened")
      ELSE Done([s EXCEPT !.files[f].descriptor = des,
                          !.descriptors = Append(@, [file |-> f, offset |-> 0])],
                OpenOp(path, des))

(* Why descriptor d cannot be used, or Ok.                                  *)
DescriptorError(s, d) ==
  IF d \notin DOMAIN s.descriptors THEN "BadDescriptor"
  ELSE IF s.descriptors[d].file \notin DOMAIN s.files THEN "Panic"
  ELSE IF s.files[s.descriptors[d].file].descriptor # d THEN "DescriptorWasClosed"
  ELSE Ok

Close(s, d) ==
  IF DescriptorError(s, d) # Ok THEN Failed(s, DescriptorError(s, d))
  ELSE Done([s EXCEPT !.files[s.descriptors[d].file].descriptor = None], CloseOp(d))

FSync(s, d) ==
  IF DescriptorError(s, d) # Ok THEN Failed(s, DescriptorError(s, d))
  ELSE Done(s, FSyncOp(d))

(* Content.read returns what is left of the file, size bytes at most.       *)
\* Mutant: a read does not stop at the end of the file.
BytesReadUnbounded(size, offset, file_size) == size

\* Mutant: the size is subtracted once too often at the end of the file.
BytesReadSubtractedTwice(size, offset, file_size) ==
  IF size < file_size - offset THEN size ELSE file_size - offset - size

BytesRead(size, offset, file_size) ==
  IF size < file_size - offset THEN size ELSE file_size - offset

(* Content.write extends the file when it writes past its end.              *)
SizeWritten(size, offset, file_size) ==
  IF offset + size > file_size THEN offset + size ELSE file_size

(* Both advance the offset and assert that it is still within the file.     *)
Advanced(s, d, offset, op) ==
  IF offset > s.files[s.descriptors[d].file].size THEN Failed(s, "Panic")
  ELSE Done([s EXCEPT !.descriptors[d].offset = offset], op)

Read(s, d, size) ==
  LET offset    == s.descriptors[d].offset
      file_size == s.files[s.descriptors[d].file].size
  IN  IF DescriptorError(s, d) # Ok THEN Failed(s, DescriptorError(s, d))
      ELSE IF offset > file_size THEN Failed(s, "BadOffset")
      ELSE Advanced(s, d, offset + BytesRead(size, offset, file_size), ReadOp(d, size))

Write(s, d, src, size) ==
  LET offset == s.descriptors[d].offset
      f      == s.descriptors[d].file
      written == [s EXCEPT !.files[f].size = SizeWritten(size, offset, @)]
  IN  IF DescriptorError(s, d) # Ok THEN Failed(s, DescriptorError(s, d))
      ELSE IF offset > s.files[f].size THEN Failed(s, "BadOffset")
      ELSE Advanced(written, d, offset + size, WriteOp(d, src, size))

(***************************************************************************)
(* replay: apply a workload from the left, stop at the first error.  The    *)
(* descriptor an Open was recorded with is ignored.                         *)
(***************************************************************************)
Apply(s, op) ==
  CASE op.kind = "MkDir"    -> MkDir(s, op.path)
    [] op.kind = "Create"   -> Create(s, op.path)
    [] op.kind = "Remove"   -> Remove(s, op.path)
    [] op.kind = "Hardlink" -> Hardlink(s, op.old_path, op.new_path)
    [] op.kind = "Rename"   -> Rename(s, op.old_path, op.new_path)
    [] op.kind = "Open"     -> Open(s, op.path)
    [] op.kind = "Close"    -> Close(s, op.des)
    [] op.kind = "Read"     -> Read(s, op.des, op.size)
    [] op.kind = "Write"    -> Write(s, op.des, op.src_offset, op.size)
    [] op.kind = "FSync"    -> FSync(s, op.des)
    [] op.kind = "Symlink"  -> Symlink(s, op.target, op.linkpath)

ReplayNext(out, op) == IF out.err = Ok THEN Apply(out.fs, op) ELSE out

Replay(s, ops) ==
  LET replayed[n \in Nat] ==
        IF n = 0 THEN [err |-> Ok, fs |-> s] ELSE ReplayNext(replayed[n - 1], ops[n])
  IN  replayed[Len(ops)]

=============================================================================
