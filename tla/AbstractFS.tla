------------------------------ MODULE AbstractFS ------------------------------
(***************************************************************************)
(* AbstractFS as a state machine: any client calls any operation with any   *)
(* of the given paths, sizes and descriptors, in any order.  The generator, *)
(* the mutator and the reducer are such clients (module Generator models    *)
(* the first).  A call that fails leaves what its outcome says behind.      *)
(***************************************************************************)
EXTENDS FsInvariants

CONSTANTS Paths,    \* the paths clients pass
          Sizes     \* the sizes clients read and write

ASSUME PathsAssumption == Paths \subseteq PathName
ASSUME SizesAssumption == Sizes \subseteq Nat

VARIABLE fs         \* the AbstractFS value

vars == fs

Descriptors == 1 .. Len(fs.descriptors) + 1     \* the last one was never opened

Call(outcome) == fs' = outcome.fs

RemoveCall   == \E p \in Paths : Call(Remove(fs, p))
MkDirCall    == \E p \in Paths : Call(MkDir(fs, p))
CreateCall   == \E p \in Paths : Call(Create(fs, p))
HardlinkCall == \E old \in Paths, new \in Paths : Call(Hardlink(fs, old, new))
SymlinkCall  == \E target \in Paths, p \in Paths : Call(Symlink(fs, target, p))
RenameCall   == \E old, new \in Paths : Call(Rename(fs, old, new))
OpenCall     == \E p \in Paths : Call(Open(fs, p))
CloseCall    == \E d \in Descriptors : Call(Close(fs, d))
ReadCall     == \E d \in Descriptors, size \in Sizes : Call(Read(fs, d, size))
WriteCall    == \E d \in Descriptors, size \in Sizes : Call(Write(fs, d, 0, size))
FSyncCall    == \E d \in Descriptors : Call(FSync(fs, d))

Init == fs = NewFS

Next ==
  \/ RemoveCall \/ MkDirCall \/ CreateCall \/ HardlinkCall \/ SymlinkCall \/ RenameCall
  \/ OpenCall \/ CloseCall \/ ReadCall \/ WriteCall \/ FSyncCall

Spec == Init /\ [][Next]_vars

(***************************************************************************)
(* Types.                                                                   *)
(***************************************************************************)
\* The fields of AbstractFS hold what fs.rs and node.rs declare: offsets and
\* sizes, the unsigned numbers of the code, never go below zero.
TypeOK == fs \in FS

(***************************************************************************)
(* Safety.                                                                  *)
(***************************************************************************)
\* Every entry of every directory, deleted directories included, refers to a
\* node that exists: the unwraps of dir(), file_mut() and sym() cannot fail
\* however the tree was built.
NoDanglingEntry == EntriesAllocated(fs)

\* A file and its open descriptor name each other, no two files share one, and
\* no descriptor, not even a closed one, is positioned past the end of its file:
\* what the assertions after read and write rest on.
DescriptorsConsistent == FilesKnowTheirDescriptors(fs) /\ OffsetsWithinFiles(fs)

\* The directories form a forest, deleted ones included.  rename alone moves
\* directories; that it keeps them a forest rests on the directories traversed
\* by a resolution that may go through symlinks, and the search of alive() ends
\* because of it.
DirsFormForest == Forest(fs)

(* Every call a client can make.                                            *)
Calls ==
  {RemoveOp(p) : p \in Paths} \cup {OpenOp(p, 0) : p \in Paths}
  \cup {MkDirOp(p) : p \in Paths} \cup {CreateOp(p) : p \in Paths}
  \cup {HardlinkOp(old, new) : old \in Paths, new \in Paths}
  \cup {SymlinkOp(target, p) : target \in Paths, p \in Paths}
  \cup {RenameOp(old, new) : old, new \in Paths}
  \cup {CloseOp(d) : d \in Descriptors} \cup {FSyncOp(d) : d \in Descriptors}
  \cup {ReadOp(d, size) : d \in Descriptors, size \in Sizes}
  \cup {WriteOp(d, 0, size) : d \in Descriptors, size \in Sizes}

\* No call hits an index outside its vector or a failed assertion.
NoCallPanics == \A op \in Calls : Apply(fs, op).err # "Panic"

\* A rename that returns an error has changed nothing, as the other calls,
\* which fail before they change anything.  It inserts the new entry before it
\* resolves the parent of the old name again: if that second resolution could
\* fail, the node would be left under both names.
FailedRenameChangesNothing ==
  \A old, new \in Paths :
    LET out == Rename(fs, old, new) IN out.err # Ok => out.fs = fs

(* The entry a path names, no symlink followed in its basename.             *)
EntryOf(s, path) == <<ResolveDir(s, ParentOf(path)).node.idx, NameOf(path)>>

\* A successful rename moves one entry and touches no other: the node is under
\* the new entry, gone from the old one, and whatever else changed was replaced
\* by it.  A rename onto the very same entry, which removes it, is set apart.
RenameMovesOneEntry ==
  \A old, new \in Paths :
    LET out  == Rename(fs, old, new)
        from == EntryOf(fs, old)
        to   == EntryOf(fs, new)
    IN  out.err = Ok /\ from # to =>
          out.fs.dirs = [fs.dirs EXCEPT ![to[1]][to[2]] = fs.dirs[from[1]][from[2]],
                                        ![from[1]][from[2]] = Absent]

\* Replaying the recording on a new AbstractFS succeeds, rebuilds this tree and
\* records the same operations: "Every succesful operation is recorded and can
\* be replayed from scratch" (fs.rs).  replay ignores the descriptors recorded
\* with Open, so they must come out the same.
ReplayRebuildsTree == Replay(NewFS, fs.recording) = [err |-> Ok, fs |-> fs]

=============================================================================
