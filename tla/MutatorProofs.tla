---------------------------- MODULE MutatorProofs ----------------------------
(***************************************************************************)
(* The mutator and the generator, for any names and configurations.         *)
(* That their workloads replay holds for any stack.  That whatever they     *)
(* draw can be applied needs one deep enough for the links and paths of     *)
(* the workload: links never form a loop, since a link is made after all    *)
(* that its target names, so the resolution of a path makes no more calls   *)
(* than the path and all the targets have names.                            *)
(***************************************************************************)
EXTENDS Mutator, Generator, OperationProofs

(***************************************************************************)
(* What is drawn from the alive nodes is an operation only if every entry   *)
(* has a name, which holds when no operation makes one for the root.        *)
(***************************************************************************)
NoEmptyNames(s) == \A d \in DOMAIN s.dirs : s.dirs[d][EmptyName] = Absent

Named(op) ==
  /\ op.kind \in {"MkDir", "Create"} => op.path # Root
  /\ op.kind \in {"Hardlink", "Rename"} => op.new_path # Root
  /\ op.kind = "Symlink" => op.linkpath # Root

(* Made from s, it still has none.                                          *)
KeepsNames(s, t) == "dirs" \in DOMAIN t /\ NoEmptyNames(t)

(* Entries made under names, and entries removed.                           *)
LEMMA EntriesNamed ==
  ASSUME NEW t \in FS, NoEmptyNames(t), NEW d, NEW node
  PROVE  /\ \A name \in Names : KeepsNames(t, Insert(t, d, name, node))
         /\ \A name \in Keys : KeepsNames(t, Delete(t, d, name))
<1>1. EmptyName \in Keys /\ \A e \in DOMAIN t.dirs : t.dirs[e] \in [Keys -> Node \cup {Absent}]
  <2>1. t.dirs \in Seq(Dir)
    BY FieldsOf
  <2>2. \A e \in DOMAIN t.dirs : t.dirs[e] \in Dir
    BY <2>1
  <2> QED BY <2>2 DEF Keys, Dir
<1>2. ASSUME NEW name \in Keys, NEW x, name # EmptyName \/ x = Absent,
             NEW u, u = [t EXCEPT !.dirs[d][name] = x]
      PROVE  KeepsNames(t, u)
  <2>1. "dirs" \in DOMAIN u /\ u.dirs = [t.dirs EXCEPT ![d][name] = x]
    BY <1>2 DEF FS
  <2>2. DOMAIN u.dirs = DOMAIN t.dirs
    BY <2>1
  <2>3. ASSUME NEW e \in DOMAIN t.dirs
        PROVE  u.dirs[e][EmptyName] = Absent
    <3>1. CASE e # d
      BY <2>1, <3>1 DEF NoEmptyNames
    <3>2. CASE e = d
      <4>1. u.dirs[e] = [t.dirs[e] EXCEPT ![name] = x]
        BY <2>1, <3>2
      <4>2. t.dirs[e][EmptyName] = Absent
        BY DEF NoEmptyNames
      <4> QED BY <1>1, <1>2, <4>1, <4>2
    <3> QED BY <3>1, <3>2
  <2> QED BY <2>1, <2>2, <2>3 DEF KeepsNames, NoEmptyNames
<1>3. \A name \in Names : name \in Keys /\ name # EmptyName
  BY EmptyNameAssumption DEF Keys
<1> QED BY <1>2, <1>3 DEF Insert, Delete

(* Recording an operation changes no entry.                                 *)
LEMMA DoneNamed ==
  ASSUME NEW s, NEW t, KeepsNames(s, t), NEW op
  PROVE  NoEmptyNames(Done(t, op).fs)
<1>1. PICK u : u = [t EXCEPT !.recording = Append(@, op)]
  OBVIOUS
<1>2. u.dirs = t.dirs
  BY <1>1 DEF KeepsNames
<1>3. Done(t, op).fs = u
  BY <1>1 DEF Done
<1> QED BY <1>2, <1>3 DEF KeepsNames, NoEmptyNames

(* mkdir, create and symlink make one entry for a new node.                 *)
LEMMA MakersNamed ==
  ASSUME NEW s, Consistent(s), NoEmptyNames(s), NEW path \in PathName, path # Root,
         NEW target \in PathName
  PROVE  /\ MkDir(s, path).err = Ok => NoEmptyNames(MkDir(s, path).fs)
         /\ Create(s, path).err = Ok => NoEmptyNames(Create(s, path).fs)
         /\ Symlink(s, target, path).err = Ok => NoEmptyNames(Symlink(s, target, path).fs)
<1>1. NameOf(path) \in Names
  BY PathFacts DEF IsRoot
<1>2. ASSUME NEW g, Consistent(g), NoEmptyNames(g), NEW d, NEW node, NEW op
      PROVE  NoEmptyNames(Done(Insert(g, d, NameOf(path), node), op).fs)
  <2>1. g \in FS
    BY <1>2 DEF Consistent, Tree
  <2>2. KeepsNames(g, Insert(g, d, NameOf(path), node))
    BY <1>1, <1>2, <2>1, EntriesNamed
  <2> QED BY <2>2, DoneNamed
<1>3. ASSUME MkDir(s, path).err = Ok
      PROVE  NoEmptyNames(MkDir(s, path).fs)
  <2>1. PICK g : g = [s EXCEPT !.dirs = Append(@, EmptyDir)]
    OBVIOUS
  <2>2. Consistent(g)
    BY <2>1, NewDir
  <2>3. NoEmptyNames(g)
    <3>1. s.dirs \in Seq(Dir) /\ g.dirs = Append(s.dirs, EmptyDir) /\ EmptyDir \in Dir
      BY <2>1 DEF Consistent, Tree, FS, EmptyDir, Dir
    <3>2. EmptyDir[EmptyName] = Absent
      BY DEF EmptyDir, Keys
    <3> HIDE DEF EmptyDir
    <3> QED BY <3>1, <3>2 DEF NoEmptyNames
  <2>4. PICK d, node : d = NewEntry(s, path).node.idx /\ node = DirNode(NextIndex(s.dirs))
    OBVIOUS
  <2>5. MkDir(s, path) = Done(Insert(g, d, NameOf(path), node), MkDirOp(path))
    BY <1>3, <2>1, <2>4 DEF MkDir, Failed
  <2> QED BY <1>2, <2>2, <2>3, <2>5
<1>4. ASSUME Create(s, path).err = Ok
      PROVE  NoEmptyNames(Create(s, path).fs)
  <2>1. PICK g : g = [s EXCEPT !.files = Append(@, [descriptor |-> None, size |-> 0])]
    OBVIOUS
  <2>2. Consistent(g) /\ g.dirs = s.dirs
    BY <2>1, NewFile
  <2>3. NoEmptyNames(g)
    BY <2>2 DEF NoEmptyNames
  <2>4. PICK d, node : d = NewEntry(s, path).node.idx /\ node = FileNode(NextIndex(s.files))
    OBVIOUS
  <2>5. Create(s, path) = Done(Insert(g, d, NameOf(path), node), CreateOp(path))
    BY <1>4, <2>1, <2>4 DEF Create, Failed
  <2> QED BY <1>2, <2>2, <2>3, <2>5
<1>5. ASSUME Symlink(s, target, path).err = Ok
      PROVE  NoEmptyNames(Symlink(s, target, path).fs)
  <2>1. PICK g : g = [s EXCEPT !.symlinks = Append(@, target)]
    OBVIOUS
  <2>2. Consistent(g) /\ g.dirs = s.dirs
    BY <2>1, NewSymlink
  <2>3. NoEmptyNames(g)
    BY <2>2 DEF NoEmptyNames
  <2>4. PICK d, node : d = NewEntry(s, path).node.idx /\ node = SymlinkNode(NextIndex(s.symlinks))
    OBVIOUS
  <2>5. Symlink(s, target, path) = Done(Insert(g, d, NameOf(path), node), SymlinkOp(target, path))
    BY <1>5, <2>1, <2>4 DEF Symlink, Failed
  <2> QED BY <1>2, <2>2, <2>3, <2>5
<1> QED BY <1>3, <1>4, <1>5

(* remove, hardlink and rename delete an entry, make one, or both.          *)
LEMMA MoversNamed ==
  ASSUME NEW s, Consistent(s), NoEmptyNames(s), NEW old \in PathName, NEW new \in PathName
  PROVE  /\ Remove(s, old).err = Ok => NoEmptyNames(Remove(s, old).fs)
         /\ new # Root /\ Hardlink(s, old, new).err = Ok => NoEmptyNames(Hardlink(s, old, new).fs)
         /\ new # Root /\ Rename(s, old, new).err = Ok => NoEmptyNames(Rename(s, old, new).fs)
<1>1. NameOf(old) \in Keys /\ (new # Root => NameOf(new) \in Names)
  BY PathFacts DEF IsRoot
<1>2. s \in FS
  BY DEF Consistent, Tree
<1>3. ASSUME Remove(s, old).err = Ok
      PROVE  NoEmptyNames(Remove(s, old).fs)
  <2>1. PICK d : d = ResolveDir(s, ParentOf(old)).node.idx
    OBVIOUS
  <2>2. Remove(s, old) = Done(Delete(s, d, NameOf(old)), RemoveOp(old))
    BY <1>3, <2>1 DEF Remove, Failed, Ok
  <2>3. KeepsNames(s, Delete(s, d, NameOf(old)))
    BY <1>1, <1>2, EntriesNamed
  <2> QED BY <2>2, <2>3, DoneNamed
<1>4. ASSUME new # Root, Hardlink(s, old, new).err = Ok
      PROVE  NoEmptyNames(Hardlink(s, old, new).fs)
  <2>1. PICK d, node : d = NewEntry(s, new).node.idx /\ node = ResolveFile(s, old).node
    OBVIOUS
  <2>2. Hardlink(s, old, new) = Done(Insert(s, d, NameOf(new), node), HardlinkOp(old, new))
    BY <1>4, <2>1 DEF Hardlink, Failed, Ok
  <2>3. KeepsNames(s, Insert(s, d, NameOf(new), node))
    BY <1>1, <1>2, <1>4, EntriesNamed
  <2> QED BY <2>2, <2>3, DoneNamed
<1>5. ASSUME new # Root, Rename(s, old, new).err = Ok
      PROVE  NoEmptyNames(Rename(s, old, new).fs)
  <2>1. PICK d, node : d = ResolveDir(s, ParentOf(new)).node.idx /\ node = ResolveNode(s, old, FALSE).node
    OBVIOUS
  <2>2. PICK t : t = Insert(s, d, NameOf(new), node)
    OBVIOUS
  <2>3. PICK c : c = ResolveDir(t, ParentOf(old)).node.idx
    OBVIOUS
  <2>4. Rename(s, old, new) = Done(Delete(t, c, NameOf(old)), RenameOp(old, new))
    BY <1>5, <2>1, <2>2, <2>3 DEF Rename, Failed, Ok, Crashes, UnlinkOld
  <2>5. NoEmptyNames(t)
    BY <1>1, <1>2, <1>5, <2>2, EntriesNamed DEF KeepsNames
  <2>6. t \in FS
    <3>1. Moves(s, old, new)
      BY <1>5, RenameRefused
    <3>2. t = Linked(s, old, new) /\ Consistent(t)
      <4>1. t = Linked(s, old, new)
        BY <2>1, <2>2 DEF Linked, SourceOf
      <4>2. /\ ResolveNode(s, old, FALSE) \in Sound(s) /\ ResolveDir(s, ParentOf(new)) \in Sound(s)
            /\ IsDirOf(s, ResolveDir(s, ParentOf(new)))
        BY ResolveNodeSound, ResolveDirSound, PathFacts DEF Consistent
      <4>3. ResolveNode(s, old, FALSE).err = Ok /\ ResolveDir(s, ParentOf(new)).err = Ok
        BY <3>1 DEF Moves, SourceOf
      <4>4. d \in DOMAIN s.dirs /\ node \in Node /\ NodeAllocated(s, node)
        BY <2>1, <4>2, <4>3 DEF Sound, IsDirOf
      <4>5. NameOf(new) \in Keys /\ RenameOp(old, new) \in Operation
        BY PathFacts, OperationTypes
      <4> QED BY <2>2, <4>1, <4>4, <4>5, InsertGood
    <3> QED BY <3>2 DEF Consistent, Tree
  <2>7. KeepsNames(t, Delete(t, c, NameOf(old)))
    BY <1>1, <2>5, <2>6, EntriesNamed
  <2> QED BY <2>4, <2>7, DoneNamed
<1> QED BY <1>3, <1>4, <1>5

(* Any operation but one that makes an entry for the root.                  *)
LEMMA ApplyNamed ==
  ASSUME NEW s, Consistent(s), NoEmptyNames(s), NEW op \in Operation, Named(op)
  PROVE  NoEmptyNames(Apply(s, op).fs)
<1>1. s \in FS
  BY DEF Consistent, Tree
<1>2. CASE Apply(s, op).err # Ok
  BY <1>2, ApplyAppends
<1>3. CASE Apply(s, op).err = Ok
  <2>1. CASE op \in [kind : {"MkDir", "Create", "Remove"}, path : PathName]
    <3>1. /\ op.path \in PathName
          /\ \/ op.kind = "MkDir" /\ op.path # Root /\ Apply(s, op) = MkDir(s, op.path)
             \/ op.kind = "Create" /\ op.path # Root /\ Apply(s, op) = Create(s, op.path)
             \/ op.kind = "Remove" /\ Apply(s, op) = Remove(s, op.path)
      BY <2>1 DEF Apply, Named
    <3> QED BY <1>3, <3>1, MakersNamed, MoversNamed
  <2>2. CASE op \in [kind : {"Hardlink", "Rename"}, old_path : PathName, new_path : PathName]
    <3>1. /\ op.old_path \in PathName /\ op.new_path \in PathName /\ op.new_path # Root
          /\ \/ Apply(s, op) = Hardlink(s, op.old_path, op.new_path)
             \/ Apply(s, op) = Rename(s, op.old_path, op.new_path)
      BY <2>2 DEF Apply, Named
    <3> QED BY <1>3, <3>1, MoversNamed
  <2>3. CASE op \in [kind : {"Symlink"}, target : PathName, linkpath : PathName]
    <3>1. /\ op.target \in PathName /\ op.linkpath \in PathName /\ op.linkpath # Root
          /\ Apply(s, op) = Symlink(s, op.target, op.linkpath)
      BY <2>3 DEF Apply, Named
    <3> QED BY <1>3, <3>1, MakersNamed
  <2>4. CASE op.kind \in {"Open", "Close", "FSync", "Read", "Write"}
    <3>1. Apply(s, op).fs.dirs = s.dirs
      BY <1>1, <2>4, DescriptorsKeepTree DEF Apply, SameTree
    <3> QED BY <3>1 DEF NoEmptyNames
  <2> QED BY <2>1, <2>2, <2>3, <2>4 DEF Operation
<1> QED BY <1>2, <1>3

(* Trees made of such operations.                                           *)
Plain(s) == Recorded(s) /\ NoEmptyNames(s) /\ \A i \in DOMAIN s.recording : Named(s.recording[i])

LEMMA NewFSPlain == Plain(NewFS)
<1>1. \A n \in Keys : EmptyDir[n] = Absent
  BY DEF EmptyDir
<1>2. NewFS.dirs = <<EmptyDir>> /\ NewFS.recording = <<>>
  BY DEF NewFS
<1>3. \A d \in DOMAIN <<EmptyDir>> : <<EmptyDir>>[d] = EmptyDir
  OBVIOUS
<1> HIDE DEF EmptyDir
<1> QED BY <1>1, <1>2, <1>3, NewFSRecorded DEF Plain, NoEmptyNames, Keys

(* A named operation is recorded as one.                                    *)
LEMMA ApplyPlain ==
  ASSUME NEW s, Plain(s), NEW op \in Operation, Named(op)
  PROVE  Plain(Apply(s, op).fs)
<1>1. Recorded(s) /\ Consistent(s) /\ s.recording \in Seq(Operation)
  BY FieldsOf DEF Plain, Recorded, Consistent, Tree
<1>2. Recorded(Apply(s, op).fs) /\ NoEmptyNames(Apply(s, op).fs)
  BY <1>1, ApplyRecorded, ApplyNamed DEF Plain
<1>3. PICK r : r = Apply(s, op).fs.recording
  OBVIOUS
<1>4. \A i \in DOMAIN r : Named(r[i])
  <2>1. CASE Apply(s, op).err # Ok
    BY <1>1, <1>3, <2>1, ApplyAppends DEF Plain
  <2>2. CASE Apply(s, op).err = Ok
    <3>1. PICK o \in Operation : SameCall(op, o) /\ r = Append(s.recording, o)
      BY <1>1, <1>3, <2>2, ApplyAppends
    <3>2. Named(o)
      BY <3>1 DEF SameCall, Named, OpenOp
    <3> QED BY <1>1, <3>1, <3>2 DEF Plain
  <2> QED BY <2>1, <2>2
<1> QED BY <1>2, <1>3, <1>4 DEF Plain

(* So is a replay of such operations, on such a tree.                       *)
LEMMA ReplayPlain ==
  ASSUME NEW s, Plain(s), NEW ops \in Seq(Operation), \A i \in DOMAIN ops : Named(ops[i])
  PROVE  Plain(Replay(s, ops).fs)
<1>1. Len(ops) \in Nat /\ \A k \in 1 .. Len(ops) : ops[k] \in Operation /\ Named(ops[k])
  OBVIOUS
<1>2. PICK f : IsRun(f, s, ops, Len(ops)) /\ Replay(s, ops) = f[Len(ops)]
  BY <1>1, ReplayIsRun
<1> DEFINE T == {n \in Nat : n <= Len(ops) => Plain(f[n].fs)}
<1>3. 0 \in T
  BY <1>2 DEF IsRun, Started
<1>4. ASSUME NEW n \in Nat, n \in T
      PROVE  n + 1 \in T
  <2> SUFFICES ASSUME n + 1 <= Len(ops)
               PROVE  Plain(f[n + 1].fs)
    OBVIOUS
  <2>1. n + 1 \in 1 .. Len(ops) /\ (n + 1) - 1 = n /\ Plain(f[n].fs)
    BY <1>1, <1>4
  <2>2. f[n + 1] = ReplayNext(f[n], ops[n + 1])
    BY <1>2, <2>1 DEF IsRun
  <2>3. PICK op \in Operation : op = ops[n + 1] /\ Named(op)
    BY <1>1, <2>1
  <2> QED BY <2>1, <2>2, <2>3, ApplyPlain DEF ReplayNext
<1> HIDE DEF T
<1>5. Nat \subseteq T
  BY <1>3, <1>4, NatSetInduction
<1> QED BY <1>1, <1>2, <1>5 DEF T

(***************************************************************************)
(* What may be drawn in such a tree.                                        *)
(***************************************************************************)
DirsFound(s)  == (DOMAIN s.dirs) \X PathName
FilesFound(s) == (DOMAIN s.files) \X PathName
LinksFound(s) == (DOMAIN s.symlinks) \X PathName

(* The entries of directories that were found.                              *)
LEMMA ChildrenFound ==
  ASSUME NEW s, Tree(s), NoEmptyNames(s), NEW found \in SUBSET DirsFound(s)
  PROVE  /\ ChildrenIn(s, found, "Dir") \in SUBSET DirsFound(s)
         /\ ChildrenIn(s, found, "File") \in SUBSET FilesFound(s)
         /\ ChildrenIn(s, found, "Symlink") \in SUBSET LinksFound(s)
<1>1. ASSUME NEW at \in found, NEW n \in Keys, s.dirs[at[1]][n].kind \in {"Dir", "File", "Symlink"}
      PROVE  Join(at[2], n) \in PathName /\ NodeAllocated(s, s.dirs[at[1]][n])
  <2>1. at[1] \in DOMAIN s.dirs /\ at[2] \in PathName
    BY DEF DirsFound
  <2>2. Absent.kind \notin {"Dir", "File", "Symlink"}
    BY DEF Absent
  <2>3. n \in Names
    BY <1>1, <2>1, <2>2 DEF NoEmptyNames, Keys
  <2> QED BY <2>1, <2>3, EntryFacts DEF Join, PathName
<1>2. ASSUME NEW kind, NEW x \in ChildrenIn(s, found, kind)
      PROVE  \E at \in found, n \in Keys : /\ s.dirs[at[1]][n].kind = kind
                                           /\ x = <<s.dirs[at[1]][n].idx, Join(at[2], n)>>
  BY DEF ChildrenIn, ChildrenOf
<1>3. ASSUME NEW x \in ChildrenIn(s, found, "Dir")
      PROVE  x \in DirsFound(s)
  BY <1>1, <1>2 DEF NodeAllocated, DirsFound
<1>4. ASSUME NEW x \in ChildrenIn(s, found, "File")
      PROVE  x \in FilesFound(s)
  BY <1>1, <1>2 DEF NodeAllocated, FilesFound
<1>5. ASSUME NEW x \in ChildrenIn(s, found, "Symlink")
      PROVE  x \in LinksFound(s)
  BY <1>1, <1>2 DEF NodeAllocated, LinksFound
<1> QED BY <1>3, <1>4, <1>5

(* The rounds of a search, one for each directory of the tree.              *)
Rounds(s, queue, r) ==
  /\ r[0] = queue /\ Search(s, queue) = r[Len(s.dirs)]
  /\ \A n \in Nat : /\ r[n] \in SUBSET DirsFound(s)
                    /\ r[n + 1] = r[n] \cup ChildrenIn(s, r[n], "Dir")

LEMMA SearchRuns ==
  ASSUME NEW s, Tree(s), NoEmptyNames(s), NEW queue \in SUBSET DirsFound(s)
  PROVE  \E r : Rounds(s, queue, r)
<1> DEFINE S == SUBSET DirsFound(s)
           Wider(found) == found \cup ChildrenIn(s, found, "Dir")
           g == [found \in S |-> Wider(found)]
           Recurs(f) == f = [steps \in Nat |-> IF steps = 0 THEN queue ELSE Wider(f[steps - 1])]
<1>1. \A found \in S : Wider(found) \in S
  BY ChildrenFound
<1> HIDE DEF S
<1>2. queue \in S /\ g \in [S -> S]
  BY <1>1 DEF S
<1>3. PICK f \in [Nat -> S] : f[0] = queue /\ \A n \in Nat : f[n + 1] = g[f[n]]
  <2> HIDE DEF g
  <2> QED BY <1>2, RecursionOverNat
<1>4. \A steps \in Nat : f[steps] = IF steps = 0 THEN queue ELSE Wider(f[steps - 1])
  <2> SUFFICES ASSUME NEW steps \in Nat, steps # 0
               PROVE  f[steps] = Wider(f[steps - 1])
    BY <1>3
  <2>1. steps - 1 \in Nat /\ (steps - 1) + 1 = steps
    OBVIOUS
  <2>2. f[steps] = g[f[steps - 1]] /\ f[steps - 1] \in S
    <3> HIDE DEF g
    <3> QED BY <1>3, <2>1
  <2> HIDE DEF Wider
  <2> QED BY <2>2
<1>5. Recurs(f)
  <2>1. f = [steps \in Nat |-> f[steps]]
    BY <1>3
  <2> HIDE DEF Wider
  <2> QED BY <1>4, <2>1
<1>6. PICK r : r = CHOOSE h : Recurs(h)
  OBVIOUS
<1>7. Search(s, queue) = r[Len(s.dirs)]
  BY <1>6 DEF Search
<1>8. Recurs(r)
  <2> HIDE DEF Recurs
  <2> QED BY <1>5, <1>6
<1>9. r[0] = queue
  BY <1>8
<1>10. ASSUME NEW n \in Nat
       PROVE  r[n + 1] = Wider(r[n])
  <2>1. n + 1 \in Nat /\ n + 1 # 0 /\ (n + 1) - 1 = n
    OBVIOUS
  <2> HIDE DEF Wider
  <2> QED BY <1>8, <2>1
<1> DEFINE T == {n \in Nat : r[n] \in S}
<1>11. 0 \in T
  BY <1>2, <1>9
<1>12. ASSUME NEW n \in Nat, n \in T
       PROVE  n + 1 \in T
  BY <1>1, <1>10, <1>12
<1> HIDE DEF T
<1>13. Nat \subseteq T
  BY <1>11, <1>12, NatSetInduction
<1>14. \A n \in Nat : r[n] \in SUBSET DirsFound(s) /\ r[n + 1] = r[n] \cup ChildrenIn(s, r[n], "Dir")
  BY <1>10, <1>13 DEF T, S
<1> QED BY <1>7, <1>9, <1>14 DEF Rounds

(* A search finds directories, whatever it starts with.                     *)
LEMMA SearchFound ==
  ASSUME NEW s, Tree(s), NoEmptyNames(s), NEW queue \in SUBSET DirsFound(s)
  PROVE  Search(s, queue) \in SUBSET DirsFound(s)
<1>1. PICK r : Rounds(s, queue, r)
  BY SearchRuns
<1>2. Len(s.dirs) \in Nat
  BY FieldsOf DEF Tree
<1> QED BY <1>1, <1>2 DEF Rounds

(* Symlinks that were found lead to nodes that exist.                       *)
LEMMA FollowedFound ==
  ASSUME NEW s, Tree(s), NoEmptyNames(s), NEW found \in SUBSET DirsFound(s)
  PROVE  /\ FollowedTo(s, found, "Dir") \in SUBSET DirsFound(s)
         /\ FollowedTo(s, found, "File") \in SUBSET FilesFound(s)
<1>1. ASSUME NEW link \in ChildrenIn(s, found, "Symlink"), NEW node,
             node = ResolveNode(s, s.symlinks[link[1]], TRUE).node, node.kind \in {"Dir", "File"}
      PROVE  NodeAllocated(s, node) /\ link[2] \in PathName
  <2>1. link[1] \in DOMAIN s.symlinks /\ link[2] \in PathName
    BY ChildrenFound DEF LinksFound
  <2>2. s.symlinks[link[1]] \in PathName
    BY <2>1, SymlinkFacts
  <2>3. PICK r : r = ResolveNode(s, s.symlinks[link[1]], TRUE)
    OBVIOUS
  <2>4. r \in Sound(s)
    BY <2>2, <2>3, ResolveNodeSound
  <2>5. Absent.kind \notin {"Dir", "File"}
    BY DEF Absent
  <2>6. r.err = Ok /\ NodeAllocated(s, r.node)
    BY <1>1, <2>3, <2>4, <2>5 DEF Sound
  <2> QED BY <1>1, <2>1, <2>3, <2>6
<1>2. ASSUME NEW kind \in {"Dir", "File"}, NEW x \in FollowedTo(s, found, kind)
      PROVE  \E path \in PathName, i \in Nat :
               /\ x = <<i, path>>
               /\ kind = "Dir" => i \in DOMAIN s.dirs
               /\ kind = "File" => i \in DOMAIN s.files
  <2>1. PICK link \in ChildrenIn(s, found, "Symlink") :
          /\ ResolveNode(s, s.symlinks[link[1]], TRUE).node.kind = kind
          /\ x = <<ResolveNode(s, s.symlinks[link[1]], TRUE).node.idx, link[2]>>
    BY DEF FollowedTo
  <2>2. PICK node : node = ResolveNode(s, s.symlinks[link[1]], TRUE).node
    OBVIOUS
  <2>3. NodeAllocated(s, node) /\ link[2] \in PathName
    BY <1>1, <2>1, <2>2
  <2>4. DOMAIN s.dirs \subseteq Nat /\ DOMAIN s.files \subseteq Nat
    BY FieldsOf DEF Tree
  <2>5. node.idx \in Nat
    BY <2>1, <2>2, <2>3, <2>4 DEF NodeAllocated
  <2> QED BY <2>1, <2>2, <2>3, <2>5 DEF NodeAllocated
<1> QED BY <1>2 DEF DirsFound, FilesFound


(* What alive() finds exists.                                               *)
LEMMA AliveFound ==
  ASSUME NEW s, Tree(s), NoEmptyNames(s)
  PROVE  /\ Alive(s).dirs \in SUBSET DirsFound(s)
         /\ Alive(s).files \in SUBSET FilesFound(s)
         /\ Alive(s).files_symlinked \in SUBSET FilesFound(s)
         /\ Alive(s).symlinks \in SUBSET PathName
<1>1. PICK first : first = Search(s, {<<RootIndex, Root>>})
  OBVIOUS
<1>2. PICK second : second = Search(s, FollowedTo(s, first, "Dir"))
  OBVIOUS
<1>3. PICK found : found = first \cup second
  OBVIOUS
<1>4. /\ Alive(s).dirs = found \cup FollowedTo(s, second, "Dir")
      /\ Alive(s).files = ChildrenIn(s, found, "File")
      /\ Alive(s).files_symlinked = FollowedTo(s, found, "File")
      /\ Alive(s).symlinks = {link[2] : link \in ChildrenIn(s, found, "Symlink")}
  BY <1>1, <1>2, <1>3 DEF Alive
<1>5. {<<RootIndex, Root>>} \in SUBSET DirsFound(s)
  <2>1. Root \in PathName
    BY DEF PathName, Root
  <2> QED BY <2>1 DEF DirsFound, Tree, EntriesAllocated
<1>6. first \in SUBSET DirsFound(s)
  BY <1>1, <1>5, SearchFound
<1>7. second \in SUBSET DirsFound(s)
  BY <1>2, <1>6, FollowedFound, SearchFound
<1>8. found \in SUBSET DirsFound(s)
  BY <1>3, <1>6, <1>7
<1>9. FollowedTo(s, second, "Dir") \in SUBSET DirsFound(s)
  BY <1>7, FollowedFound
<1>10. ChildrenIn(s, found, "File") \in SUBSET FilesFound(s)
  BY <1>8, ChildrenFound
<1>11. FollowedTo(s, found, "File") \in SUBSET FilesFound(s)
  BY <1>8, FollowedFound
<1>12. {link[2] : link \in ChildrenIn(s, found, "Symlink")} \in SUBSET PathName
  BY <1>8, ChildrenFound DEF LinksFound
<1> QED BY <1>4, <1>8, <1>9, <1>10, <1>11, <1>12

(* The calls that make an entry under a path.                               *)
LEMMA NamingCalls ==
  ASSUME NEW p, p # Root
  PROVE  /\ Named(MkDirOp(p)) /\ Named(CreateOp(p))
         /\ \A q : Named(HardlinkOp(q, p)) /\ Named(RenameOp(q, p)) /\ Named(SymlinkOp(q, p))
<1>1. Named(MkDirOp(p)) /\ Named(CreateOp(p))
  BY DEF Named, MkDirOp, CreateOp
<1>2. \A q : Named(HardlinkOp(q, p)) /\ Named(RenameOp(q, p))
  BY DEF Named, HardlinkOp, RenameOp
<1>3. \A q : Named(SymlinkOp(q, p))
  BY DEF Named, SymlinkOp
<1> QED BY <1>1, <1>2, <1>3

(* The calls that make none.                                                *)
LEMMA OtherCalls ==
  /\ \A p, d : Named(RemoveOp(p)) /\ Named(OpenOp(p, d))
  /\ \A d, n, m : /\ Named(CloseOp(d)) /\ Named(FSyncOp(d))
                  /\ Named(ReadOp(d, n)) /\ Named(WriteOp(d, n, m))
<1>1. \A p, d : Named(RemoveOp(p)) /\ Named(OpenOp(p, d))
  BY DEF Named, RemoveOp, OpenOp
<1>2. \A d, n, m : /\ Named(CloseOp(d)) /\ Named(FSyncOp(d))
                  /\ Named(ReadOp(d, n)) /\ Named(WriteOp(d, n, m))
  BY DEF Named, CloseOp, FSyncOp, ReadOp, WriteOp
<1> QED BY <1>1, <1>2


(* What is drawn are operations, none of which makes an entry for the root. *)
LEMMA CallsDrawn ==
  ASSUME NEW s, Tree(s), NoEmptyNames(s), NEW kind \in Kinds, NEW name,
         kind \in NamingKinds => name \in Names,
         NEW op \in CallsFor(s, Alive(s), kind, name)
  PROVE  op \in Operation /\ Named(op)
<1>1. PICK alive : alive = Alive(s)
  OBVIOUS
<1>2. /\ alive.dirs \in SUBSET DirsFound(s) /\ alive.files \in SUBSET FilesFound(s)
      /\ alive.files_symlinked \in SUBSET FilesFound(s) /\ alive.symlinks \in SUBSET PathName
  BY <1>1, AliveFound
<1>3. /\ PathsOf(alive.dirs) \subseteq PathName /\ PathsOf(alive.files) \subseteq PathName
      /\ PathsOf(DirsExceptRoot(alive)) \subseteq PathName
      /\ PathsOf(ClosedFiles(s, alive)) \subseteq PathName
  BY <1>2 DEF PathsOf, DirsExceptRoot, ClosedFiles, DirsFound, FilesFound
<1>4. RemovablePaths(alive) \subseteq PathName /\ LinkTargets(alive, name) \subseteq PathName
  BY <1>2, <1>3 DEF RemovablePaths, LinkTargets
<1>5. OpenDescriptors(s, alive) \subseteq Nat
  <2>1. s.files \in Seq(File)
    BY FieldsOf DEF Tree
  <2>2. \A f \in DOMAIN s.files : s.files[f] \in File
    BY <2>1
  <2>3. \A f \in DOMAIN s.files : s.files[f].descriptor \in Nat
    BY <2>2 DEF File
  <2> QED BY <1>2, <2>3 DEF OpenDescriptors, FilesFound
<1>6. ASSUME kind \in NamingKinds, NEW p \in NewPaths(alive, name)
      PROVE  p \in PathName /\ p # Root
  BY <1>3, <1>6 DEF NewPaths, Join, PathName, Root
<1>7. op \in CallsFor(s, alive, kind, name)
  BY <1>1
<1>8. CASE kind \in NamingKinds
  <2>1. kind \in {"MkDir", "Create", "Hardlink", "Rename", "Symlink"}
    BY <1>8 DEF NamingKinds
  <2>2. \/ \E p \in NewPaths(alive, name) : op = MkDirOp(p) \/ op = CreateOp(p)
        \/ \E p \in NewPaths(alive, name), old \in PathName :
             op = HardlinkOp(old, p) \/ op = RenameOp(old, p) \/ op = SymlinkOp(old, p)
    BY <1>3, <1>4, <1>7, <2>1 DEF CallsFor
  <2> QED BY <1>6, <1>8, <2>2, OperationTypes, NamingCalls
<1>9. CASE kind \in {"Remove", "Open"}
  <2>1. \E p \in PathName : op = RemoveOp(p) \/ op = OpenOp(p, 0)
    BY <1>3, <1>4, <1>7, <1>9 DEF CallsFor
  <2> QED BY <2>1, OperationTypes, OtherCalls
<1>10. CASE kind \in {"Close", "Read", "Write", "FSync"}
  <2>1. \E d \in Nat, size \in Nat : op \in {CloseOp(d), FSyncOp(d), ReadOp(d, size), WriteOp(d, 0, size)}
    BY <1>5, <1>7, <1>10, SizesAreNumbers DEF CallsFor
  <2> QED BY <2>1, OperationTypes, OtherCalls
<1> QED BY <1>8, <1>9, <1>10 DEF Kinds, NamingKinds

(***************************************************************************)
(* Workloads: what such trees have recorded.                                *)
(***************************************************************************)
Workload(ops) == \E t : Plain(t) /\ t.recording = ops

(* A workload replays to itself.                                            *)
LEMMA WorkloadFacts ==
  ASSUME NEW ops, Workload(ops)
  PROVE  /\ ops \in Seq(Operation) /\ \A i \in DOMAIN ops : Named(ops[i])
         /\ Replay(NewFS, ops).err = Ok /\ Replay(NewFS, ops).fs.recording = ops
<1>1. PICK t : Plain(t) /\ t.recording = ops
  BY DEF Workload
<1>2. Replay(NewFS, ops) = Started(t)
  BY <1>1 DEF Plain, Recorded
<1>3. ops \in Seq(Operation)
  <2>1. t \in FS
    BY <1>1 DEF Plain, Recorded, Consistent, Tree
  <2> QED BY <1>1, <2>1, FieldsOf
<1> QED BY <1>1, <1>2, <1>3 DEF Plain, Started

(* What a replay has recorded is one.                                       *)
LEMMA ReplayWorkload ==
  ASSUME NEW ops \in Seq(Operation), \A i \in DOMAIN ops : Named(ops[i])
  PROVE  Workload(Replay(NewFS, ops).fs.recording)
BY NewFSPlain, ReplayPlain DEF Workload

(* A workload that differs from another by one operation, and in the        *)
(* descriptors.                                                             *)
LEMMA OneLess ==
  ASSUME NEW S, NEW long \in Seq(S), NEW short \in Seq(S), NEW i \in 1 .. Len(long),
         Len(long) = Len(short) + 1,
         \A k \in 1 .. Len(short) : k < i => Anonymous(short[k]) = Anonymous(long[k]),
         \A k \in 1 .. Len(short) : k >= i => Anonymous(short[k]) = Anonymous(long[k + 1])
  PROVE  ButDescriptors(short) = Seqs!RemoveAt(ButDescriptors(long), i)
<1>1. PICK n \in Nat : n = Len(short) /\ Len(long) = n + 1
  OBVIOUS
<1>2. PICK A : A = {Anonymous(op) : op \in S}
  OBVIOUS
<1>3. PICK a : a = ButDescriptors(short)
  OBVIOUS
<1>4. PICK b : b = ButDescriptors(long)
  OBVIOUS
<1>5. a \in Seq(A) /\ Len(a) = n /\ \A k \in 1 .. n : a[k] = Anonymous(short[k])
  BY <1>1, <1>2, <1>3 DEF ButDescriptors
<1>6. b \in Seq(A) /\ Len(b) = n + 1 /\ \A k \in 1 .. n + 1 : b[k] = Anonymous(long[k])
  BY <1>1, <1>2, <1>4 DEF ButDescriptors
<1>7. i \in 1 .. n + 1
  BY <1>1
<1>8. PICK w : w = Without(b, i)
  OBVIOUS
<1>9. /\ w \in Seq(A) /\ Len(w) = n
      /\ \A k \in 1 .. n : w[k] = IF k < i THEN b[k] ELSE b[k + 1]
  <2>1. b \in Seq(A) /\ Len(b) = n + 1
    BY <1>6
  <2> QED BY <1>7, <1>8, <2>1, WithoutOne
<1>10. \A k \in 1 .. n : a[k] = w[k]
  BY <1>1, <1>5, <1>6, <1>7, <1>9
<1>11. a = w
  BY <1>5, <1>9, <1>10
<1>12. Seqs!RemoveAt(b, i) = w
  BY <1>8 DEF Seqs!RemoveAt, Without
<1> QED BY <1>3, <1>4, <1>11, <1>12

(***************************************************************************)
(* The two edits.                                                           *)
(***************************************************************************)
(* remove: what is left replays, as what the replay records.                *)
LEMMA RemoveEdits ==
  ASSUME NEW ops, Workload(ops), NEW i \in DOMAIN ops, NEW out, out = RemoveAt(ops, i), out.err = Ok
  PROVE  /\ Workload(out.fs.recording) /\ Len(ops) = Len(out.fs.recording) + 1
         /\ ButDescriptors(out.fs.recording) = Seqs!RemoveAt(ButDescriptors(ops), i)
<1>1. ops \in Seq(Operation) /\ \A k \in DOMAIN ops : Named(ops[k])
  BY WorkloadFacts
<1>2. PICK n \in Nat : Len(ops) = n + 1 /\ i \in 1 .. n + 1
  <2>1. Len(ops) \in Nat /\ i \in 1 .. Len(ops)
    BY <1>1
  <2>2. PICK n : n = Len(ops) - 1
    OBVIOUS
  <2>3. n \in Nat /\ Len(ops) = n + 1 /\ i \in 1 .. n + 1
    BY <2>1, <2>2
  <2> QED BY <2>3
<1>3. PICK rest : rest = Without(ops, i)
  OBVIOUS
<1>4. /\ rest \in Seq(Operation) /\ Len(rest) = n
      /\ \A k \in 1 .. n : rest[k] = IF k < i THEN ops[k] ELSE ops[k + 1]
  BY <1>1, <1>2, <1>3, WithoutOne
<1>5. out = Replay(NewFS, rest)
  BY <1>3 DEF RemoveAt, Seqs!RemoveAt, Without
<1>6. \A k \in DOMAIN rest : Named(rest[k])
  <2> SUFFICES ASSUME NEW k \in 1 .. n
               PROVE  Named(rest[k])
    BY <1>4
  <2>1. k \in DOMAIN ops /\ k + 1 \in DOMAIN ops
    BY <1>1, <1>2
  <2> QED BY <1>1, <1>4, <2>1
<1>7. PICK short : short = out.fs.recording
  OBVIOUS
<1>8. Workload(short)
  BY <1>4, <1>5, <1>6, <1>7, ReplayWorkload
<1>9. short \in Seq(Operation) /\ OneGone(short, ops, i)
  <2>1. out = Replay(NewFS, Without(ops, i))
    BY <1>3, <1>5
  <2>2. ops \in Seq(Operation)
    BY <1>1
  <2> QED BY <1>2, <1>7, <2>1, <2>2, RemovalReplays DEF Recording
<1>10. /\ Len(short) = n
       /\ \A k \in 1 .. n : k < i => Anonymous(short[k]) = Anonymous(ops[k])
       /\ \A k \in 1 .. n : k >= i => Anonymous(short[k]) = Anonymous(ops[k + 1])
  <2>1. Len(short) = n
    BY <1>2, <1>9 DEF OneGone
  <2> QED BY <1>2, <1>9, <2>1 DEF OneGone
<1>11. ButDescriptors(short) = Seqs!RemoveAt(ButDescriptors(ops), i)
  BY <1>1, <1>2, <1>9, <1>10, OneLess
<1> QED BY <1>2, <1>7, <1>8, <1>10, <1>11

(* What append_one leaves: one operation more, or a rename that has failed. *)
Appended(s, t) == t = s \/ \E o \in Operation : t.recording = Append(s.recording, o)

LEMMA AppendOneAppends ==
  ASSUME NEW given, NEW s, Plain(s), NEW ops,
         NEW out \in AppendOne(given, s, Alive(s), ops), out.err = Ok
  PROVE  Plain(out.fs) /\ Appended(s, out.fs)
<1>1. PICK draw \in Draws(given, s, Alive(s), ops) : out = Unwrapped(draw)
  BY DEF AppendOne
<1>2. PICK kind \in Kinds :
        \E o \in UNION {CallsFor(s, Alive(s), kind, name) : name \in NamesFor(kind, ops)} :
          draw = [kind |-> kind, out |-> Apply(s, o)]
  BY <1>1 DEF Draws
<1>3. PICK op : \E name \in NamesFor(kind, ops) : /\ op \in CallsFor(s, Alive(s), kind, name)
                                               /\ draw.out = Apply(s, op)
  BY <1>2
<1>4. op \in Operation /\ Named(op)
  <2>1. PICK name \in NamesFor(kind, ops) : op \in CallsFor(s, Alive(s), kind, name)
    BY <1>3
  <2>2. kind \in NamingKinds => name \in Names
    BY <2>1 DEF NamesFor, FreshNames
  <2>3. Tree(s) /\ NoEmptyNames(s)
    BY DEF Plain, Recorded, Consistent
  <2> QED BY <2>1, <2>2, <2>3, CallsDrawn
<1>5. Consistent(s) /\ Plain(Apply(s, op).fs)
  BY <1>4, ApplyPlain DEF Plain, Recorded
<1>6. out.fs = Apply(s, op).fs
  <2>1. \/ Unwrapped(draw) = [err |-> Ok, fs |-> draw.out.fs]
        \/ Unwrapped(draw) = Failed(draw.out.fs, "Panic")
    BY DEF Unwrapped
  <2> QED BY <1>1, <1>3, <2>1 DEF Failed
<1>7. Apply(s, op).err # Ok => Apply(s, op).fs = s
  BY <1>4, <1>5, ApplyAppends
<1>8. Apply(s, op).err = Ok => \E o \in Operation : Apply(s, op).fs.recording = Append(s.recording, o)
  BY <1>4, <1>5, ApplyAppends
<1> QED BY <1>5, <1>6, <1>7, <1>8 DEF Appended

(* insert: so does the workload with one operation more.                    *)
LEMMA InsertEdits ==
  ASSUME NEW ops, Workload(ops), NEW given, NEW i \in 1 .. Len(ops) + 1,
         NEW out \in InsertAt(given, ops, i), out.err = Ok
  PROVE  /\ Workload(out.fs.recording)
         /\ \/ out.fs.recording = ops
            \/ /\ Len(out.fs.recording) = Len(ops) + 1
               /\ ButDescriptors(ops) = Seqs!RemoveAt(ButDescriptors(out.fs.recording), i)
<1>1. /\ ops \in Seq(Operation) /\ \A k \in DOMAIN ops : Named(ops[k])
      /\ Replay(NewFS, ops).err = Ok /\ Replay(NewFS, ops).fs.recording = ops
  BY WorkloadFacts
<1>2. PICK n \in Nat : n = Len(ops) /\ i \in 1 .. n + 1
  BY <1>1
<1>3. PICK p, m \in Nat : p = i - 1 /\ m = (n + 1) - i /\ p + m = n
  <2>1. PICK p, m : p = i - 1 /\ m = (n + 1) - i
    OBVIOUS
  <2>2. p \in Nat /\ m \in Nat /\ p + m = n
    BY <1>2, <2>1
  <2> QED BY <2>1, <2>2
<1>4. PICK a : a = SubSeq(ops, 1, i - 1)
  OBVIOUS
<1>5. PICK b : b = SubSeq(ops, i, Len(ops))
  OBVIOUS
<1>6. a = SubSeq(ops, 1, p) /\ b = SubSeq(ops, p + 1, p + m) /\ Len(ops) = p + m
  BY <1>2, <1>3, <1>4, <1>5
<1>7. /\ a \in Seq(Operation) /\ Len(a) = p /\ b \in Seq(Operation) /\ Len(b) = m
      /\ a \o b = ops
  BY <1>1, <1>6, CutInTwo
<1>8. (\A k \in 1 .. p : a[k] = ops[k]) /\ \A k \in 1 .. m : b[k] = ops[p + k]
  BY <1>1, <1>6, CutInTwo
<1>9. (\A k \in DOMAIN a : Named(a[k])) /\ \A k \in DOMAIN b : Named(b[k])
  <2>1. DOMAIN ops = 1 .. n /\ DOMAIN a = 1 .. p /\ DOMAIN b = 1 .. m
    BY <1>1, <1>2, <1>7
  <2>2. \A k \in 1 .. p : k \in 1 .. n
    BY <1>3
  <2>3. \A k \in 1 .. m : p + k \in 1 .. n
    BY <1>3
  <2> QED BY <1>1, <1>8, <2>1, <2>2, <2>3
<1>10. PICK before : before = Replay(NewFS, a)
  OBVIOUS
<1>11. out \in InsertAfter(given, before, ops, i)
  BY <1>4, <1>10 DEF InsertAt
<1>12. before.err = Ok
  BY <1>11 DEF InsertAfter
<1>13. PICK s : s = before.fs
  OBVIOUS
<1>14. /\ Plain(s) /\ before = Started(s)
       /\ s.recording \in Seq(Operation) /\ Len(s.recording) = p
       /\ \A k \in 1 .. p : SameCall(a[k], s.recording[k])
  BY <1>7, <1>9, <1>10, <1>12, <1>13, NewFSPlain, ReplayPlain, RecordingOfReplay
<1>15. PICK one \in AppendOne(given, s, Alive(s), ops) : out = ReplayAfter(one, ops, i)
  BY <1>11, <1>12, <1>13 DEF InsertAfter
<1>16. one.err = Ok /\ out = Replay(one.fs, b)
  BY <1>5, <1>15 DEF ReplayAfter
<1>17. Plain(one.fs) /\ Appended(s, one.fs)
  <2>1. Plain(s)
    BY <1>14
  <2>2. one.err = Ok
    BY <1>16
  <2> QED BY <2>1, <2>2, AppendOneAppends
<1>18. PICK r : r = out.fs.recording
  OBVIOUS
<1>19. Workload(r)
  BY <1>7, <1>9, <1>16, <1>17, <1>18, ReplayPlain DEF Workload
<1>20. CASE one.fs = s
  <2>1. Replay(NewFS, a \o b) = Replay(s, b)
    <3>1. Replay(NewFS, a) = Started(Replay(NewFS, a).fs) /\ Replay(NewFS, a).fs = s
      BY <1>10, <1>13, <1>14
    <3>2. a \in Seq(Operation) /\ b \in Seq(Operation)
      BY <1>7
    <3>3. Replay(NewFS, a \o b) = Replay(Replay(NewFS, a).fs, b)
      BY <3>1, <3>2, ReplayParts
    <3> QED BY <3>1, <3>3
  <2> QED BY <1>1, <1>7, <1>16, <1>18, <1>19, <1>20, <2>1
<1>21. CASE \E o \in Operation : one.fs.recording = Append(s.recording, o)
  <2>1. PICK o \in Operation : one.fs.recording = Append(s.recording, o)
    BY <1>21
  <2>2. PICK q : q = one.fs.recording
    OBVIOUS
  <2>3. Len(q) = p + 1 /\ \A k \in 1 .. p : q[k] = s.recording[k]
    BY <1>14, <2>1, <2>2
  <2>4. Extends(q, b, m, r)
    BY <1>7, <1>16, <1>17, <1>18, <2>2, ReplayReplayed DEF Replayed, Plain
  <2>5. /\ Len(r) = (p + 1) + m /\ \A k \in 1 .. p + 1 : r[k] = q[k]
        /\ \A k \in 1 .. m : SameCall(b[k], r[(p + 1) + k])
    BY <2>3, <2>4 DEF Extends
  <2>6. r \in Seq(Operation)
    BY <1>19, WorkloadFacts
  <2>7. Len(r) = Len(ops) + 1 /\ i \in 1 .. Len(r)
    BY <1>2, <1>3, <2>5
  <2>8. ASSUME NEW k \in 1 .. n, k < i
        PROVE  Anonymous(ops[k]) = Anonymous(r[k])
    <3>1. k \in 1 .. p /\ k \in 1 .. p + 1
      BY <1>2, <1>3, <2>8
    <3>2. SameCall(ops[k], r[k])
      BY <1>8, <1>14, <2>3, <2>5, <3>1
    <3> QED BY <3>2, SameCallAnonymous
  <2>9. ASSUME NEW k \in 1 .. n, k >= i
        PROVE  Anonymous(ops[k]) = Anonymous(r[k + 1])
    <3>1. PICK j : j = k - p
      OBVIOUS
    <3>2. j \in 1 .. m /\ k = p + j /\ k + 1 = (p + 1) + j
      BY <1>2, <1>3, <2>9, <3>1
    <3>3. SameCall(ops[k], r[k + 1])
      BY <1>8, <2>5, <3>2
    <3> QED BY <3>3, SameCallAnonymous
  <2>10. ButDescriptors(ops) = Seqs!RemoveAt(ButDescriptors(r), i)
    BY <1>1, <1>2, <2>6, <2>7, <2>8, <2>9, OneLess
  <2> QED BY <1>18, <1>19, <2>7, <2>10
<1> QED BY <1>17, <1>20, <1>21 DEF Appended

(***************************************************************************)
(* The mutator.                                                             *)
(***************************************************************************)
FitsLength == config \in Configurations /\ Len(input) <= config.max_length

IInv == FitsLength /\ Workload(input)

(* The first seed is the empty workload.                                    *)
LEMMA InitInv == Init => IInv
<1>1. Workload(<<>>)
  <2>1. NewFS.recording = <<>>
    BY DEF NewFS
  <2> QED BY <2>1, NewFSPlain DEF Workload
<1>2. ASSUME Init
      PROVE  FitsLength
  <2>1. config \in Configurations /\ Len(input) = 0
    BY <1>2 DEF Init
  <2>2. config.max_length \in Nat \ {0}
    BY <2>1, ConfigurationsAssumption
  <2> QED BY <2>1, <2>2 DEF FitsLength
<1> QED BY <1>1, <1>2 DEF IInv, Init

(* What a step may do to the workload.                                      *)
EditsOne ==
  input' # input =>
    /\ Len(input') <= config.max_length
    /\ \/ \E i \in DOMAIN input : ButDescriptors(input') = Seqs!RemoveAt(ButDescriptors(input), i)
       \/ \E i \in DOMAIN input' : ButDescriptors(input) = Seqs!RemoveAt(ButDescriptors(input'), i)

(* remove takes one operation away.                                         *)
LEMMA RemoveStep ==
  ASSUME IInv, RemoveOnce
  PROVE  IInv' /\ EditsOne
<1>1. PICK out \in Removals : Edited(out)
  BY DEF RemoveOnce
<1>2. PICK i \in DOMAIN input : out = RemoveAt(input, i)
  BY <1>1 DEF Removals
<1>3. config' = config /\ (out.err # Ok => input' = input)
  BY <1>1 DEF Edited
<1>4. ASSUME out.err = Ok
      PROVE  IInv' /\ EditsOne
  <2>1. input' = out.fs.recording
    BY <1>1, <1>4 DEF Edited
  <2>2. /\ Workload(input') /\ Len(input) = Len(input') + 1
        /\ ButDescriptors(input') = Seqs!RemoveAt(ButDescriptors(input), i)
    BY <1>2, <1>4, <2>1, RemoveEdits DEF IInv
  <2>3. Len(input') \in Nat /\ config.max_length \in Nat
    BY <2>2, WorkloadFacts, ConfigurationsAssumption DEF IInv, FitsLength
  <2>4. Len(input') <= config.max_length
    BY <2>2, <2>3 DEF IInv, FitsLength
  <2> QED BY <1>3, <2>2, <2>4 DEF IInv, FitsLength, EditsOne
<1>5. ASSUME out.err # Ok
      PROVE  IInv' /\ EditsOne
  BY <1>3, <1>5 DEF IInv, FitsLength, EditsOne
<1> QED BY <1>4, <1>5

(* insert adds one, unless a rename that it drew has failed.                *)
LEMMA InsertStep ==
  ASSUME IInv, InsertOnce
  PROVE  IInv' /\ EditsOne
<1>1. PICK out \in Insertions : Edited(out)
  BY DEF InsertOnce
<1>2. PICK i \in 1 .. Len(input) + 1 : out \in InsertAt(config.weights, input, i)
  BY <1>1 DEF Insertions
<1>3. config' = config /\ (out.err # Ok => input' = input)
  BY <1>1 DEF Edited
<1>4. ASSUME out.err = Ok
      PROVE  IInv' /\ EditsOne
  <2>1. input' = out.fs.recording
    BY <1>1, <1>4 DEF Edited
  <2>2. /\ Workload(input')
        /\ \/ input' = input
           \/ /\ Len(input') = Len(input) + 1
              /\ ButDescriptors(input) = Seqs!RemoveAt(ButDescriptors(input'), i)
    BY <1>2, <1>4, <2>1, InsertEdits DEF IInv
  <2>3. Len(input) \in Nat /\ config.max_length \in Nat /\ Len(input) < config.max_length
    BY WorkloadFacts, ConfigurationsAssumption DEF IInv, FitsLength, InsertOnce, MayInsert
  <2>4. Len(input') <= config.max_length
    BY <2>2, <2>3
  <2>5. Len(input') = Len(input) + 1 => i \in DOMAIN input'
    <3>1. input' \in Seq(Operation)
      BY <2>2, WorkloadFacts
    <3> QED BY <3>1
  <2> QED BY <1>3, <2>2, <2>4, <2>5 DEF IInv, FitsLength, EditsOne
<1>5. ASSUME out.err # Ok
      PROVE  IInv' /\ EditsOne
  BY <1>3, <1>5 DEF IInv, FitsLength, EditsOne
<1> QED BY <1>4, <1>5

(* Every step keeps the invariant.                                          *)
LEMMA NextInv == IInv /\ [Next]_vars => IInv' /\ EditsOne
<1> SUFFICES ASSUME IInv, [Next]_vars
             PROVE  IInv' /\ EditsOne
  OBVIOUS
<1>1. CASE UNCHANGED <<config, input>>
  BY <1>1 DEF IInv, FitsLength, EditsOne
<1>2. CASE RemoveOnce
  BY <1>2, RemoveStep
<1>3. CASE InsertOnce
  BY <1>3, InsertStep
<1>4. Mutate \/ NoMutationLeft \/ UNCHANGED vars => UNCHANGED <<config, input>>
  BY DEF Mutate, NoMutationLeft, vars
<1> QED BY <1>1, <1>2, <1>3, <1>4 DEF Next

(* A workload that went through any mutations is valid, and replays to      *)
(* itself, descriptors included (mutator.rs:38-47, 108-129).                *)
THEOREM MutatedWorkloadsAreValid == Spec => []WorkloadsReplayToThemselves
<1>1. IInv => WorkloadsReplayToThemselves
  BY WorkloadFacts DEF IInv, WorkloadsReplayToThemselves
<1> QED BY InitInv, NextInv, <1>1, PTL DEF Spec

(* A mutation that succeeds adds or removes one operation, and renumbers    *)
(* descriptors, within max_workload_length (mutator.rs:26-47, 104-129,      *)
(* greybox/mutator.rs:51-90).                                               *)
THEOREM MutationsEditOneOperation == Spec => EditsOneOperation
<1>1. ASSUME IInv, [Next]_vars
      PROVE  [EditsOne]_vars
  BY <1>1, NextInv
<1>2. Spec => [][EditsOne]_vars
  BY <1>1, InitInv, NextInv, PTL DEF Spec
<1> QED BY <1>2 DEF EditsOneOperation, EditsOne

(***************************************************************************)
(* What an operation adds to the tree.                                      *)
(***************************************************************************)
MadeBy(op) ==
  CASE op.kind \in {"MkDir", "Create"} -> {NameOf(op.path)}
    [] op.kind \in {"Hardlink", "Rename"} -> {NameOf(op.new_path)}
    [] op.kind = "Symlink" -> {NameOf(op.linkpath)}
    [] OTHER -> {}

(* Every entry of t is one of s, or under a name that was made.             *)
EntriesFrom(s, t, made) ==
  \A d \in DOMAIN t.dirs, n \in Keys :
    t.dirs[d][n] # Absent =>
      n \in made \/ (d \in DOMAIN s.dirs /\ s.dirs[d][n] = t.dirs[d][n])

(* From s to t there are so many more directories, and these links.         *)
Grown(s, t, made, more, links) ==
  /\ "dirs" \in DOMAIN t /\ "symlinks" \in DOMAIN t
  /\ EntriesFrom(s, t, made)
  /\ Len(t.dirs) = Len(s.dirs) + more
  /\ t.symlinks = links

SetTo(s, d, name, node) == [s EXCEPT !.dirs[d][name] = node]

(* An entry made or removed.                                                *)
LEMMA EntryGrown ==
  ASSUME NEW s, NEW g, g \in FS, NEW had, NEW more \in Nat, Grown(s, g, had, more, g.symlinks),
         NEW d, NEW name \in Keys
  PROVE  /\ \A node : Grown(s, Insert(g, d, name, node), had \cup {name}, more, g.symlinks)
         /\ Grown(s, Delete(g, d, name), had, more, g.symlinks)
<1>1. g.dirs \in Seq(Dir)
  BY FieldsOf
<1>2. \A e \in DOMAIN g.dirs : g.dirs[e] \in [Keys -> Node \cup {Absent}]
  BY <1>1 DEF Dir
<1>3. ASSUME NEW x, NEW made, had \subseteq made, x = Absent \/ name \in made,
             NEW t, t = SetTo(g, d, name, x)
      PROVE  Grown(s, t, made, more, g.symlinks)
  <2>1. /\ "dirs" \in DOMAIN t /\ "symlinks" \in DOMAIN t /\ t.symlinks = g.symlinks
        /\ t.dirs = [g.dirs EXCEPT ![d][name] = x]
    BY <1>3 DEF SetTo, FS
  <2>2. DOMAIN t.dirs = DOMAIN g.dirs /\ Len(t.dirs) = Len(g.dirs)
    BY <1>1, <2>1
  <2>3. ASSUME NEW e \in DOMAIN g.dirs, NEW n \in Keys
        PROVE  t.dirs[e][n] = IF e = d /\ n = name THEN x ELSE g.dirs[e][n]
    <3>1. CASE e # d
      BY <2>1, <3>1
    <3>2. CASE e = d
      <4>1. t.dirs[e] = [g.dirs[e] EXCEPT ![name] = x]
        BY <2>1, <3>2
      <4> QED BY <1>2, <3>2, <4>1
    <3> QED BY <3>1, <3>2
  <2>4. EntriesFrom(s, t, made)
    <3> SUFFICES ASSUME NEW e \in DOMAIN t.dirs, NEW n \in Keys, t.dirs[e][n] # Absent, n \notin made
                 PROVE  e \in DOMAIN s.dirs /\ s.dirs[e][n] = t.dirs[e][n]
      BY DEF EntriesFrom
    <3>1. e \in DOMAIN g.dirs /\ t.dirs[e][n] = g.dirs[e][n] /\ n \notin had
      BY <1>3, <2>2, <2>3
    <3> QED BY <3>1 DEF Grown, EntriesFrom
  <2>5. Len(t.dirs) = Len(s.dirs) + more
    BY <2>2 DEF Grown
  <2> QED BY <2>1, <2>4, <2>5 DEF Grown
<1>4. ASSUME NEW node
      PROVE  Grown(s, Insert(g, d, name, node), had \cup {name}, more, g.symlinks)
  BY <1>3 DEF Insert, SetTo
<1>5. Grown(s, Delete(g, d, name), had, more, g.symlinks)
  BY <1>3 DEF Delete, SetTo
<1> QED BY <1>4, <1>5

(* Recording the operation adds nothing.                                    *)
LEMMA DoneGrown ==
  ASSUME NEW s, NEW u, NEW made, NEW more, NEW links, Grown(s, u, made, more, links), NEW op
  PROVE  Grown(s, Done(u, op).fs, made, more, links)
<1>1. PICK t : t = [u EXCEPT !.recording = Append(@, op)]
  OBVIOUS
<1>2. "dirs" \in DOMAIN t /\ "symlinks" \in DOMAIN t /\ t.dirs = u.dirs /\ t.symlinks = u.symlinks
  BY <1>1 DEF Grown
<1>3. Done(u, op).fs = t
  BY <1>1 DEF Done
<1> QED BY <1>2, <1>3 DEF Grown, EntriesFrom

(* Both.                                                                    *)
LEMMA EntryDone ==
  ASSUME NEW s, NEW g, g \in FS, NEW more \in Nat, Grown(s, g, {}, more, g.symlinks),
         NEW d, NEW name \in Keys, NEW op
  PROVE  /\ \A node : Grown(s, Done(Insert(g, d, name, node), op).fs, {name}, more, g.symlinks)
         /\ Grown(s, Done(Delete(g, d, name), op).fs, {}, more, g.symlinks)
<1>1. ASSUME NEW node
      PROVE  Grown(s, Insert(g, d, name, node), {name}, more, g.symlinks)
  <2>1. {} \cup {name} = {name}
    OBVIOUS
  <2>2. Grown(s, Insert(g, d, name, node), {} \cup {name}, more, g.symlinks)
    BY EntryGrown
  <2> QED BY <2>1, <2>2
<1>2. Grown(s, Delete(g, d, name), {}, more, g.symlinks)
  BY EntryGrown
<1> QED BY <1>1, <1>2, DoneGrown

(* Nothing added yet.                                                       *)
LEMMA NothingGrown ==
  ASSUME NEW s \in FS, NEW g \in FS, g.dirs = s.dirs
  PROVE  Grown(s, g, {}, 0, g.symlinks)
<1>1. "dirs" \in DOMAIN g /\ "symlinks" \in DOMAIN g
  BY DEF FS
<1>2. Len(s.dirs) \in Nat
  BY FieldsOf
<1> QED BY <1>1, <1>2 DEF Grown, EntriesFrom

(* mkdir, create and symlink.                                               *)
LEMMA MakersGrown ==
  ASSUME NEW s, Consistent(s), NEW path \in PathName, NEW target \in PathName
  PROVE  /\ MkDir(s, path).err = Ok =>
              Grown(s, MkDir(s, path).fs, {NameOf(path)}, 1, s.symlinks)
         /\ Create(s, path).err = Ok =>
              Grown(s, Create(s, path).fs, {NameOf(path)}, 0, s.symlinks)
         /\ Symlink(s, target, path).err = Ok =>
              Grown(s, Symlink(s, target, path).fs, {NameOf(path)}, 0, Append(s.symlinks, target))
<1>1. NameOf(path) \in Keys /\ s \in FS
  BY PathFacts DEF Consistent, Tree
<1>2. ASSUME NEW g, Consistent(g)
      PROVE  g \in FS
  BY <1>2 DEF Consistent, Tree
<1>3. ASSUME MkDir(s, path).err = Ok
      PROVE  Grown(s, MkDir(s, path).fs, {NameOf(path)}, 1, s.symlinks)
  <2>1. PICK g : g = [s EXCEPT !.dirs = Append(@, EmptyDir)]
    OBVIOUS
  <2>2. g \in FS
    BY <1>2, <2>1, NewDir
  <2>3. Grown(s, g, {}, 1, g.symlinks) /\ g.symlinks = s.symlinks
    <3>1. /\ "dirs" \in DOMAIN g /\ "symlinks" \in DOMAIN g
          /\ s.dirs \in Seq(Dir) /\ g.dirs = Append(s.dirs, EmptyDir) /\ g.symlinks = s.symlinks
      BY <1>1, <2>1 DEF FS
    <3>2. \A n \in Keys : EmptyDir[n] = Absent
      BY DEF EmptyDir
    <3> HIDE DEF EmptyDir
    <3>3. Len(g.dirs) = Len(s.dirs) + 1
      BY <3>1
    <3>4. EntriesFrom(s, g, {})
      <4> SUFFICES ASSUME NEW d \in DOMAIN g.dirs, NEW n \in Keys, g.dirs[d][n] # Absent
                   PROVE  d \in DOMAIN s.dirs /\ s.dirs[d][n] = g.dirs[d][n]
        BY DEF EntriesFrom
      <4>1. d \in DOMAIN s.dirs \/ g.dirs[d] = EmptyDir
        BY <3>1
      <4>2. d \in DOMAIN s.dirs => g.dirs[d] = s.dirs[d]
        BY <3>1
      <4> QED BY <3>2, <4>1, <4>2
    <3> QED BY <3>1, <3>3, <3>4 DEF Grown
  <2>4. PICK d, node : d = NewEntry(s, path).node.idx /\ node = DirNode(NextIndex(s.dirs))
    OBVIOUS
  <2>5. MkDir(s, path) = Done(Insert(g, d, NameOf(path), node), MkDirOp(path))
    BY <1>3, <2>1, <2>4 DEF MkDir, Failed
  <2> QED BY <1>1, <2>2, <2>3, <2>5, EntryDone
<1>4. ASSUME Create(s, path).err = Ok
      PROVE  Grown(s, Create(s, path).fs, {NameOf(path)}, 0, s.symlinks)
  <2>1. PICK g : g = [s EXCEPT !.files = Append(@, [descriptor |-> None, size |-> 0])]
    OBVIOUS
  <2>2. g \in FS /\ g.dirs = s.dirs
    BY <1>2, <2>1, NewFile
  <2>3. g.symlinks = s.symlinks
    BY <1>1, <2>1 DEF FS
  <2>4. PICK d, node : d = NewEntry(s, path).node.idx /\ node = FileNode(NextIndex(s.files))
    OBVIOUS
  <2>5. Create(s, path) = Done(Insert(g, d, NameOf(path), node), CreateOp(path))
    BY <1>4, <2>1, <2>4 DEF Create, Failed
  <2> QED BY <1>1, <2>2, <2>3, <2>5, NothingGrown, EntryDone
<1>5. ASSUME Symlink(s, target, path).err = Ok
      PROVE  Grown(s, Symlink(s, target, path).fs, {NameOf(path)}, 0, Append(s.symlinks, target))
  <2>1. PICK g : g = [s EXCEPT !.symlinks = Append(@, target)]
    OBVIOUS
  <2>2. g \in FS /\ g.dirs = s.dirs
    BY <1>2, <2>1, NewSymlink
  <2>3. g.symlinks = Append(s.symlinks, target)
    BY <1>1, <2>1 DEF FS
  <2>4. PICK d, node : d = NewEntry(s, path).node.idx /\ node = SymlinkNode(NextIndex(s.symlinks))
    OBVIOUS
  <2>5. Symlink(s, target, path) = Done(Insert(g, d, NameOf(path), node), SymlinkOp(target, path))
    BY <1>5, <2>1, <2>4 DEF Symlink, Failed
  <2> QED BY <1>1, <2>2, <2>3, <2>5, NothingGrown, EntryDone
<1> QED BY <1>3, <1>4, <1>5

(* remove, hardlink and rename.                                             *)
LEMMA MoversGrown ==
  ASSUME NEW s, Consistent(s), NEW old \in PathName, NEW new \in PathName
  PROVE  /\ Remove(s, old).err = Ok => Grown(s, Remove(s, old).fs, {}, 0, s.symlinks)
         /\ Hardlink(s, old, new).err = Ok =>
              Grown(s, Hardlink(s, old, new).fs, {NameOf(new)}, 0, s.symlinks)
         /\ Rename(s, old, new).err = Ok =>
              Grown(s, Rename(s, old, new).fs, {NameOf(new)}, 0, s.symlinks)
<1>1. NameOf(old) \in Keys /\ NameOf(new) \in Keys
  BY PathFacts
<1>2. s \in FS /\ Grown(s, s, {}, 0, s.symlinks)
  BY NothingGrown DEF Consistent, Tree
<1>3. ASSUME Remove(s, old).err = Ok
      PROVE  Grown(s, Remove(s, old).fs, {}, 0, s.symlinks)
  <2>1. PICK d : d = ResolveDir(s, ParentOf(old)).node.idx
    OBVIOUS
  <2>2. Remove(s, old) = Done(Delete(s, d, NameOf(old)), RemoveOp(old))
    BY <1>3, <2>1 DEF Remove, Failed, Ok
  <2> QED BY <1>1, <1>2, <2>2, EntryDone
<1>4. ASSUME Hardlink(s, old, new).err = Ok
      PROVE  Grown(s, Hardlink(s, old, new).fs, {NameOf(new)}, 0, s.symlinks)
  <2>1. PICK d, node : d = NewEntry(s, new).node.idx /\ node = ResolveFile(s, old).node
    OBVIOUS
  <2>2. Hardlink(s, old, new) = Done(Insert(s, d, NameOf(new), node), HardlinkOp(old, new))
    BY <1>4, <2>1 DEF Hardlink, Failed, Ok
  <2> QED BY <1>1, <1>2, <2>2, EntryDone
<1>5. ASSUME Rename(s, old, new).err = Ok
      PROVE  Grown(s, Rename(s, old, new).fs, {NameOf(new)}, 0, s.symlinks)
  <2>1. PICK d, node : d = ResolveDir(s, ParentOf(new)).node.idx /\ node = ResolveNode(s, old, FALSE).node
    OBVIOUS
  <2>2. PICK t : t = Insert(s, d, NameOf(new), node)
    OBVIOUS
  <2>3. PICK c : c = ResolveDir(t, ParentOf(old)).node.idx
    OBVIOUS
  <2>4. Rename(s, old, new) = Done(Delete(t, c, NameOf(old)), RenameOp(old, new))
    BY <1>5, <2>1, <2>2, <2>3 DEF Rename, Failed, Ok, Crashes, UnlinkOld
  <2>5. t \in FS
    <3>1. Moves(s, old, new)
      BY <1>5, RenameRefused
    <3>2. /\ ResolveNode(s, old, FALSE) \in Sound(s) /\ ResolveDir(s, ParentOf(new)) \in Sound(s)
          /\ IsDirOf(s, ResolveDir(s, ParentOf(new)))
      BY ResolveNodeSound, ResolveDirSound, PathFacts DEF Consistent
    <3>3. ResolveNode(s, old, FALSE).err = Ok /\ ResolveDir(s, ParentOf(new)).err = Ok
      BY <3>1 DEF Moves, SourceOf
    <3>4. d \in DOMAIN s.dirs /\ node \in Node /\ NodeAllocated(s, node)
      BY <2>1, <3>2, <3>3 DEF Sound, IsDirOf
    <3>5. RenameOp(old, new) \in Operation
      BY OperationTypes
    <3>6. Consistent(t)
      BY <1>1, <2>2, <3>4, <3>5, InsertGood
    <3> QED BY <3>6 DEF Consistent, Tree
  <2>6. {} \cup {NameOf(new)} = {NameOf(new)}
    OBVIOUS
  <2>7. Grown(s, t, {NameOf(new)}, 0, s.symlinks) /\ t.symlinks = s.symlinks
    <3>1. Grown(s, t, {NameOf(new)}, 0, s.symlinks)
      BY <1>1, <1>2, <2>2, <2>6, EntryGrown
    <3> QED BY <3>1 DEF Grown
  <2>8. Grown(s, Delete(t, c, NameOf(old)), {NameOf(new)}, 0, s.symlinks)
    BY <1>1, <2>5, <2>7, EntryGrown
  <2> QED BY <2>4, <2>8, DoneGrown
<1> QED BY <1>3, <1>4, <1>5

(* Any operation.                                                           *)
LinksAfter(s, op) == IF op.kind = "Symlink" THEN Append(s.symlinks, op.target) ELSE s.symlinks

(* What the operations add.                                                 *)
LEMMA ApplyGrown ==
  ASSUME NEW s, Consistent(s), NEW op \in Operation, Apply(s, op).err = Ok
  PROVE  Grown(s, Apply(s, op).fs, MadeBy(op), IF op.kind = "MkDir" THEN 1 ELSE 0, LinksAfter(s, op))
<1>1. s \in FS
  BY DEF Consistent, Tree
<1>2. CASE op \in [kind : {"MkDir", "Create", "Remove"}, path : PathName]
  <2>1. op.path \in PathName /\ LinksAfter(s, op) = s.symlinks /\ Root \in PathName
    BY <1>2 DEF LinksAfter, Root, PathName
  <2>2. CASE op.kind = "MkDir"
    <3>1. Apply(s, op) = MkDir(s, op.path) /\ MadeBy(op) = {NameOf(op.path)}
      BY <2>2 DEF Apply, MadeBy
    <3> QED BY <2>1, <2>2, <3>1, MakersGrown
  <2>3. CASE op.kind = "Create"
    <3>1. Apply(s, op) = Create(s, op.path) /\ MadeBy(op) = {NameOf(op.path)}
      BY <2>3 DEF Apply, MadeBy
    <3> QED BY <2>1, <2>3, <3>1, MakersGrown
  <2>4. CASE op.kind = "Remove"
    <3>1. Apply(s, op) = Remove(s, op.path) /\ MadeBy(op) = {}
      BY <2>4 DEF Apply, MadeBy
    <3> QED BY <2>1, <2>4, <3>1, MoversGrown
  <2> QED BY <1>2, <2>2, <2>3, <2>4
<1>3. CASE op \in [kind : {"Hardlink", "Rename"}, old_path : PathName, new_path : PathName]
  <2>1. /\ op.old_path \in PathName /\ op.new_path \in PathName /\ LinksAfter(s, op) = s.symlinks
        /\ MadeBy(op) = {NameOf(op.new_path)}
        /\ op.kind # "MkDir"
    BY <1>3 DEF LinksAfter, MadeBy
  <2>2. \/ Apply(s, op) = Hardlink(s, op.old_path, op.new_path)
        \/ Apply(s, op) = Rename(s, op.old_path, op.new_path)
    BY <1>3 DEF Apply
  <2> QED BY <2>1, <2>2, MoversGrown
<1>4. CASE op \in [kind : {"Symlink"}, target : PathName, linkpath : PathName]
  <2>1. /\ op.target \in PathName /\ op.linkpath \in PathName
        /\ LinksAfter(s, op) = Append(s.symlinks, op.target)
        /\ MadeBy(op) = {NameOf(op.linkpath)}
        /\ op.kind # "MkDir" /\ Apply(s, op) = Symlink(s, op.target, op.linkpath)
    BY <1>4 DEF LinksAfter, MadeBy, Apply
  <2> QED BY <2>1, MakersGrown
<1>5. CASE op.kind \in {"Open", "Close", "FSync", "Read", "Write"}
  <2>1. /\ LinksAfter(s, op) = s.symlinks /\ MadeBy(op) = {} /\ op.kind # "MkDir"
    BY <1>5 DEF LinksAfter, MadeBy
  <2>2. PICK t : t = Apply(s, op).fs
    OBVIOUS
  <2>3. t.dirs = s.dirs /\ t.symlinks = s.symlinks
    BY <1>1, <1>5, <2>2, DescriptorsKeepTree DEF Apply, SameTree
  <2>4. t \in FS
    BY <2>2, ApplyGood DEF Good, Consistent, Tree
  <2>5. Grown(s, t, {}, 0, s.symlinks)
    BY <1>1, <2>3, <2>4, NothingGrown
  <2> QED BY <2>1, <2>2, <2>5
<1> QED BY <1>2, <1>3, <1>4, <1>5 DEF Operation

(***************************************************************************)
(* Where the paths of alive() lead.                                         *)
(***************************************************************************)
EntryNames(s) == {n \in Names : \E d \in DOMAIN s.dirs : s.dirs[d][n] # Absent}

(* A path made of one that leads to a directory and the name of an entry,   *)
(* all of whose names are those of entries.                                 *)
Hangs(s, path) ==
  \E q \in PathName, n \in Names, d \in DOMAIN s.dirs :
    /\ path = Join(q, n)
    /\ LeadsTo(s, q, TRUE, DirNode(d))
    /\ s.dirs[d][n] # Absent
    /\ NamesIn(q) \subseteq EntryNames(s)

LEMMA HangsMentions ==
  ASSUME NEW s, NEW path, path = Root \/ Hangs(s, path)
  PROVE  NamesIn(path) \subseteq EntryNames(s)
<1>1. CASE path = Root
  BY <1>1 DEF Root, NamesIn
<1>2. CASE Hangs(s, path)
  <2>1. PICK q \in PathName, n \in Names, d \in DOMAIN s.dirs :
          path = Join(q, n) /\ s.dirs[d][n] # Absent /\ NamesIn(q) \subseteq EntryNames(s)
    BY <1>2 DEF Hangs
  <2>2. n \in EntryNames(s)
    BY <2>1 DEF EntryNames
  <2>3. PICK p : p = Append(q, n)
    OBVIOUS
  <2>4. PICK size \in Nat : size = Len(q)
    BY DEF PathName
  <2>5. Len(p) = size + 1 /\ p[size + 1] = n /\ \A k \in 1 .. size : p[k] = q[k]
    BY <2>3, <2>4 DEF PathName
  <2>6. \A k \in 1 .. size + 1 : k = size + 1 \/ k \in 1 .. size
    OBVIOUS
  <2>7. NamesIn(p) \subseteq NamesIn(q) \cup {n}
    BY <2>4, <2>5, <2>6 DEF NamesIn
  <2> QED BY <2>1, <2>2, <2>3, <2>7 DEF Join
<1> QED BY <1>1, <1>2

(* A directory found under a path no longer than so.                        *)
Reached(s, at, length) ==
  /\ at \in DirsFound(s)
  /\ LeadsTo(s, at[2], TRUE, DirNode(at[1]))
  /\ Len(at[2]) <= length
  /\ at[2] = Root \/ Hangs(s, at[2])

AllReached(s, found, length) == \A at \in found : Reached(s, at, length)

(* An entry of such a directory, with the path to it.                       *)
Under(s, x, kind, path, node, length) ==
  /\ x = <<node.idx, path>> /\ node.kind = kind /\ NodeAllocated(s, node)
  /\ Len(path) <= length /\ Hangs(s, path)
  /\ LeadsTo(s, path, FALSE, node)
  /\ kind # "Symlink" => LeadsTo(s, path, TRUE, node)
  /\ kind = "Symlink" =>
       LET r == ResolveNode(s, s.symlinks[node.idx], TRUE)
       IN  r.err = Ok => LeadsTo(s, path, TRUE, r.node)

(* The entries of such directories are one name further.                    *)
LEMMA ChildrenReached ==
  ASSUME NEW s, NEW long, Roomy(s, long), NoEmptyNames(s),
         NEW found, NEW length \in Nat, length < long, AllReached(s, found, length),
         NEW kind \in {"Dir", "File", "Symlink"}, NEW x \in ChildrenIn(s, found, kind)
  PROVE  \E path \in PathName, node \in Node : Under(s, x, kind, path, node, length + 1)
<1>1. PICK at \in found, n \in Keys : /\ s.dirs[at[1]][n].kind = kind
                                      /\ x = <<s.dirs[at[1]][n].idx, Join(at[2], n)>>
  BY DEF ChildrenIn, ChildrenOf
<1>2. PICK d, q : d = at[1] /\ q = at[2]
  OBVIOUS
<1>3. d \in DOMAIN s.dirs /\ q \in PathName /\ LeadsTo(s, q, TRUE, DirNode(d)) /\ Len(q) <= length
  BY <1>2 DEF AllReached, Reached, DirsFound
<1>4. PICK node : node = s.dirs[d][n]
  OBVIOUS
<1>5. Tree(s) /\ long \in Nat
  BY DEF Roomy
<1>6. node # Absent /\ node.kind = kind
  BY <1>1, <1>2, <1>4 DEF Absent
<1>7. n \in Names
  BY <1>3, <1>4, <1>6 DEF NoEmptyNames, Keys
<1>8. node \in Node /\ NodeAllocated(s, node)
  BY <1>3, <1>4, <1>5, <1>6, EntryFacts
<1>9. PICK path \in PathName : path = Join(q, n) /\ Len(path) = Len(q) + 1 /\ Len(q) \in Nat
  BY <1>3, <1>7, JoinFacts
<1>10. /\ LeadsTo(s, path, FALSE, node)
       /\ node.kind # "Symlink" => LeadsTo(s, path, TRUE, node)
       /\ node.kind = "Symlink" /\ ResolveNode(s, s.symlinks[node.idx], TRUE).err = Ok =>
            LeadsTo(s, path, TRUE, ResolveNode(s, s.symlinks[node.idx], TRUE).node)
  <2>1. Len(q) < long
    BY <1>3, <1>5, <1>9
  <2> QED BY <1>3, <1>4, <1>6, <1>7, <1>9, <2>1, ChildReached
<1>11. Hangs(s, path)
  <2>1. NamesIn(q) \subseteq EntryNames(s)
    BY <1>2, HangsMentions DEF AllReached, Reached
  <2> QED BY <1>3, <1>4, <1>6, <1>7, <1>9, <2>1 DEF Hangs
<1>12. Len(path) <= length + 1 /\ x = <<node.idx, path>>
  BY <1>1, <1>2, <1>3, <1>4, <1>9
<1>13. Under(s, x, kind, path, node, length + 1)
  BY <1>6, <1>8, <1>10, <1>11, <1>12 DEF Under
<1> QED BY <1>8, <1>13

(* A search goes one name further in each round.                            *)
LEMMA SearchReached ==
  ASSUME NEW s, NEW long, Roomy(s, long), NoEmptyNames(s),
         NEW queue, NEW start \in Nat, AllReached(s, queue, start), start + Len(s.dirs) <= long
  PROVE  AllReached(s, Search(s, queue), start + Len(s.dirs))
<1>1. Tree(s) /\ long \in Nat
  BY DEF Roomy
<1>2. PICK size \in Nat : size = Len(s.dirs)
  BY <1>1, FieldsOf DEF Tree
<1>3. queue \in SUBSET DirsFound(s)
  BY DEF AllReached, Reached
<1>0. PICK r : Rounds(s, queue, r)
  BY <1>1, <1>3, SearchRuns
<1>4. /\ r[0] = queue /\ Search(s, queue) = r[Len(s.dirs)]
      /\ \A n \in Nat : /\ r[n] \in SUBSET DirsFound(s)
                        /\ r[n + 1] = r[n] \cup ChildrenIn(s, r[n], "Dir")
  BY <1>0 DEF Rounds
<1> DEFINE T == {n \in Nat : n <= size => AllReached(s, r[n], start + n)}
<1>5. 0 \in T
  BY <1>4
<1>6. ASSUME NEW n \in Nat, n \in T
      PROVE  n + 1 \in T
  <2> SUFFICES ASSUME n + 1 <= size
               PROVE  AllReached(s, r[n + 1], start + (n + 1))
    OBVIOUS
  <2>1. PICK length \in Nat : length = start + n
    OBVIOUS
  <2>2. AllReached(s, r[n], length) /\ length < long /\ start + (n + 1) = length + 1
    BY <1>1, <1>2, <1>6, <2>1
  <2>3. ASSUME NEW x \in r[n]
        PROVE  Reached(s, x, length + 1)
    <3>1. Reached(s, x, length)
      BY <2>2, <2>3 DEF AllReached
    <3>2. PICK path \in PathName : path = x[2]
      BY <3>1 DEF Reached, DirsFound
    <3>3. Len(path) <= length + 1
      BY <3>1, <3>2 DEF Reached, PathName
    <3> QED BY <3>1, <3>2, <3>3 DEF Reached
  <2>4. ASSUME NEW x \in ChildrenIn(s, r[n], "Dir")
        PROVE  Reached(s, x, length + 1)
    <3>0. PICK path \in PathName, node \in Node : Under(s, x, "Dir", path, node, length + 1)
      BY <2>2, <2>4, ChildrenReached
    <3>1. /\ x = <<node.idx, path>> /\ node.kind = "Dir" /\ NodeAllocated(s, node)
          /\ Len(path) <= length + 1 /\ Hangs(s, path) /\ LeadsTo(s, path, TRUE, node)
      BY <3>0 DEF Under
    <3>2. node = DirNode(node.idx) /\ node.idx \in DOMAIN s.dirs
      BY <3>1 DEF Node, DirNode, NodeAllocated
    <3>3. x[1] = node.idx /\ x[2] = path /\ x \in DirsFound(s)
      BY <3>1, <3>2 DEF DirsFound
    <3>4. LeadsTo(s, path, TRUE, DirNode(node.idx))
      BY <3>1, <3>2, Zenon
    <3> QED BY <3>1, <3>3, <3>4, Zenon DEF Reached
  <2>5. r[n + 1] = r[n] \cup ChildrenIn(s, r[n], "Dir")
    BY <1>4
  <2> QED BY <2>2, <2>3, <2>4, <2>5 DEF AllReached
<1> HIDE DEF T
<1>7. Nat \subseteq T
  BY <1>5, <1>6, NatSetInduction
<1> QED BY <1>2, <1>4, <1>7 DEF T

(* A file found under a path no longer than so.                             *)
FileReached(s, at, length) ==
  /\ at \in FilesFound(s)
  /\ LeadsTo(s, at[2], TRUE, FileNode(at[1]))
  /\ Len(at[2]) <= length
  /\ Hangs(s, at[2])

(* The files in directories that were found.                                *)
LEMMA FilesReached ==
  ASSUME NEW s, NEW long, Roomy(s, long), NoEmptyNames(s),
         NEW found, NEW length \in Nat, length < long, AllReached(s, found, length)
  PROVE  \A x \in ChildrenIn(s, found, "File") :
           FileReached(s, x, length + 1) /\ LeadsTo(s, x[2], FALSE, FileNode(x[1]))
<1> SUFFICES ASSUME NEW x \in ChildrenIn(s, found, "File")
             PROVE  FileReached(s, x, length + 1) /\ LeadsTo(s, x[2], FALSE, FileNode(x[1]))
  OBVIOUS
<1>0. PICK path \in PathName, node \in Node : Under(s, x, "File", path, node, length + 1)
  BY ChildrenReached
<1>1. /\ x = <<node.idx, path>> /\ node.kind = "File" /\ NodeAllocated(s, node)
      /\ Len(path) <= length + 1 /\ Hangs(s, path)
      /\ LeadsTo(s, path, FALSE, node) /\ LeadsTo(s, path, TRUE, node)
  BY <1>0 DEF Under
<1>2. node = FileNode(node.idx) /\ node.idx \in DOMAIN s.files
  BY <1>1 DEF Node, FileNode, NodeAllocated
<1>3. x[1] = node.idx /\ x[2] = path /\ x \in FilesFound(s)
  BY <1>1, <1>2 DEF FilesFound
<1>4. LeadsTo(s, path, TRUE, FileNode(node.idx)) /\ LeadsTo(s, path, FALSE, FileNode(node.idx))
  BY <1>1, <1>2, Zenon
<1> QED BY <1>1, <1>3, <1>4, Zenon DEF FileReached

(* The symlinks in them, and where they lead.                               *)
LEMMA LinksReached ==
  ASSUME NEW s, NEW long, Roomy(s, long), NoEmptyNames(s),
         NEW found, NEW length \in Nat, length < long, AllReached(s, found, length)
  PROVE  /\ AllReached(s, FollowedTo(s, found, "Dir"), length + 1)
         /\ \A x \in FollowedTo(s, found, "File") : FileReached(s, x, length + 1)
         /\ \A link \in ChildrenIn(s, found, "Symlink") :
              link[2] \in PathName /\ Len(link[2]) <= length + 1 /\ Hangs(s, link[2])
<1>1. Tree(s)
  BY DEF Roomy
<1>2. ASSUME NEW link \in ChildrenIn(s, found, "Symlink")
      PROVE  /\ link[1] \in DOMAIN s.symlinks /\ link[2] \in PathName
             /\ Len(link[2]) <= length + 1 /\ Hangs(s, link[2])
             /\ LET r == ResolveNode(s, s.symlinks[link[1]], TRUE)
                IN  r.err = Ok => LeadsTo(s, link[2], TRUE, r.node)
  <2>0. PICK path \in PathName, node \in Node : Under(s, link, "Symlink", path, node, length + 1)
    BY <1>2, ChildrenReached
  <2>1. /\ link = <<node.idx, path>> /\ node.kind = "Symlink" /\ NodeAllocated(s, node)
        /\ Len(path) <= length + 1 /\ Hangs(s, path)
        /\ LET r == ResolveNode(s, s.symlinks[node.idx], TRUE)
           IN  r.err = Ok => LeadsTo(s, path, TRUE, r.node)
    BY <2>0 DEF Under
  <2>2. link[1] = node.idx /\ link[2] = path
    BY <2>1
  <2> QED BY <2>1, <2>2 DEF NodeAllocated
<1>3. ASSUME NEW kind \in {"Dir", "File"}, NEW x \in FollowedTo(s, found, kind)
      PROVE  \E path \in PathName, node \in Node :
               /\ x = <<node.idx, path>> /\ node.kind = kind /\ NodeAllocated(s, node)
               /\ Len(path) <= length + 1 /\ Hangs(s, path) /\ LeadsTo(s, path, TRUE, node)
  <2>1. PICK link \in ChildrenIn(s, found, "Symlink") :
          /\ ResolveNode(s, s.symlinks[link[1]], TRUE).node.kind = kind
          /\ x = <<ResolveNode(s, s.symlinks[link[1]], TRUE).node.idx, link[2]>>
    BY <1>3 DEF FollowedTo
  <2>2. PICK r : r = ResolveNode(s, s.symlinks[link[1]], TRUE)
    OBVIOUS
  <2>3. s.symlinks[link[1]] \in PathName
    BY <1>1, <1>2, SymlinkFacts
  <2>4. r \in Sound(s)
    BY <1>1, <2>2, <2>3, ResolveNodeSound
  <2>5. Absent.kind \notin {"Dir", "File"}
    BY DEF Absent
  <2>6. r.err = Ok /\ r.node \in Node /\ NodeAllocated(s, r.node) /\ r.node.kind = kind
    BY <1>3, <2>1, <2>2, <2>4, <2>5 DEF Sound
  <2>7. LeadsTo(s, link[2], TRUE, r.node)
    BY <1>2, <2>2, <2>6
  <2>8. x = <<r.node.idx, link[2]>>
    BY <2>1, <2>2
  <2> QED BY <1>2, <2>6, <2>7, <2>8
<1>4. ASSUME NEW x \in FollowedTo(s, found, "Dir")
      PROVE  Reached(s, x, length + 1)
  <2>1. PICK path \in PathName, node \in Node :
          /\ x = <<node.idx, path>> /\ node.kind = "Dir" /\ NodeAllocated(s, node)
          /\ Len(path) <= length + 1 /\ Hangs(s, path) /\ LeadsTo(s, path, TRUE, node)
    BY <1>3
  <2>2. node = DirNode(node.idx) /\ node.idx \in DOMAIN s.dirs
    BY <2>1 DEF Node, DirNode, NodeAllocated
  <2>3. x[1] = node.idx /\ x[2] = path /\ x \in DirsFound(s)
    BY <2>1, <2>2 DEF DirsFound
  <2>4. LeadsTo(s, path, TRUE, DirNode(node.idx))
    BY <2>1, <2>2, Zenon
  <2> QED BY <2>1, <2>3, <2>4, Zenon DEF Reached
<1>5. ASSUME NEW x \in FollowedTo(s, found, "File")
      PROVE  FileReached(s, x, length + 1)
  <2>1. PICK path \in PathName, node \in Node :
          /\ x = <<node.idx, path>> /\ node.kind = "File" /\ NodeAllocated(s, node)
          /\ Len(path) <= length + 1 /\ Hangs(s, path) /\ LeadsTo(s, path, TRUE, node)
    BY <1>3
  <2>2. node = FileNode(node.idx) /\ node.idx \in DOMAIN s.files
    BY <2>1 DEF Node, FileNode, NodeAllocated
  <2>3. x[1] = node.idx /\ x[2] = path /\ x \in FilesFound(s)
    BY <2>1, <2>2 DEF FilesFound
  <2>4. LeadsTo(s, path, TRUE, FileNode(node.idx))
    BY <2>1, <2>2, Zenon
  <2> QED BY <2>1, <2>3, <2>4, Zenon DEF FileReached
<1> QED BY <1>2, <1>4, <1>5 DEF AllReached

(* A bound on the paths found can be a wider one.                           *)
LEMMA ReachedWider ==
  ASSUME NEW s, NEW found, NEW short \in Nat, NEW length \in Nat, short <= length,
         AllReached(s, found, short)
  PROVE  AllReached(s, found, length)
<1> SUFFICES ASSUME NEW x \in found
             PROVE  Reached(s, x, length)
  BY DEF AllReached
<1>1. Reached(s, x, short)
  BY DEF AllReached
<1>2. PICK path \in PathName : path = x[2]
  BY <1>1 DEF Reached, DirsFound
<1>3. Len(path) \in Nat /\ Len(path) <= short
  BY <1>1, <1>2 DEF Reached, PathName
<1>4. Len(x[2]) <= length
  BY <1>2, <1>3
<1> QED BY <1>1, <1>4 DEF Reached

(* The root is a directory.                                                 *)
LEMMA RootReached ==
  ASSUME NEW s, NEW long, Roomy(s, long)
  PROVE  Reached(s, <<RootIndex, Root>>, 0)
<1>1. Tree(s) /\ long \in Nat /\ StackDepth \in Nat
  BY StackDepthAssumption DEF Roomy
<1>2. PICK base \in Nat : StackDepth = base + 1
  BY DeepEnough
<1>3. Root \in PathName /\ IsRoot(Root) /\ Len(Root) = 0
  BY DEF Root, PathName, IsRoot
<1>4. TRUE \in BOOLEAN /\ {} \in SUBSET Nat
  OBVIOUS
<1>5. Followed(s, base + 1, Root, {}) = Resolved(DirNode(RootIndex), {})
  BY <1>1, <1>3, <1>4, AnswerStep DEF Followed
<1>6. ResolveNode(s, Root, TRUE) = Resolved(DirNode(RootIndex), {})
  BY <1>2, <1>5, ResolveAnswers DEF Followed
<1>7. Resolved(DirNode(RootIndex), {}).err = Ok /\ Resolved(DirNode(RootIndex), {}).node = DirNode(RootIndex)
  BY ResultFields
<1>8. LeadsTo(s, Root, TRUE, DirNode(RootIndex))
  BY <1>6, <1>7, Zenon DEF LeadsTo
<1>9. RootIndex \in DOMAIN s.dirs
  BY <1>1 DEF Tree, EntriesAllocated
<1>10. PICK x : x = <<RootIndex, Root>>
  OBVIOUS
<1>11. x[1] = RootIndex /\ x[2] = Root /\ x \in DirsFound(s)
  BY <1>3, <1>9, <1>10 DEF DirsFound
<1>12. Reached(s, x, 0)
  <2>1. LeadsTo(s, x[2], TRUE, DirNode(x[1]))
    BY <1>8, <1>11, Zenon
  <2>2. Len(x[2]) <= 0
    BY <1>3, <1>11
  <2> QED BY <1>11, <2>1, <2>2, Zenon DEF Reached
<1> QED BY <1>10, <1>12

(* What alive() reports, where it says it is.                               *)
AllAlive(s, alive, length) ==
  /\ AllReached(s, alive.dirs, length)
  /\ <<RootIndex, Root>> \in alive.dirs
  /\ \A x \in alive.files :
       FileReached(s, x, length) /\ LeadsTo(s, x[2], FALSE, FileNode(x[1]))
  /\ \A x \in alive.files_symlinked : FileReached(s, x, length)
  /\ \A path \in alive.symlinks : path \in PathName /\ Len(path) <= length /\ Hangs(s, path)

LEMMA AliveReached ==
  ASSUME NEW s, NEW long, Roomy(s, long), NoEmptyNames(s),
         NEW size \in Nat, Len(s.dirs) = size, 2 * size + 2 <= long
  PROVE  AllAlive(s, Alive(s), 2 * size + 2)
<1>0. Tree(s) /\ long \in Nat
  BY DEF Roomy
<1>1. PICK first : first = Search(s, {<<RootIndex, Root>>})
  OBVIOUS
<1>2. PICK second : second = Search(s, FollowedTo(s, first, "Dir"))
  OBVIOUS
<1>3. PICK found : found = first \cup second
  OBVIOUS
<1>4. /\ Alive(s).dirs = found \cup FollowedTo(s, second, "Dir")
      /\ Alive(s).files = ChildrenIn(s, found, "File")
      /\ Alive(s).files_symlinked = FollowedTo(s, found, "File")
      /\ Alive(s).symlinks = {link[2] : link \in ChildrenIn(s, found, "Symlink")}
  BY <1>1, <1>2, <1>3 DEF Alive
<1>5. AllReached(s, {<<RootIndex, Root>>}, 0)
  BY RootReached DEF AllReached
<1>6. AllReached(s, first, size)
  <2>1. 0 \in Nat /\ 0 + Len(s.dirs) <= long /\ 0 + Len(s.dirs) = size
    BY <1>0
  <2>2. AllReached(s, Search(s, {<<RootIndex, Root>>}), 0 + Len(s.dirs))
    BY <1>5, <2>1, SearchReached
  <2> QED BY <1>1, <2>1, <2>2
<1>7. AllReached(s, FollowedTo(s, first, "Dir"), size + 1)
  <2>1. size < long
    BY <1>0
  <2> QED BY <1>6, <2>1, LinksReached
<1>8. AllReached(s, second, 2 * size + 1)
  <2>1. size + 1 \in Nat /\ (size + 1) + Len(s.dirs) <= long /\ (size + 1) + Len(s.dirs) = 2 * size + 1
    BY <1>0
  <2>2. AllReached(s, Search(s, FollowedTo(s, first, "Dir")), (size + 1) + Len(s.dirs))
    BY <1>7, <2>1, SearchReached
  <2> QED BY <1>2, <2>1, <2>2
<1>9. PICK most \in Nat : most = 2 * size + 1
  OBVIOUS
<1>10. most < long /\ most + 1 = 2 * size + 2 /\ size <= most /\ most <= most + 1
  BY <1>0, <1>9
<1>11. AllReached(s, found, most)
  <2>1. AllReached(s, first, most)
    BY <1>6, <1>10, ReachedWider
  <2>2. AllReached(s, second, most)
    BY <1>8, <1>9
  <2> QED BY <1>3, <2>1, <2>2 DEF AllReached
<1>12. AllReached(s, Alive(s).dirs, most + 1)
  <2>1. AllReached(s, FollowedTo(s, second, "Dir"), most + 1)
    BY <1>8, <1>9, <1>10, LinksReached
  <2>2. AllReached(s, found, most + 1)
    BY <1>10, <1>11, ReachedWider
  <2> QED BY <1>4, <2>1, <2>2 DEF AllReached
<1>13. \A x \in Alive(s).files :
         FileReached(s, x, most + 1) /\ LeadsTo(s, x[2], FALSE, FileNode(x[1]))
  BY <1>4, <1>10, <1>11, FilesReached
<1>14. \A x \in Alive(s).files_symlinked : FileReached(s, x, most + 1)
  BY <1>4, <1>10, <1>11, LinksReached
<1>15. \A path \in Alive(s).symlinks : path \in PathName /\ Len(path) <= most + 1 /\ Hangs(s, path)
  <2>1. \A link \in ChildrenIn(s, found, "Symlink") :
          link[2] \in PathName /\ Len(link[2]) <= most + 1 /\ Hangs(s, link[2])
    BY <1>10, <1>11, LinksReached
  <2> QED BY <1>4, <2>1
<1>16. <<RootIndex, Root>> \in Alive(s).dirs
  <2>1. {<<RootIndex, Root>>} \in SUBSET DirsFound(s)
    BY <1>5 DEF AllReached, Reached
  <2>2. PICK r : Rounds(s, {<<RootIndex, Root>>}, r)
    BY <1>0, <2>1, SearchRuns
  <2> DEFINE T == {n \in Nat : <<RootIndex, Root>> \in r[n]}
  <2>3. 0 \in T
    BY <2>2 DEF Rounds
  <2>4. \A n \in Nat : n \in T => n + 1 \in T
    BY <2>2 DEF Rounds
  <2> HIDE DEF T
  <2>5. Nat \subseteq T
    BY <2>3, <2>4, NatSetInduction
  <2>6. <<RootIndex, Root>> \in first
    BY <1>1, <2>2, <2>5 DEF Rounds, T
  <2> QED BY <1>3, <1>4, <2>6
<1> QED BY <1>10, <1>12, <1>13, <1>14, <1>15, <1>16 DEF AllAlive

(***************************************************************************)
(* What is drawn from the alive nodes succeeds.                             *)
(***************************************************************************)
(* A tree with room for the paths that are drawn in it.                     *)
Ready(s, long) ==
  /\ Roomy(s, long) /\ Consistent(s) /\ NoEmptyNames(s)
  /\ \E length \in Nat : length < long /\ AllAlive(s, Alive(s), length)

(* A name that no entry has.                                                *)
Unused(s, name) == name \in Names /\ \A d \in DOMAIN s.dirs : s.dirs[d][name] = Absent

(* A path for a new entry: a name after the path of a directory.            *)
Makes(s, long, path, name) ==
  \E q \in PathName, d \in DOMAIN s.dirs :
    /\ path = Join(q, name) /\ Len(q) < long
    /\ LeadsTo(s, q, TRUE, DirNode(d))

(* Every new path is one.                                                   *)
LEMMA NewPathsMake ==
  ASSUME NEW s, NEW long, Ready(s, long), NEW name \in Names, NEW path \in NewPaths(Alive(s), name)
  PROVE  Makes(s, long, path, name)
<1>1. PICK length \in Nat : length < long /\ AllAlive(s, Alive(s), length)
  BY DEF Ready
<1>2. PICK at \in Alive(s).dirs : path = Join(at[2], name)
  BY DEF NewPaths, PathsOf
<1>3. Reached(s, at, length)
  BY <1>1, <1>2 DEF AllAlive, AllReached
<1>4. PICK q \in PathName, d \in DOMAIN s.dirs : q = at[2] /\ d = at[1]
  BY <1>3 DEF Reached, DirsFound
<1>5. Len(q) <= length /\ Len(q) \in Nat /\ LeadsTo(s, q, TRUE, DirNode(d))
  <2>1. LeadsTo(s, q, TRUE, DirNode(d))
    BY <1>3, <1>4, Zenon DEF Reached
  <2>2. Len(q) \in Nat
    BY DEF PathName
  <2> QED BY <1>3, <1>4, <2>1, <2>2 DEF Reached
<1>6. Len(q) < long
  BY <1>1, <1>5 DEF Ready, Roomy
<1> QED BY <1>2, <1>4, <1>5, <1>6 DEF Makes

(* The entry can be made, and no directory is there yet.                    *)
LEMMA MakesEntry ==
  ASSUME NEW s, NEW long, Ready(s, long), NEW name, Unused(s, name), NEW path, Makes(s, long, path, name)
  PROVE  /\ path \in PathName /\ Len(path) <= long
         /\ ResolveDir(s, ParentOf(path)).err = Ok /\ NewEntry(s, path).err = Ok
         /\ ResolveDir(s, path).err \notin {Ok} \cup Crashes
<1>1. PICK q \in PathName, d \in DOMAIN s.dirs :
        path = Join(q, name) /\ Len(q) < long /\ LeadsTo(s, q, TRUE, DirNode(d))
  BY DEF Makes
<1>2. Tree(s) /\ Roomy(s, long) /\ long \in Nat /\ name \in Names
  BY DEF Ready, Roomy, Unused
<1>3. PICK p \in PathName : /\ p = path /\ ~IsRoot(p) /\ ParentOf(p) = q /\ NameOf(p) = name
                            /\ Len(p) = Len(q) + 1 /\ Len(q) \in Nat
  BY <1>1, <1>2, JoinFacts
<1>4. Len(p) <= long
  BY <1>1, <1>2, <1>3
<1>5. ResolveDir(s, q).err = Ok /\ ResolveDir(s, q).node.idx = d
  BY <1>1, <1>2, LeadsToDir
<1>6. NewEntry(s, p).err = Ok
  <2>1. ~NameExists(s, d, name)
    BY <1>1 DEF NameExists, Unused
  <2> QED BY <1>3, <1>5, <2>1 DEF NewEntry, Vacant
<1>7. PICK base \in Nat : StackDepth = base + 1
  BY <1>2, DeepEnough
<1>8. TRUE \in BOOLEAN /\ {} \in SUBSET Nat
  OBVIOUS
<1>9. PICK r : r = Followed(s, base + 1, p, {})
  OBVIOUS
<1>10. ResolveDir(s, p) = AsDir(s, r)
  BY <1>7, <1>9, ResolveAnswers
<1>11. r.err # Ok
  <2> SUFFICES ASSUME r.err = Ok
               PROVE  FALSE
    OBVIOUS
  <2>1. WalkAnswer(s, base + 1, p, TRUE, {}).err = Ok
    BY <1>9 DEF Followed
  <2>2. Found(s, base, p)
    BY <1>2, <1>3, <1>8, <2>1, OkFound
  <2>3. PICK in : in = Entered(s, base, p)
    OBVIOUS
  <2>4. in.err = Ok /\ s.dirs[in.node.idx][name] # Absent
    BY <1>3, <2>2, <2>3 DEF Found, Looked
  <2>5. in.node.idx \in DOMAIN s.dirs
    BY <1>2, <2>3, <2>4, EnteredSound DEF IsDirOf
  <2> QED BY <2>4, <2>5 DEF Unused
<1>12. ResolveDir(s, p) = r
  BY <1>10, <1>11, AsDirOk
<1>13. r.err \notin Crashes
  <2>1. Smooth(WalkAnswer(s, base + 1, p, TRUE, {}))
    BY <1>2, <1>4, <1>7, <1>8, RoomForPaths
  <2>2. r.err # "StackOverflow"
    BY <1>9, <2>1 DEF Smooth, Followed
  <2>3. ResolveDir(s, p) \in Result
    BY <1>2, ResolveDirSound DEF Sound
  <2>4. r.err \in ResolveErrors \cup {Ok}
    BY <1>12, <2>3 DEF Result
  <2> QED BY <2>2, <2>4 DEF Crashes, ResolveErrors, Ok
<1> QED BY <1>3, <1>4, <1>5, <1>6, <1>11, <1>12, <1>13

(* The node found under the path of an entry.                               *)
Holds(s, path, node) ==
  /\ path \in PathName /\ ~IsRoot(path)
  /\ ResolveDir(s, ParentOf(path)).err = Ok
  /\ s.dirs[ResolveDir(s, ParentOf(path)).node.idx][NameOf(path)] = node
  /\ node # Absent /\ LeadsTo(s, path, FALSE, node)

(* The paths found are such.                                                *)
LEMMA HangsHolds ==
  ASSUME NEW s, NEW long, Ready(s, long), NEW path, Hangs(s, path), Len(path) <= long
  PROVE  \E node : Holds(s, path, node)
<1>1. PICK q \in PathName, n \in Names, d \in DOMAIN s.dirs :
        path = Join(q, n) /\ LeadsTo(s, q, TRUE, DirNode(d)) /\ s.dirs[d][n] # Absent
  BY DEF Hangs
<1>2. Tree(s) /\ Roomy(s, long) /\ long \in Nat
  BY DEF Ready, Roomy
<1>3. PICK p \in PathName : /\ p = path /\ ~IsRoot(p) /\ ParentOf(p) = q /\ NameOf(p) = n
                            /\ Len(p) = Len(q) + 1 /\ Len(q) \in Nat
  BY <1>1, <1>2, JoinFacts
<1>4. Len(q) < long
  BY <1>2, <1>3
<1>5. PICK node : node = s.dirs[d][n]
  OBVIOUS
<1>6. ResolveDir(s, q).err = Ok /\ ResolveDir(s, q).node.idx = d
  BY <1>1, <1>2, LeadsToDir
<1>7. LeadsTo(s, p, FALSE, node)
  BY <1>1, <1>2, <1>3, <1>4, <1>5, ChildReached
<1>8. Holds(s, p, node)
  BY <1>1, <1>3, <1>5, <1>6, <1>7 DEF Holds
<1> QED BY <1>3, <1>8

(* What is alive, but for the root, is the path of an entry.                *)
LEMMA RemovableHang ==
  ASSUME NEW s, NEW long, Ready(s, long), NEW path \in RemovablePaths(Alive(s))
  PROVE  Hangs(s, path) /\ path \in PathName /\ Len(path) <= long
<1>1. PICK length \in Nat : length < long /\ AllAlive(s, Alive(s), length)
  BY DEF Ready
<1>2. ASSUME Hangs(s, path), path \in PathName, Len(path) <= length
      PROVE  Hangs(s, path) /\ path \in PathName /\ Len(path) <= long
  <2>1. Len(path) \in Nat /\ long \in Nat
    BY <1>2 DEF PathName, Ready, Roomy
  <2> QED BY <1>1, <1>2, <2>1
<1>3. CASE path \in Alive(s).symlinks
  BY <1>1, <1>2, <1>3 DEF AllAlive
<1>4. CASE path \in PathsOf(Alive(s).files)
  <2>1. PICK at \in Alive(s).files : path = at[2]
    BY <1>4 DEF PathsOf
  <2>2. FileReached(s, at, length)
    BY <1>1, <2>1 DEF AllAlive
  <2> QED BY <1>2, <2>1, <2>2 DEF FileReached, FilesFound
<1>5. CASE path \in PathsOf(DirsExceptRoot(Alive(s)))
  <2>1. PICK at \in Alive(s).dirs : path = at[2] /\ at[1] # RootIndex
    BY <1>5 DEF PathsOf, DirsExceptRoot
  <2>2. Reached(s, at, length)
    BY <1>1, <2>1 DEF AllAlive, AllReached
  <2>3. path # Root
    <3> SUFFICES ASSUME path = Root
                 PROVE  FALSE
      OBVIOUS
    <3>1. LeadsTo(s, Root, TRUE, DirNode(at[1]))
      BY <2>1, <2>2 DEF Reached
    <3>2. LeadsTo(s, Root, TRUE, DirNode(RootIndex))
      <4>1. PICK x : x = <<RootIndex, Root>>
        OBVIOUS
      <4>2. x[1] = RootIndex /\ x[2] = Root
        BY <4>1
      <4>3. Reached(s, x, 0)
        BY <4>1, RootReached DEF Ready
      <4> QED BY <4>2, <4>3 DEF Reached
    <3>3. DirNode(at[1]) = DirNode(RootIndex)
      BY <3>1, <3>2 DEF LeadsTo
    <3> QED BY <2>1, <3>3 DEF DirNode
  <2> QED BY <1>2, <2>1, <2>2, <2>3 DEF Reached, DirsFound
<1> QED BY <1>3, <1>4, <1>5 DEF RemovablePaths

(* mkdir, create and symlink.                                               *)
LEMMA MakersSucceed ==
  ASSUME NEW s, NEW path, NewEntry(s, path).err = Ok
  PROVE  /\ MkDir(s, path).err = Ok /\ Create(s, path).err = Ok
         /\ \A target : Symlink(s, target, path).err = Ok
<1>1. \A t, op : Done(t, op).err = Ok
  BY DEF Done
<1>2. MkDir(s, path).err = Ok
  BY <1>1 DEF MkDir
<1>3. Create(s, path).err = Ok
  BY <1>1 DEF Create
<1>4. \A target : Symlink(s, target, path).err = Ok
  BY <1>1 DEF Symlink
<1> QED BY <1>2, <1>3, <1>4

(* remove.                                                                  *)
LEMMA RemoveSucceeds ==
  ASSUME NEW s, NEW path, NEW node, Holds(s, path, node)
  PROVE  Remove(s, path).err = Ok
<1>1. \A t, op : Done(t, op).err = Ok
  BY DEF Done
<1> QED BY <1>1 DEF Remove, Holds, NameExists

(* The files that are alive, where no symlink is in the way.                *)
LEMMA FilesHold ==
  ASSUME NEW s, NEW long, Ready(s, long), NEW at \in Alive(s).files
  PROVE  /\ at[1] \in DOMAIN s.files /\ Holds(s, at[2], FileNode(at[1]))
         /\ ResolveFile(s, at[2]).err = Ok
<1>1. PICK length \in Nat : length < long /\ AllAlive(s, Alive(s), length)
  BY DEF Ready
<1>2. /\ at \in FilesFound(s) /\ Hangs(s, at[2]) /\ Len(at[2]) <= length
      /\ LeadsTo(s, at[2], TRUE, FileNode(at[1])) /\ LeadsTo(s, at[2], FALSE, FileNode(at[1]))
  BY <1>1 DEF AllAlive, FileReached
<1>3. PICK path \in PathName : path = at[2]
  BY <1>2 DEF FilesFound
<1>4. Len(path) <= long
  <2>1. Len(path) \in Nat /\ long \in Nat
    BY DEF PathName, Ready, Roomy
  <2> QED BY <1>1, <1>2, <1>3, <2>1
<1>5. PICK node : Holds(s, path, node)
  BY <1>2, <1>3, <1>4, HangsHolds
<1>6. node = FileNode(at[1])
  BY <1>2, <1>3, <1>5 DEF Holds, LeadsTo
<1>7. ResolveFile(s, path).err = Ok
  <2>1. PICK r : r = ResolveNode(s, path, TRUE)
    OBVIOUS
  <2>2. r.err = Ok /\ r.node = FileNode(at[1])
    BY <1>2, <1>3, <2>1, Zenon DEF LeadsTo
  <2>3. r.node.kind = "File"
    BY <2>2 DEF FileNode
  <2>4. AsFile(r) = r
    BY <2>3 DEF AsFile
  <2> QED BY <2>1, <2>2, <2>4 DEF ResolveFile
<1> QED BY <1>2, <1>3, <1>5, <1>6, <1>7 DEF FilesFound

(* hardlink.                                                                *)
LEMMA HardlinkSucceeds ==
  ASSUME NEW s, NEW long, Ready(s, long), NEW at \in Alive(s).files,
         NEW new, NewEntry(s, new).err = Ok
  PROVE  Hardlink(s, at[2], new).err = Ok
<1>1. PICK old : old = at[2]
  OBVIOUS
<1>2. /\ ResolveDir(s, ParentOf(old)).err = Ok /\ ResolveFile(s, old).err = Ok
      /\ s.dirs[ResolveDir(s, ParentOf(old)).node.idx][NameOf(old)] = FileNode(at[1])
  BY <1>1, FilesHold DEF Holds
<1>3. FileNode(at[1]).kind # "Symlink"
  BY DEF FileNode
<1>4. \A t, op : Done(t, op).err = Ok
  BY DEF Done
<1> QED BY <1>1, <1>2, <1>3, <1>4 DEF Hardlink

(* rename, but for a move of a directory into itself.                       *)
LEMMA RenameDrawnSucceeds ==
  ASSUME NEW s, NEW long, Ready(s, long), NEW name, Unused(s, name),
         NEW new, Makes(s, long, new, name), NEW old, NEW node, Holds(s, old, node)
  PROVE  Rename(s, old, new).err \in {Ok, "RenameToSubdirectoryError"}
<1>1. /\ new \in PathName /\ ResolveDir(s, ParentOf(new)).err = Ok
      /\ ResolveDir(s, new).err \notin {Ok} \cup Crashes
  BY MakesEntry
<1>2. old \in PathName /\ Consistent(s)
  BY DEF Holds, Ready
<1>3. SourceOf(s, old).err = Ok
  BY DEF Holds, LeadsTo, SourceOf
<1>4. ~ReplacesNonEmptyDir(s, ResolveDir(s, new))
  BY <1>1 DEF ReplacesNonEmptyDir
<1>5. CASE MovesIntoItself(SourceOf(s, old).node, ResolveDir(s, ParentOf(new)))
  <2>1. Rename(s, old, new) = Failed(s, "RenameToSubdirectoryError")
    BY <1>1, <1>3, <1>4, <1>5 DEF Rename, SourceOf
  <2> QED BY <2>1 DEF Failed
<1>6. CASE ~MovesIntoItself(SourceOf(s, old).node, ResolveDir(s, ParentOf(new)))
  <2>1. Moves(s, old, new)
    BY <1>1, <1>3, <1>4, <1>6 DEF Moves
  <2> QED BY <1>1, <1>2, <2>1, RenameSucceeds
<1> QED BY <1>5, <1>6

(* open.                                                                    *)
LEMMA OpenSucceeds ==
  ASSUME NEW s, NEW long, Ready(s, long), NEW at \in ClosedFiles(s, Alive(s))
  PROVE  Open(s, at[2]).err = Ok
<1>1. PICK length \in Nat : length < long /\ AllAlive(s, Alive(s), length)
  BY DEF Ready
<1>2. s.files[at[1]].descriptor = None /\ FileReached(s, at, length)
  BY <1>1 DEF ClosedFiles, AllAlive
<1>3. at[1] \in DOMAIN s.files
  BY <1>2 DEF FileReached, FilesFound
<1>4. PICK r : r = ResolveNode(s, at[2], TRUE)
  OBVIOUS
<1>5. r.err = Ok /\ r.node = FileNode(at[1])
  BY <1>2, <1>4, Zenon DEF FileReached, LeadsTo
<1>6. ResolveFile(s, at[2]) = r /\ r.node.idx = at[1]
  <2>1. r.node.kind = "File" /\ r.node.idx = at[1]
    BY <1>5 DEF FileNode
  <2>2. AsFile(r) = r
    BY <2>1 DEF AsFile
  <2> QED BY <1>4, <2>1, <2>2 DEF ResolveFile
<1>7. \A t, op : Done(t, op).err = Ok
  BY DEF Done
<1> QED BY <1>2, <1>3, <1>5, <1>6, <1>7 DEF Open

(* The operations on descriptors of files that are alive.                   *)
LEMMA DescriptorsSucceed ==
  ASSUME NEW s, NEW long, Ready(s, long), NEW d \in OpenDescriptors(s, Alive(s)),
         NEW size \in Nat, NEW src
  PROVE  /\ Close(s, d).err = Ok /\ FSync(s, d).err = Ok
         /\ Read(s, d, size).err = Ok /\ Write(s, d, src, size).err = Ok
<1>1. PICK at \in Alive(s).files : d = s.files[at[1]].descriptor /\ d # None
  BY DEF OpenDescriptors
<1>2. PICK f \in DOMAIN s.files : f = at[1]
  BY <1>1, FilesHold
<1>3. Consistent(s) /\ s \in FS
  BY DEF Ready, Consistent, Tree
<1>4. d \in DOMAIN s.descriptors /\ s.descriptors[d].file = f
  BY <1>1, <1>2, <1>3 DEF Consistent, FilesKnowTheirDescriptors
<1>5. DescriptorError(s, d) = Ok
  BY <1>1, <1>2, <1>4 DEF DescriptorError
<1>6. PICK offset \in Nat : offset = s.descriptors[d].offset
  <2>1. s.descriptors \in Seq(FileDescriptor)
    BY <1>3, FieldsOf
  <2>2. s.descriptors[d] \in FileDescriptor
    BY <1>4, <2>1
  <2> QED BY <2>2 DEF FileDescriptor
<1>7. s.files \in Seq(File) /\ s.files[f] \in File
  <2>1. s.files \in Seq(File)
    BY <1>3, FieldsOf
  <2> QED BY <2>1
<1>8. PICK file_size \in Nat : file_size = s.files[f].size
  BY <1>7 DEF File
<1>9. offset <= file_size
  BY <1>3, <1>4, <1>6, <1>8 DEF Consistent, OffsetsWithinFiles
<1>10. \A t, op : Done(t, op).err = Ok
  BY DEF Done
<1>11. Close(s, d).err = Ok /\ FSync(s, d).err = Ok
  BY <1>5, <1>10 DEF Close, FSync
<1>12. Read(s, d, size).err = Ok
  <2>1. offset + BytesRead(size, offset, file_size) <= file_size
    BY <1>9 DEF BytesRead
  <2>2. Read(s, d, size) = Advanced(s, d, offset + BytesRead(size, offset, file_size), ReadOp(d, size))
    BY <1>4, <1>5, <1>6, <1>8, <1>9 DEF Read
  <2>3. ~(offset + BytesRead(size, offset, file_size) > file_size)
    BY <1>9 DEF BytesRead
  <2> QED BY <1>4, <1>8, <1>10, <2>2, <2>3 DEF Advanced
<1>13. Write(s, d, src, size).err = Ok
  <2>1. PICK t : t = [s EXCEPT !.files[f].size = SizeWritten(size, offset, @)]
    OBVIOUS
  <2>2. Write(s, d, src, size) = Advanced(t, d, offset + size, WriteOp(d, src, size))
    BY <1>4, <1>5, <1>6, <1>8, <1>9, <2>1 DEF Write
  <2>3. t.descriptors = s.descriptors /\ t.files[f].size = SizeWritten(size, offset, file_size)
    BY <1>3, <1>7, <1>8, <2>1 DEF FS, File
  <2>4. ~(offset + size > SizeWritten(size, offset, file_size))
    BY DEF SizeWritten
  <2> QED BY <1>4, <1>10, <2>2, <2>3, <2>4 DEF Advanced
<1> QED BY <1>11, <1>12, <1>13

(* All kinds together.                                                      *)
LEMMA DrawnSucceeds ==
  ASSUME NEW s, NEW long, Ready(s, long), NEW kind \in Kinds, NEW name,
         kind \in NamingKinds => Unused(s, name),
         NEW op \in CallsFor(s, Alive(s), kind, name)
  PROVE  /\ kind # "Rename" => Apply(s, op).err = Ok
         /\ kind = "Rename" => Apply(s, op).err \in {Ok, "RenameToSubdirectoryError"}
<1>1. PICK alive : alive = Alive(s)
  OBVIOUS
<1>2. op \in CallsFor(s, alive, kind, name)
  BY <1>1
<1>3. ASSUME kind \in NamingKinds, NEW p \in NewPaths(alive, name)
      PROVE  Makes(s, long, p, name) /\ NewEntry(s, p).err = Ok
  <2>1. Unused(s, name) /\ name \in Names
    BY <1>3 DEF Unused
  <2> QED BY <1>1, <1>3, <2>1, NewPathsMake, MakesEntry
<1>4. ASSUME NEW p \in RemovablePaths(alive)
      PROVE  \E node : Holds(s, p, node)
  BY <1>1, <1>4, RemovableHang, HangsHolds
<1>5. CASE kind = "MkDir"
  <2>1. PICK p \in NewPaths(alive, name) : op = MkDirOp(p)
    BY <1>2, <1>5 DEF CallsFor
  <2>2. Apply(s, op) = MkDir(s, p)
    BY <2>1 DEF Apply, MkDirOp
  <2> QED BY <1>3, <1>5, <2>2, MakersSucceed DEF NamingKinds
<1>6. CASE kind = "Create"
  <2>1. PICK p \in NewPaths(alive, name) : op = CreateOp(p)
    BY <1>2, <1>6 DEF CallsFor
  <2>2. Apply(s, op) = Create(s, p)
    BY <2>1 DEF Apply, CreateOp
  <2> QED BY <1>3, <1>6, <2>2, MakersSucceed DEF NamingKinds
<1>7. CASE kind = "Symlink"
  <2>1. PICK target \in LinkTargets(alive, name), p \in NewPaths(alive, name) : op = SymlinkOp(target, p)
    BY <1>2, <1>7 DEF CallsFor
  <2>2. Apply(s, op) = Symlink(s, target, p)
    BY <2>1 DEF Apply, SymlinkOp
  <2> QED BY <1>3, <1>7, <2>2, MakersSucceed DEF NamingKinds
<1>8. CASE kind = "Remove"
  <2>1. PICK p \in RemovablePaths(alive) : op = RemoveOp(p)
    BY <1>2, <1>8 DEF CallsFor
  <2>2. Apply(s, op) = Remove(s, p)
    BY <2>1 DEF Apply, RemoveOp
  <2> QED BY <1>4, <1>8, <2>2, RemoveSucceeds
<1>9. CASE kind = "Hardlink"
  <2>1. PICK at \in alive.files, p \in NewPaths(alive, name) : op = HardlinkOp(at[2], p)
    BY <1>2, <1>9 DEF CallsFor, PathsOf
  <2>2. Apply(s, op) = Hardlink(s, at[2], p)
    BY <2>1 DEF Apply, HardlinkOp
  <2> QED BY <1>1, <1>3, <1>9, <2>2, HardlinkSucceeds DEF NamingKinds
<1>10. CASE kind = "Rename"
  <2>1. PICK old \in RemovablePaths(alive), p \in NewPaths(alive, name) : op = RenameOp(old, p)
    BY <1>2, <1>10 DEF CallsFor
  <2>2. Apply(s, op) = Rename(s, old, p)
    BY <2>1 DEF Apply, RenameOp
  <2>3. Unused(s, name) /\ Makes(s, long, p, name)
    BY <1>3, <1>10 DEF NamingKinds
  <2>4. PICK node : Holds(s, old, node)
    BY <1>4
  <2>5. Rename(s, old, p).err \in {Ok, "RenameToSubdirectoryError"}
    BY <2>3, <2>4, RenameDrawnSucceeds
  <2> QED BY <1>10, <2>2, <2>5
<1>11. CASE kind = "Open"
  <2>1. PICK at \in ClosedFiles(s, alive) : op = OpenOp(at[2], 0)
    BY <1>2, <1>11 DEF CallsFor, PathsOf
  <2>2. Apply(s, op) = Open(s, at[2])
    BY <2>1 DEF Apply, OpenOp
  <2> QED BY <1>1, <1>11, <2>2, OpenSucceeds
<1>12. CASE kind \in {"Close", "FSync"}
  <2>1. PICK d \in OpenDescriptors(s, alive) : op = CloseOp(d) \/ op = FSyncOp(d)
    BY <1>2, <1>12 DEF CallsFor
  <2>0. Apply(s, CloseOp(d)) = Close(s, d) /\ Apply(s, FSyncOp(d)) = FSync(s, d)
    BY DEF Apply, CloseOp, FSyncOp
  <2>2. Apply(s, op) = Close(s, d) \/ Apply(s, op) = FSync(s, d)
    BY <2>0, <2>1
  <2>3. 0 \in Nat
    OBVIOUS
  <2> QED BY <1>1, <1>12, <2>2, <2>3, DescriptorsSucceed
<1>13. CASE kind \in {"Read", "Write"}
  <2>1. PICK d \in OpenDescriptors(s, alive), size \in Sizes : op = ReadOp(d, size) \/ op = WriteOp(d, 0, size)
    BY <1>2, <1>13 DEF CallsFor
  <2>0. Apply(s, ReadOp(d, size)) = Read(s, d, size) /\ Apply(s, WriteOp(d, 0, size)) = Write(s, d, 0, size)
    BY DEF Apply, ReadOp, WriteOp
  <2>2. Apply(s, op) = Read(s, d, size) \/ Apply(s, op) = Write(s, d, 0, size)
    BY <2>0, <2>1
  <2>3. size \in Nat
    BY SizesAreNumbers
  <2> QED BY <1>1, <1>13, <2>2, <2>3, DescriptorsSucceed
<1> QED BY <1>5, <1>6, <1>7, <1>8, <1>9, <1>10, <1>11, <1>12, <1>13 DEF Kinds

(***************************************************************************)
(* What the calls that are drawn mention.                                   *)
(***************************************************************************)
PathsIn(op) ==
  CASE op.kind \in {"MkDir", "Create", "Remove", "Open"} -> {op.path}
    [] op.kind \in {"Hardlink", "Rename"} -> {op.old_path, op.new_path}
    [] op.kind = "Symlink" -> {op.target, op.linkpath}
    [] OTHER -> {}

Short(op, long) == \A path \in PathsIn(op) : Len(path) <= long

(* A call that makes these names, and targets with names of entries alone.  *)
Modest(s, op, made, length) ==
  /\ op \in Operation /\ Named(op)
  /\ MadeBy(op) = made /\ Short(op, length + 1)
  /\ op.kind = "Symlink" => Len(op.target) <= length /\ NamesIn(op.target) \subseteq EntryNames(s)

(* The paths that are alive.                                                *)
LEMMA AlivePaths ==
  ASSUME NEW s, NEW length \in Nat, NEW alive, AllAlive(s, alive, length)
  PROVE  \A path \in PathsOf(alive.dirs) \cup PathsOf(alive.files) \cup alive.symlinks
                       \cup PathsOf(alive.files_symlinked) :
           /\ path \in PathName /\ Len(path) <= length
           /\ NamesIn(path) \subseteq EntryNames(s)
<1>1. ASSUME NEW at \in alive.dirs
      PROVE  at[2] \in PathName /\ Len(at[2]) <= length /\ NamesIn(at[2]) \subseteq EntryNames(s)
  BY HangsMentions DEF AllAlive, AllReached, Reached, DirsFound
<1>2. ASSUME NEW at \in alive.files \cup alive.files_symlinked
      PROVE  at[2] \in PathName /\ Len(at[2]) <= length /\ NamesIn(at[2]) \subseteq EntryNames(s)
  BY HangsMentions DEF AllAlive, FileReached, FilesFound
<1>3. ASSUME NEW path \in alive.symlinks
      PROVE  path \in PathName /\ Len(path) <= length /\ NamesIn(path) \subseteq EntryNames(s)
  BY HangsMentions DEF AllAlive
<1> QED BY <1>1, <1>2, <1>3 DEF PathsOf

(* What calls are made of.                                                  *)
LEMMA CallParts ==
  /\ \A p : /\ PathsIn(MkDirOp(p)) = {p} /\ MadeBy(MkDirOp(p)) = {NameOf(p)}
            /\ PathsIn(CreateOp(p)) = {p} /\ MadeBy(CreateOp(p)) = {NameOf(p)}
            /\ PathsIn(RemoveOp(p)) = {p} /\ MadeBy(RemoveOp(p)) = {}
  /\ \A p, d : PathsIn(OpenOp(p, d)) = {p} /\ MadeBy(OpenOp(p, d)) = {}
  /\ \A p, q : /\ PathsIn(HardlinkOp(p, q)) = {p, q} /\ MadeBy(HardlinkOp(p, q)) = {NameOf(q)}
               /\ PathsIn(RenameOp(p, q)) = {p, q} /\ MadeBy(RenameOp(p, q)) = {NameOf(q)}
               /\ PathsIn(SymlinkOp(p, q)) = {p, q} /\ MadeBy(SymlinkOp(p, q)) = {NameOf(q)}
  /\ \A d, n, m : /\ PathsIn(CloseOp(d)) = {} /\ MadeBy(CloseOp(d)) = {}
                  /\ PathsIn(FSyncOp(d)) = {} /\ MadeBy(FSyncOp(d)) = {}
                  /\ PathsIn(ReadOp(d, n)) = {} /\ MadeBy(ReadOp(d, n)) = {}
                  /\ PathsIn(WriteOp(d, n, m)) = {} /\ MadeBy(WriteOp(d, n, m)) = {}
<1>1. \A p : /\ PathsIn(MkDirOp(p)) = {p} /\ MadeBy(MkDirOp(p)) = {NameOf(p)}
             /\ PathsIn(CreateOp(p)) = {p} /\ MadeBy(CreateOp(p)) = {NameOf(p)}
             /\ PathsIn(RemoveOp(p)) = {p} /\ MadeBy(RemoveOp(p)) = {}
  BY DEF PathsIn, MadeBy, MkDirOp, CreateOp, RemoveOp
<1>2. \A p, d : PathsIn(OpenOp(p, d)) = {p} /\ MadeBy(OpenOp(p, d)) = {}
  BY DEF PathsIn, MadeBy, OpenOp
<1>3. \A p, q : /\ PathsIn(HardlinkOp(p, q)) = {p, q} /\ MadeBy(HardlinkOp(p, q)) = {NameOf(q)}
                /\ PathsIn(RenameOp(p, q)) = {p, q} /\ MadeBy(RenameOp(p, q)) = {NameOf(q)}
  BY DEF PathsIn, MadeBy, HardlinkOp, RenameOp
<1>4. \A p, q : PathsIn(SymlinkOp(p, q)) = {p, q} /\ MadeBy(SymlinkOp(p, q)) = {NameOf(q)}
  BY DEF PathsIn, MadeBy, SymlinkOp
<1>5. \A d : /\ PathsIn(CloseOp(d)) = {} /\ MadeBy(CloseOp(d)) = {}
             /\ PathsIn(FSyncOp(d)) = {} /\ MadeBy(FSyncOp(d)) = {}
  BY DEF PathsIn, MadeBy, CloseOp, FSyncOp
<1>6. \A d, n : PathsIn(ReadOp(d, n)) = {} /\ MadeBy(ReadOp(d, n)) = {}
  BY DEF PathsIn, MadeBy, ReadOp
<1>7. \A d, n, m : PathsIn(WriteOp(d, n, m)) = {} /\ MadeBy(WriteOp(d, n, m)) = {}
  BY DEF PathsIn, MadeBy, WriteOp
<1> QED BY <1>1, <1>2, <1>3, <1>4, <1>5, <1>6, <1>7

(* Only the calls made for symlink are symlinks.                            *)
LEMMA OthersLinkNothing ==
  /\ \A p : MkDirOp(p).kind # "Symlink" /\ CreateOp(p).kind # "Symlink" /\ RemoveOp(p).kind # "Symlink"
  /\ \A p, q : HardlinkOp(p, q).kind # "Symlink" /\ RenameOp(p, q).kind # "Symlink"
  /\ \A p, d : OpenOp(p, d).kind # "Symlink"
  /\ \A d, n, m : /\ CloseOp(d).kind # "Symlink" /\ FSyncOp(d).kind # "Symlink"
                  /\ ReadOp(d, n).kind # "Symlink" /\ WriteOp(d, n, m).kind # "Symlink"
BY DEF MkDirOp, CreateOp, RemoveOp, HardlinkOp, RenameOp, OpenOp, CloseOp, FSyncOp, ReadOp, WriteOp

(* All that is drawn is modest.                                             *)
LEMMA DrawnModest ==
  ASSUME NEW s, Tree(s), NoEmptyNames(s), NEW length \in Nat, AllAlive(s, Alive(s), length),
         NEW kind \in Kinds, NEW name, kind \in NamingKinds => name \in Names,
         NEW op \in CallsFor(s, Alive(s), kind, name)
  PROVE  Modest(s, op, IF kind \in NamingKinds THEN {name} ELSE {}, length)
<1>1. op \in Operation /\ Named(op)
  BY CallsDrawn
<1>2. PICK alive : alive = Alive(s)
  OBVIOUS
<1>3. op \in CallsFor(s, alive, kind, name)
  BY <1>2
<1> DEFINE Found1 == PathsOf(alive.dirs) \cup PathsOf(alive.files) \cup alive.symlinks
                        \cup PathsOf(alive.files_symlinked)
<1>4. \A path \in Found1 : /\ path \in PathName /\ Len(path) <= length /\ Len(path) <= length + 1
                           /\ NamesIn(path) \subseteq EntryNames(s)
  <2>1. \A path \in Found1 : /\ path \in PathName /\ Len(path) <= length
                             /\ NamesIn(path) \subseteq EntryNames(s)
    BY <1>2, AlivePaths
  <2>2. \A path \in PathName : Len(path) \in Nat
    BY DEF PathName
  <2> HIDE DEF Found1
  <2> QED BY <2>1, <2>2
<1>5. /\ RemovablePaths(alive) \subseteq Found1 /\ LinkTargets(alive, name) \subseteq Found1
      /\ PathsOf(alive.files) \subseteq Found1 /\ PathsOf(ClosedFiles(s, alive)) \subseteq Found1
      /\ PathsOf(alive.dirs) \subseteq Found1
  BY DEF RemovablePaths, LinkTargets, PathsOf, DirsExceptRoot, ClosedFiles
<1> HIDE DEF Found1
<1>6. ASSUME kind \in NamingKinds, NEW p \in NewPaths(alive, name)
      PROVE  NameOf(p) = name /\ Len(p) <= length + 1
  <2>1. PICK q \in PathsOf(alive.dirs) : p = Join(q, name)
    BY <1>6 DEF NewPaths
  <2>2. q \in PathName /\ Len(q) <= length
    BY <1>4, <1>5, <2>1
  <2>3. NameOf(p) = name /\ Len(p) = Len(q) + 1 /\ Len(q) \in Nat
    BY <1>6, <2>1, <2>2, JoinFacts
  <2> QED BY <2>2, <2>3
<1>7. CASE kind \in {"MkDir", "Create"}
  <2>1. PICK p \in NewPaths(alive, name) : op = MkDirOp(p) \/ op = CreateOp(p)
    BY <1>3, <1>7 DEF CallsFor
  <2>2. kind \in NamingKinds
    BY <1>7 DEF NamingKinds
  <2>3. /\ PathsIn(op) = {p} /\ MadeBy(op) = {name} /\ Len(p) <= length + 1
        /\ op.kind # "Symlink"
    BY <1>6, <2>1, <2>2, CallParts, OthersLinkNothing
  <2> QED BY <1>1, <2>2, <2>3 DEF Modest, Short
<1>8. CASE kind \in {"Hardlink", "Rename"}
  <2>1. PICK p \in NewPaths(alive, name), old \in Found1 : op = HardlinkOp(old, p) \/ op = RenameOp(old, p)
    BY <1>3, <1>5, <1>8 DEF CallsFor
  <2>2. kind \in NamingKinds
    BY <1>8 DEF NamingKinds
  <2>3. /\ PathsIn(op) = {old, p} /\ MadeBy(op) = {name}
        /\ Len(p) <= length + 1 /\ Len(old) <= length + 1 /\ op.kind # "Symlink"
    BY <1>4, <1>6, <2>1, <2>2, CallParts, OthersLinkNothing
  <2> QED BY <1>1, <2>2, <2>3 DEF Modest, Short
<1>9. CASE kind = "Symlink"
  <2>1. PICK p \in NewPaths(alive, name), target \in Found1 : op = SymlinkOp(target, p)
    BY <1>3, <1>5, <1>9 DEF CallsFor
  <2>2. kind \in NamingKinds
    BY <1>9 DEF NamingKinds
  <2>3. /\ PathsIn(op) = {target, p} /\ MadeBy(op) = {name} /\ op.target = target
        /\ Len(p) <= length + 1 /\ Len(target) <= length + 1
    BY <1>4, <1>6, <2>1, <2>2, CallParts DEF SymlinkOp
  <2>4. Len(op.target) <= length /\ NamesIn(op.target) \subseteq EntryNames(s)
    BY <1>4, <2>1, <2>3
  <2> QED BY <1>1, <2>2, <2>3, <2>4 DEF Modest, Short
<1>10. CASE kind \in {"Remove", "Open"}
  <2>1. PICK p \in Found1 : op = RemoveOp(p) \/ op = OpenOp(p, 0)
    BY <1>3, <1>5, <1>10 DEF CallsFor
  <2>2. kind \notin NamingKinds
    BY <1>10 DEF NamingKinds
  <2>3. /\ PathsIn(op) = {p} /\ MadeBy(op) = {} /\ Len(p) <= length + 1 /\ op.kind # "Symlink"
    BY <1>4, <2>1, CallParts, OthersLinkNothing
  <2> QED BY <1>1, <2>2, <2>3 DEF Modest, Short
<1>11. CASE kind \in {"Close", "Read", "Write", "FSync"}
  <2>1. \E d, size : op = CloseOp(d) \/ op = FSyncOp(d) \/ op = ReadOp(d, size) \/ op = WriteOp(d, 0, size)
    BY <1>3, <1>11 DEF CallsFor
  <2>2. kind \notin NamingKinds
    BY <1>11 DEF NamingKinds
  <2>3. PathsIn(op) = {} /\ MadeBy(op) = {} /\ op.kind # "Symlink"
    BY <2>1, CallParts, OthersLinkNothing
  <2> QED BY <1>1, <2>2, <2>3 DEF Modest, Short
<1> QED BY <1>7, <1>8, <1>9, <1>10, <1>11 DEF Kinds

(* A new name that no target mentions keeps the links in order, and so does *)
(* a new link to names that are there.                                      *)
LEMMA LinksStayOrdered ==
  ASSUME NEW s, Tree(s), LinksOrdered(s), NEW t, NEW made, NEW more, NEW links,
         Grown(s, t, made, more, links),
         links = s.symlinks \/ \E target \in PathName : links = Append(s.symlinks, target),
         \A i \in DOMAIN links : made \cap NamesIn(links[i]) = {}
  PROVE  LinksOrdered(t)
<1>1. t.symlinks = links /\ EntriesFrom(s, t, made)
  BY DEF Grown
<1>2. s.symlinks \in Seq(PathName)
  BY FieldsOf DEF Tree
<1>3. PICK size \in Nat : size = Len(s.symlinks) /\ DOMAIN s.symlinks = 1 .. size
  BY <1>2
<1>4. \A i \in DOMAIN links : (i \in 1 .. size /\ links[i] = s.symlinks[i]) \/ i = size + 1
  BY <1>2, <1>3
<1> SUFFICES ASSUME NEW i \in DOMAIN links, NEW d \in DOMAIN t.dirs, NEW name \in Names,
                    t.dirs[d][name].kind = "Symlink", name \in NamesIn(links[i])
             PROVE  t.dirs[d][name].idx < i
  BY <1>1 DEF LinksOrdered
<1>5. name \notin made /\ name \in Keys
  BY DEF Keys
<1>6. t.dirs[d][name] # Absent
  BY DEF Absent
<1>7. d \in DOMAIN s.dirs /\ s.dirs[d][name] = t.dirs[d][name]
  BY <1>1, <1>5, <1>6 DEF EntriesFrom
<1>8. PICK k : k = t.dirs[d][name].idx
  OBVIOUS
<1>9. k \in 1 .. size
  BY <1>3, <1>5, <1>7, <1>8, EntryFacts DEF NodeAllocated
<1>10. CASE i \in 1 .. size /\ links[i] = s.symlinks[i]
  BY <1>3, <1>7, <1>10 DEF LinksOrdered
<1>11. CASE i = size + 1
  BY <1>8, <1>9, <1>11
<1> QED BY <1>4, <1>10, <1>11

(***************************************************************************)
(* The generator.                                                           *)
(***************************************************************************)
(* The test case has this many names to give, and the stack is deep enough  *)
(* for the paths and links that can be made of them.                        *)
RoomForNames(count) == Names \subseteq 0 .. count - 1 /\ (count + 1) * (2 * count + 6) < StackDepth

(* All that was made is named below k, links mention what is older.         *)
Grounded(s, k) ==
  /\ LinksOrdered(s)
  /\ \A n \in EntryNames(s) : n < k
  /\ \A i \in DOMAIN s.symlinks : \A n \in NamesIn(s.symlinks[i]) : n < k
  /\ \A i \in DOMAIN s.symlinks : Len(s.symlinks[i]) <= 2 * Len(s.dirs) + 2
  /\ Len(s.dirs) <= k + 1 /\ Len(s.symlinks) <= k

(* A new name.                                                              *)
LEMMA GroundedUnused ==
  ASSUME NEW s, NEW k \in Names, Grounded(s, k)
  PROVE  Unused(s, k)
<1>1. ASSUME NEW d \in DOMAIN s.dirs, s.dirs[d][k] # Absent
      PROVE  FALSE
  <2>1. k \in EntryNames(s)
    BY <1>1 DEF EntryNames
  <2>2. k < k /\ k \in Nat
    BY <2>1, NamesAreNumbers DEF Grounded
  <2> QED BY <2>2
<1> QED BY <1>1 DEF Unused

(* There is room for all that can be drawn.                                 *)
LEMMA GroundedReady ==
  ASSUME NEW s, Plain(s), NEW k \in Nat, Grounded(s, k), NEW count \in Nat, k <= count, RoomForNames(count)
  PROVE  Ready(s, 2 * count + 5) /\ AllAlive(s, Alive(s), 2 * Len(s.dirs) + 2)
<1>1. Tree(s) /\ Consistent(s) /\ NoEmptyNames(s)
  BY DEF Plain, Recorded, Consistent
<1>2. PICK dirs \in Nat : dirs = Len(s.dirs) /\ dirs <= count + 1
  <2>1. Len(s.dirs) \in Nat /\ Len(s.dirs) <= k + 1
    BY <1>1, FieldsOf DEF Tree, Grounded
  <2> QED BY <2>1
<1>3. PICK links \in Nat : links = Len(s.symlinks) /\ links <= count
  <2>1. Len(s.symlinks) \in Nat /\ Len(s.symlinks) <= k
    BY <1>1, FieldsOf DEF Tree, Grounded
  <2> QED BY <2>1
<1>4. PICK long \in Nat : long = 2 * count + 5
  OBVIOUS
<1>5. 2 * dirs + 2 < long /\ 2 * dirs + 2 \in Nat
  BY <1>2, <1>4
<1>6. TargetsShort(s, long)
  <2> SUFFICES ASSUME NEW i \in DOMAIN s.symlinks
               PROVE  Len(s.symlinks[i]) <= long
    BY DEF TargetsShort
  <2>1. PICK size \in Nat : size = Len(s.symlinks[i])
    BY <1>1, SymlinkFacts DEF PathName
  <2>2. size <= 2 * dirs + 2
    BY <1>2, <2>1 DEF Grounded
  <2> QED BY <1>5, <2>1, <2>2
<1>7. (links + 1) * (long + 1) < StackDepth
  <2>1. PICK c \in Nat : c = 2 * count + 6 /\ long + 1 = c
    BY <1>4
  <2>2. PICK e \in Nat : count = links + e
    <3>1. count - links \in Nat /\ count = links + (count - links)
      BY <1>3
    <3> QED BY <3>1
  <2>3. (count + 1) * c = (links + 1) * c + e * c /\ e * c \in Nat
    BY <2>1, <2>2
  <2>4. (links + 1) * c \in Nat /\ (count + 1) * c < StackDepth /\ StackDepth \in Nat
    BY <2>1, StackDepthAssumption DEF RoomForNames
  <2> QED BY <2>1, <2>3, <2>4
<1>8. Roomy(s, long)
  BY <1>1, <1>3, <1>6, <1>7 DEF Roomy, Grounded
<1>9. AllAlive(s, Alive(s), 2 * dirs + 2)
  <2>1. 2 * dirs + 2 <= long
    BY <1>5
  <2> QED BY <1>1, <1>2, <1>8, <2>1, AliveReached
<1>10. Ready(s, long)
  BY <1>1, <1>5, <1>8, <1>9 DEF Ready
<1> QED BY <1>2, <1>4, <1>9, <1>10

(* One operation more, which makes the next name or none.                   *)
LEMMA GroundedGrows ==
  ASSUME NEW s, Plain(s), NEW k \in Nat, Grounded(s, k), NEW made, NEW op,
         Modest(s, op, made, 2 * Len(s.dirs) + 2), Apply(s, op).err = Ok,
         NEW j, (made = {} /\ j = k) \/ (made = {k} /\ j = k + 1)
  PROVE  Grounded(Apply(s, op).fs, j) /\ Plain(Apply(s, op).fs)
<1>1. Tree(s) /\ Consistent(s) /\ op \in Operation /\ Named(op) /\ MadeBy(op) = made
  BY DEF Plain, Recorded, Consistent, Modest
<1>2. PICK t : t = Apply(s, op).fs
  OBVIOUS
<1>3. Plain(t)
  BY <1>1, <1>2, ApplyPlain
<1>4. PICK more, links : /\ more = IF op.kind = "MkDir" THEN 1 ELSE 0
                         /\ more \in 0 .. 1 /\ links = LinksAfter(s, op)
  OBVIOUS
<1>5. Grown(s, t, made, more, links)
  BY <1>1, <1>2, <1>4, ApplyGrown
<1>6. op.kind \in {"MkDir", "Symlink"} => made # {}
  BY <1>1 DEF MadeBy
<1>7. PICK dirs \in Nat : dirs = Len(s.dirs) /\ dirs <= k + 1
  BY <1>1, FieldsOf DEF Tree, Grounded
<1>8. s.symlinks \in Seq(PathName)
  BY <1>1, FieldsOf DEF Tree
<1>9. PICK size \in Nat : size = Len(s.symlinks) /\ size <= k /\ DOMAIN s.symlinks = 1 .. size
  BY <1>8 DEF Grounded
<1>10. j \in Nat /\ k <= j /\ (made # {} => j = k + 1) /\ \A n \in made : n < j
  OBVIOUS
<1>11. op.kind = "Symlink" => /\ op.target \in PathName /\ Len(op.target) <= 2 * dirs + 2
                              /\ \A n \in NamesIn(op.target) : n < k
  <2>1. op.kind = "Symlink" => op.target \in PathName
    BY <1>1 DEF Operation
  <2> QED BY <1>7, <2>1 DEF Modest, Grounded
<1>12. ASSUME NEW i \in DOMAIN links
       PROVE  (\A n \in NamesIn(links[i]) : n < k) /\ Len(links[i]) <= 2 * dirs + 2
  <2>1. CASE op.kind = "Symlink"
    <3>1. PICK target \in PathName : target = op.target
      BY <1>11, <2>1
    <3>2. links = Append(s.symlinks, target)
      BY <1>4, <2>1, <3>1 DEF LinksAfter
    <3>3. (i \in DOMAIN s.symlinks /\ links[i] = s.symlinks[i]) \/ links[i] = target
      BY <1>8, <3>2
    <3> QED BY <1>7, <1>11, <2>1, <3>1, <3>3 DEF Grounded
  <2>2. CASE op.kind # "Symlink"
    BY <1>4, <1>7, <2>2 DEF LinksAfter, Grounded
  <2> QED BY <2>1, <2>2
<1>13. /\ Len(t.dirs) = dirs + more /\ more \in 0 .. 1
       /\ t.symlinks = links /\ EntriesFrom(s, t, made)
  BY <1>4, <1>5, <1>7 DEF Grown
<1>14. LinksOrdered(t)
  <2>1. links = s.symlinks \/ \E target \in PathName : links = Append(s.symlinks, target)
    BY <1>4, <1>11 DEF LinksAfter
  <2>2. \A i \in DOMAIN links : made \cap NamesIn(links[i]) = {}
    <3> SUFFICES ASSUME NEW i \in DOMAIN links, NEW n \in made, n \in NamesIn(links[i])
                 PROVE  FALSE
      OBVIOUS
    <3>1. n < k /\ n = k
      BY <1>12
    <3> QED BY <3>1
  <2>3. LinksOrdered(s)
    BY DEF Grounded
  <2> QED BY <1>1, <1>5, <2>1, <2>2, <2>3, LinksStayOrdered
<1>15. \A n \in EntryNames(t) : n < j
  <2> SUFFICES ASSUME NEW n \in Names, NEW d \in DOMAIN t.dirs, t.dirs[d][n] # Absent
               PROVE  n < j
    BY DEF EntryNames
  <2>1. n \in made \/ n \in EntryNames(s)
    BY <1>13 DEF EntriesFrom, EntryNames, Keys
  <2>2. n \in EntryNames(s) => n < k /\ n \in Nat
    BY NamesAreNumbers DEF Grounded
  <2> QED BY <1>10, <2>1, <2>2
<1>16. \A i \in DOMAIN links : \A n \in NamesIn(links[i]) : n < j
  <2> SUFFICES ASSUME NEW i \in DOMAIN links, NEW n \in NamesIn(links[i])
               PROVE  n < j
    OBVIOUS
  <2>1. n < k
    BY <1>12
  <2>2. j = k \/ j = k + 1
    OBVIOUS
  <2>3. n \in Names
    <3>1. links[i] \in PathName
      BY <1>4, <1>8, <1>11 DEF LinksAfter
    <3> QED BY <3>1 DEF NamesIn, PathName
  <2> QED BY <2>1, <2>2, <2>3, NamesAreNumbers
<1>17. Len(t.dirs) <= j + 1 /\ Len(links) <= j
  <2>1. more = 1 => j = k + 1
    BY <1>4, <1>6, <1>10
  <2>2. Len(links) = size \/ (Len(links) = size + 1 /\ j = k + 1)
    BY <1>4, <1>6, <1>8, <1>9, <1>10 DEF LinksAfter
  <2> QED BY <1>7, <1>9, <1>10, <1>13, <2>1, <2>2
<1>18. \A i \in DOMAIN links : Len(links[i]) <= 2 * Len(t.dirs) + 2
  <2> SUFFICES ASSUME NEW i \in DOMAIN links
               PROVE  Len(links[i]) <= 2 * Len(t.dirs) + 2
    OBVIOUS
  <2>1. links[i] \in PathName
    BY <1>4, <1>8, <1>11 DEF LinksAfter
  <2>2. Len(links[i]) \in Nat
    BY <2>1 DEF PathName
  <2> QED BY <1>7, <1>12, <1>13, <2>2
<1> QED BY <1>2, <1>3, <1>13, <1>14, <1>15, <1>16, <1>17, <1>18 DEF Grounded

(* The generator's invariant.                                               *)
GInv(count) ==
  /\ weights \in WeightsSet
  /\ name_idx \in Nat /\ name_idx <= count
  /\ Plain(fs) /\ Grounded(fs, name_idx)
  /\ UnwrapsFailOnlyWithoutWeights

(* It holds for a new AbstractFS.                                           *)
LEMMA GeneratorInitInv ==
  ASSUME NEW count \in Nat, GeneratorInit
  PROVE  GInv(count)
<1>1. /\ fs = NewFS /\ name_idx = 0 /\ unwrap_failed = FALSE /\ weights \in WeightsSet
  BY DEF GeneratorInit
<1>2. fs.dirs = <<EmptyDir>> /\ fs.symlinks = <<>>
  BY <1>1 DEF NewFS
<1>3. EntryNames(fs) = {}
  <2>1. \A n \in Keys : EmptyDir[n] = Absent
    BY DEF EmptyDir
  <2> HIDE DEF EmptyDir
  <2> QED BY <1>2, <2>1 DEF EntryNames, Keys
<1>4. Grounded(fs, 0)
  BY <1>2, <1>3 DEF Grounded, LinksOrdered
<1> QED BY <1>1, <1>4, NewFSPlain DEF GInv, UnwrapsFailOnlyWithoutWeights

(* What a step does to the workload.                                        *)
AppendsOne ==
  ~unwrap_failed' => /\ Len(fs'.recording) = Len(fs.recording) + 1
                     /\ SubSeq(fs'.recording, 1, Len(fs.recording)) = fs.recording

(* A call that was drawn succeeds, and the workload has one operation more. *)
LEMMA DrawnStep ==
  ASSUME NEW s, Plain(s), NEW k \in Nat, Grounded(s, k), NEW count \in Nat, k <= count,
         RoomForNames(count), NEW kind \in Kinds, kind \in NamingKinds => k \in Names,
         NEW op \in CallsFor(s, Alive(s), kind, k), NEW out, out = Apply(s, op),
         kind = "Rename" => out.err # "RenameToSubdirectoryError",
         NEW j, j = IF kind \in NamingKinds THEN k + 1 ELSE k
  PROVE  /\ out.err = Ok /\ Plain(out.fs) /\ Grounded(out.fs, j)
         /\ j \in Nat /\ j <= count
         /\ Len(out.fs.recording) = Len(s.recording) + 1
         /\ SubSeq(out.fs.recording, 1, Len(s.recording)) = s.recording
<1>1. Tree(s) /\ Consistent(s) /\ NoEmptyNames(s) /\ s.recording \in Seq(Operation)
  BY FieldsOf DEF Plain, Recorded, Consistent, Tree
<1>2. Ready(s, 2 * count + 5) /\ AllAlive(s, Alive(s), 2 * Len(s.dirs) + 2)
  BY GroundedReady
<1>3. kind \in NamingKinds => Unused(s, k)
  BY GroundedUnused
<1>4. out.err = Ok
  BY <1>2, <1>3, DrawnSucceeds
<1>5. 2 * Len(s.dirs) + 2 \in Nat
  BY <1>1, FieldsOf DEF Tree
<1>6. PICK made : made = IF kind \in NamingKinds THEN {k} ELSE {}
  OBVIOUS
<1>7. Modest(s, op, made, 2 * Len(s.dirs) + 2) /\ op \in Operation
  <2>1. Modest(s, op, made, 2 * Len(s.dirs) + 2)
    BY <1>1, <1>2, <1>5, <1>6, DrawnModest
  <2> QED BY <2>1 DEF Modest
<1>8. (made = {} /\ j = k) \/ (made = {k} /\ j = k + 1)
  BY <1>6
<1>9. Grounded(out.fs, j) /\ Plain(out.fs)
  BY <1>4, <1>7, <1>8, GroundedGrows
<1>10. j \in Nat /\ j <= count
  <2>1. kind \in NamingKinds => k \in 0 .. count - 1
    BY DEF RoomForNames
  <2> QED BY <2>1
<1>11. PICK o \in Operation : out.fs.recording = Append(s.recording, o)
  BY <1>1, <1>4, <1>7, ApplyAppends
<1>12. PICK r : r = out.fs.recording
  OBVIOUS
<1>13. Len(r) = Len(s.recording) + 1 /\ SubSeq(r, 1, Len(s.recording)) = s.recording
  BY <1>1, <1>11, <1>12
<1> QED BY <1>4, <1>9, <1>10, <1>12, <1>13

(* The kinds whose result is unwrapped.                                     *)
LEMMA UnwrappedStep ==
  ASSUME NEW count \in Nat, RoomForNames(count), GInv(count),
         NEW kind \in Kinds \ {"Rename"}, AppendUnwrapped(kind)
  PROVE  GInv(count)' /\ AppendsOne
<1>1. /\ Plain(fs) /\ name_idx \in Nat /\ Grounded(fs, name_idx) /\ name_idx <= count
      /\ weights \in WeightsSet
  BY DEF GInv
<1>2. /\ GenName(kind) /\ UNCHANGED weights
      /\ \E op \in CallsFor(fs, Alive(fs), kind, name_idx) : Unwrap(Apply(fs, op))
  BY DEF AppendUnwrapped, AppendDrawn
<1>3. PICK op \in CallsFor(fs, Alive(fs), kind, name_idx) : Unwrap(Apply(fs, op))
  BY <1>2
<1>4. PICK out : out = Apply(fs, op)
  OBVIOUS
<1>5. fs' = out.fs /\ unwrap_failed' = (out.err # Ok)
  BY <1>3, <1>4 DEF Unwrap
<1>6. /\ kind \in NamingKinds => name_idx \in Names
      /\ name_idx' = IF kind \in NamingKinds THEN name_idx + 1 ELSE name_idx
  BY <1>2 DEF GenName
<1>7. PICK j : j = IF kind \in NamingKinds THEN name_idx + 1 ELSE name_idx
  OBVIOUS
<1>8. /\ out.err = Ok /\ Plain(out.fs) /\ Grounded(out.fs, j) /\ j \in Nat /\ j <= count
      /\ Len(out.fs.recording) = Len(fs.recording) + 1
      /\ SubSeq(out.fs.recording, 1, Len(fs.recording)) = fs.recording
  BY <1>1, <1>4, <1>6, <1>7, DrawnStep
<1>9. name_idx' = j /\ ~unwrap_failed'
  BY <1>5, <1>6, <1>7, <1>8
<1>10. AppendsOne
  BY <1>5, <1>8 DEF AppendsOne
<1>11. UnwrapsFailOnlyWithoutWeights'
  BY <1>9 DEF UnwrapsFailOnlyWithoutWeights
<1>12. GInv(count)'
  BY <1>1, <1>2, <1>5, <1>8, <1>9, <1>11 DEF GInv
<1> QED BY <1>10, <1>12

(* Rename.                                                                  *)
LEMMA RenameStep ==
  ASSUME NEW count \in Nat, RoomForNames(count), GInv(count), AppendRename
  PROVE  GInv(count)' /\ AppendsOne
<1>1. /\ Plain(fs) /\ name_idx \in Nat /\ Grounded(fs, name_idx) /\ name_idx <= count
      /\ weights \in WeightsSet
  BY DEF GInv
<1>2. /\ GenName("Rename") /\ UNCHANGED <<weights, unwrap_failed>> /\ ~unwrap_failed
      /\ \E op \in CallsFor(fs, Alive(fs), "Rename", name_idx) : Attempt(Apply(fs, op))
  BY DEF AppendRename, RenameDrawn
<1>3. PICK op \in CallsFor(fs, Alive(fs), "Rename", name_idx) : Attempt(Apply(fs, op))
  BY <1>2
<1>4. PICK out : out = Apply(fs, op)
  OBVIOUS
<1>5. fs' = out.fs /\ out.err # "RenameToSubdirectoryError"
  BY <1>3, <1>4 DEF Attempt
<1>6. PICK kind \in Kinds : kind = "Rename" /\ kind \in NamingKinds
  BY DEF Kinds, NamingKinds
<1>7. name_idx \in Names /\ name_idx' = name_idx + 1
  BY <1>2, <1>6 DEF GenName
<1>8. PICK j : j = name_idx + 1
  OBVIOUS
<1>9. /\ out.err = Ok /\ Plain(out.fs) /\ Grounded(out.fs, j) /\ j \in Nat /\ j <= count
      /\ Len(out.fs.recording) = Len(fs.recording) + 1
      /\ SubSeq(out.fs.recording, 1, Len(fs.recording)) = fs.recording
  BY <1>1, <1>4, <1>5, <1>6, <1>7, <1>8, DrawnStep
<1>10. name_idx' = j /\ ~unwrap_failed'
  BY <1>2, <1>7, <1>8
<1>11. AppendsOne
  BY <1>5, <1>9 DEF AppendsOne
<1>12. UnwrapsFailOnlyWithoutWeights'
  BY <1>10 DEF UnwrapsFailOnlyWithoutWeights
<1>13. GInv(count)'
  BY <1>1, <1>2, <1>5, <1>9, <1>10, <1>12 DEF GInv
<1> QED BY <1>11, <1>13

(* Nothing left to draw.                                                    *)
LEMMA NothingDrawnStep ==
  ASSUME NEW count \in Nat, GInv(count), NoKindLeft
  PROVE  GInv(count)' /\ AppendsOne
<1>1. \A kind \in {"MkDir", "Create", "Symlink"} : ~Drawn(fs, Alive(fs), kind)
  BY DEF NoKindLeft, Kinds
<1>2. \A kind \in {"MkDir", "Create", "Symlink"} : Applicable(fs, Alive(fs), kind)
  BY DEF Applicable
<1>3. weights \in [Kinds -> Nat]
  BY WeightsAssumption DEF GInv
<1>4. \A kind \in {"MkDir", "Create", "Symlink"} : weights[kind] = 0
  <2> SUFFICES ASSUME NEW kind \in {"MkDir", "Create", "Symlink"}
               PROVE  weights[kind] = 0
    OBVIOUS
  <2>1. ~(weights[kind] > 0)
    BY <1>1, <1>2 DEF Drawn
  <2>2. weights[kind] \in Nat
    BY <1>3 DEF Kinds
  <2> QED BY <2>1, <2>2
<1>5. UNCHANGED <<weights, fs, name_idx>> /\ unwrap_failed' = TRUE
  BY DEF NoKindLeft
<1>6. UnwrapsFailOnlyWithoutWeights'
  BY <1>4, <1>5 DEF UnwrapsFailOnlyWithoutWeights
<1>7. GInv(count)'
  BY <1>5, <1>6 DEF GInv
<1>8. AppendsOne
  BY <1>5 DEF AppendsOne
<1> QED BY <1>7, <1>8

(* Every step keeps it.                                                     *)
LEMMA GeneratorNextInv ==
  ASSUME NEW count \in Nat, RoomForNames(count), GInv(count), [GeneratorNext]_generator_vars
  PROVE  GInv(count)' /\ [AppendsOne]_generator_vars
<1>1. CASE \E kind \in Kinds \ {"Rename"} : AppendUnwrapped(kind)
  BY <1>1, UnwrappedStep
<1>2. CASE AppendRename
  BY <1>2, RenameStep
<1>3. CASE NoKindLeft
  BY <1>3, NothingDrawnStep
<1>4. CASE UNCHANGED generator_vars
  BY <1>4 DEF GInv, UnwrapsFailOnlyWithoutWeights, generator_vars
<1> QED BY <1>1, <1>2, <1>3, <1>4 DEF GeneratorNext

(* The unwraps of append_one hold: what is drawn from the nodes that are    *)
(* alive can be applied, and if nothing is left to draw the configuration   *)
(* has no weight on mkdir, create and symlink (generator.rs:103-197).       *)
THEOREM UnwrapsHold ==
  ASSUME NEW count \in Nat, RoomForNames(count)
  PROVE  GeneratorSpec => []UnwrapsFailOnlyWithoutWeights
<1>1. GeneratorInit => GInv(count)
  BY GeneratorInitInv
<1>2. GInv(count) /\ [GeneratorNext]_generator_vars => GInv(count)'
  BY GeneratorNextInv
<1>3. GInv(count) => UnwrapsFailOnlyWithoutWeights
  BY DEF GInv
<1> QED BY <1>1, <1>2, <1>3, PTL DEF GeneratorSpec

(* append_one appends one operation to the workload, and keeps the rest     *)
(* (generator.rs:51-199).                                                   *)
THEOREM OneOperationIsAppended ==
  ASSUME NEW count \in Nat, RoomForNames(count)
  PROVE  GeneratorSpec => AppendsExactlyOne
<1>1. GeneratorInit => GInv(count)
  BY GeneratorInitInv
<1>2. GInv(count) /\ [GeneratorNext]_generator_vars => GInv(count)'
  BY GeneratorNextInv
<1>3. GInv(count) /\ [GeneratorNext]_generator_vars => [AppendsOne]_generator_vars
  BY GeneratorNextInv
<1>4. GeneratorSpec => [][AppendsOne]_generator_vars
  BY <1>1, <1>2, <1>3, PTL DEF GeneratorSpec
<1> QED BY <1>4 DEF AppendsExactlyOne, AppendsOne

(* Every path that alive() reports resolves to its node, also through       *)
(* symlinks, after any renames and removals (fs.rs:495-562).                *)
THEOREM AlivePathsLeadThere ==
  ASSUME NEW count \in Nat, RoomForNames(count)
  PROVE  GeneratorSpec => []AlivePathsLeadToTheirNodes
<1>1. GeneratorInit => GInv(count)
  BY GeneratorInitInv
<1>2. GInv(count) /\ [GeneratorNext]_generator_vars => GInv(count)'
  BY GeneratorNextInv
<1>3. GInv(count) => AlivePathsLeadToTheirNodes
  <2> SUFFICES ASSUME GInv(count)
               PROVE  AlivePathsLeadToTheirNodes
    OBVIOUS
  <2>1. PICK length : AllAlive(fs, Alive(fs), length)
    BY GroundedReady DEF GInv
  <2>2. \A at \in Alive(fs).dirs : ResolveNode(fs, at[2], TRUE).node = DirNode(at[1])
    BY <2>1 DEF AllAlive, AllReached, Reached, LeadsTo
  <2>3. \A at \in Alive(fs).files : ResolveNode(fs, at[2], FALSE).node = FileNode(at[1])
    BY <2>1 DEF AllAlive, LeadsTo
  <2>4. \A at \in Alive(fs).files_symlinked : ResolveNode(fs, at[2], TRUE).node = FileNode(at[1])
    BY <2>1 DEF AllAlive, FileReached, LeadsTo
  <2> QED BY <2>2, <2>3, <2>4 DEF AlivePathsLeadToTheirNodes
<1> QED BY <1>1, <1>2, <1>3, PTL DEF GeneratorSpec

(***************************************************************************)
(* Workloads in which nothing is named twice and every link mentions names  *)
(* that are older than itself.                                              *)
(***************************************************************************)
TargetsOlder(ops) ==
  \A j, p \in DOMAIN ops :
    j <= p /\ ops[j].kind = "Symlink" => MadeBy(ops[p]) \cap NamesIn(ops[j].target) = {}

MadeOnce(ops) == \A j, p \in DOMAIN ops : j # p => MadeBy(ops[j]) \cap MadeBy(ops[p]) = {}

Tidy(ops, long) ==
  /\ TargetsOlder(ops) /\ MadeOnce(ops)
  /\ \A j \in DOMAIN ops : Short(ops[j], long)

(* The first n operations of a workload, as a replay records them.          *)
Begins(rec, ops, n) ==
  /\ rec \in Seq(Operation) /\ ops \in Seq(Operation)
  /\ Len(rec) = n /\ n <= Len(ops)
  /\ \A k \in 1 .. n : SameCall(ops[k], rec[k])

(* Two calls that differ in the descriptor of an open make and name the     *)
(* same.                                                                    *)
LEMMA SameCallParts ==
  ASSUME NEW op, NEW o, SameCall(op, o)
  PROVE  /\ o.kind = op.kind /\ MadeBy(o) = MadeBy(op) /\ PathsIn(o) = PathsIn(op)
         /\ op.kind = "Symlink" => o.target = op.target
         /\ \A long : Short(op, long) => Short(o, long)
<1>1. CASE o = op
  BY <1>1
<1>2. CASE \E path, d, e : op = OpenOp(path, d) /\ o = OpenOp(path, e)
  <2>1. PICK path, d, e : op = OpenOp(path, d) /\ o = OpenOp(path, e)
    BY <1>2
  <2>2. o.kind = op.kind /\ op.kind # "Symlink"
    BY <2>1 DEF OpenOp
  <2>3. \A c : PathsIn(OpenOp(path, c)) = {path} /\ MadeBy(OpenOp(path, c)) = {}
    BY CallParts
  <2>4. MadeBy(o) = MadeBy(op) /\ PathsIn(o) = PathsIn(op)
    BY <2>1, <2>3
  <2> QED BY <2>2, <2>4 DEF Short
<1> QED BY <1>1, <1>2 DEF SameCall

(* The beginning of a tidy workload is tidy.                                *)
LEMMA BeginsTidy ==
  ASSUME NEW n \in Nat, NEW rec, NEW ops, Begins(rec, ops, n), NEW long, Tidy(ops, long)
  PROVE  Tidy(rec, long)
<1>1. DOMAIN rec = 1 .. n /\ \A k \in 1 .. n : k \in DOMAIN ops /\ SameCall(ops[k], rec[k])
  <2>1. DOMAIN rec = 1 .. n /\ DOMAIN ops = 1 .. Len(ops) /\ n <= Len(ops) /\ Len(ops) \in Nat
    BY DEF Begins
  <2>2. \A k \in 1 .. n : k \in 1 .. Len(ops)
    BY <2>1
  <2> QED BY <2>1, <2>2 DEF Begins
<1>2. \A k \in 1 .. n : /\ k \in DOMAIN ops /\ rec[k].kind = ops[k].kind /\ MadeBy(rec[k]) = MadeBy(ops[k])
                        /\ ops[k].kind = "Symlink" => rec[k].target = ops[k].target
                        /\ Short(ops[k], long) => Short(rec[k], long)
  BY <1>1, SameCallParts
<1>3. TargetsOlder(rec)
  BY <1>1, <1>2 DEF Tidy, TargetsOlder
<1>4. MadeOnce(rec)
  BY <1>1, <1>2 DEF Tidy, MadeOnce
<1>5. \A j \in DOMAIN rec : Short(rec[j], long)
  BY <1>1, <1>2 DEF Tidy
<1> QED BY <1>3, <1>4, <1>5 DEF Tidy

(***************************************************************************)
(* The tree that a workload leaves.                                         *)
(***************************************************************************)
(* Entries, links and directories come from operations of the recording.    *)
Traced(s) ==
  /\ \A n \in EntryNames(s) : \E j \in DOMAIN s.recording : n \in MadeBy(s.recording[j])
  /\ \A i \in DOMAIN s.symlinks : \E j \in DOMAIN s.recording :
       s.recording[j].kind = "Symlink" /\ s.recording[j].target = s.symlinks[i]
  /\ Len(s.dirs) <= Len(s.recording) + 1 /\ Len(s.symlinks) <= Len(s.recording)
  /\ TargetsOlder(s.recording) => LinksOrdered(s)

(* A new AbstractFS.                                                        *)
LEMMA NewFSTraced == Traced(NewFS)
<1>1. PICK s : s = NewFS
  OBVIOUS
<1>2. s.dirs = <<EmptyDir>> /\ s.symlinks = <<>> /\ s.recording = <<>>
  BY <1>1 DEF NewFS
<1>3. EntryNames(s) = {}
  <2>1. \A n \in Keys : EmptyDir[n] = Absent
    BY DEF EmptyDir
  <2> HIDE DEF EmptyDir
  <2> QED BY <1>2, <2>1 DEF EntryNames, Keys
<1>4. Len(s.dirs) <= Len(s.recording) + 1 /\ Len(s.symlinks) <= Len(s.recording) /\ LinksOrdered(s)
  BY <1>2 DEF LinksOrdered
<1>5. DOMAIN s.symlinks = {}
  BY <1>2
<1> QED BY <1>1, <1>3, <1>4, <1>5 DEF Traced

(* Any operation keeps it.                                                  *)
LEMMA ApplyTraced ==
  ASSUME NEW s, Plain(s), Traced(s), NEW op \in Operation
  PROVE  Traced(Apply(s, op).fs)
<1>1. Tree(s) /\ Consistent(s)
  BY DEF Plain, Recorded, Consistent
<1>2. CASE Apply(s, op).err # Ok
  BY <1>1, <1>2, ApplyAppends
<1>3. CASE Apply(s, op).err = Ok
  <2>1. PICK t : t = Apply(s, op).fs
    OBVIOUS
  <2>2. PICK o \in Operation : SameCall(op, o) /\ t.recording = Append(s.recording, o)
    BY <1>1, <1>3, <2>1, ApplyAppends
  <2>3. PICK rec : rec = t.recording
    OBVIOUS
  <2>4. PICK n \in Nat : n = Len(s.recording)
    BY <1>1, FieldsOf DEF Tree
  <2>5. /\ Len(rec) = n + 1 /\ DOMAIN rec = 1 .. n + 1 /\ DOMAIN s.recording = 1 .. n
        /\ rec[n + 1] = o /\ \A k \in 1 .. n : rec[k] = s.recording[k]
    <3>1. s.recording \in Seq(Operation)
      BY <1>1, FieldsOf DEF Tree
    <3> QED BY <2>2, <2>3, <2>4, <3>1
  <2>6. n + 1 \in 1 .. n + 1 /\ \A k \in 1 .. n : k \in 1 .. n + 1
    OBVIOUS
  <2>7. o.kind = op.kind /\ MadeBy(o) = MadeBy(op) /\ (op.kind = "Symlink" => o.target = op.target)
    BY <2>2, SameCallParts
  <2>8. PICK made, more, links : /\ made = MadeBy(op) /\ links = LinksAfter(s, op)
                                 /\ more = IF op.kind = "MkDir" THEN 1 ELSE 0
    OBVIOUS
  <2>9. Grown(s, t, made, more, links)
    BY <1>1, <1>3, <2>1, <2>8, ApplyGrown
  <2>10. s.symlinks \in Seq(PathName) /\ (op.kind = "Symlink" => op.target \in PathName)
    BY <1>1, FieldsOf DEF Tree, Operation
  <2>11. \A m \in EntryNames(t) : \E j \in DOMAIN rec : m \in MadeBy(rec[j])
    <3> SUFFICES ASSUME NEW m \in Names, NEW d \in DOMAIN t.dirs, t.dirs[d][m] # Absent
                 PROVE  \E j \in 1 .. n + 1 : m \in MadeBy(rec[j])
      BY <2>5 DEF EntryNames
    <3>1. m \in made \/ m \in EntryNames(s)
      BY <2>9 DEF Grown, EntriesFrom, EntryNames, Keys
    <3>2. CASE m \in made
      BY <2>5, <2>6, <2>7, <2>8, <3>2
    <3>3. CASE m \in EntryNames(s)
      <4>1. PICK j \in 1 .. n : m \in MadeBy(s.recording[j])
        BY <2>5, <3>3 DEF Traced
      <4> QED BY <2>5, <2>6, <4>1
    <3> QED BY <3>1, <3>2, <3>3
  <2>12. \A i \in DOMAIN links : \E j \in DOMAIN rec : rec[j].kind = "Symlink" /\ rec[j].target = links[i]
    <3> SUFFICES ASSUME NEW i \in DOMAIN links
                 PROVE  \E j \in 1 .. n + 1 : rec[j].kind = "Symlink" /\ rec[j].target = links[i]
      BY <2>5
    <3>1. \/ i \in DOMAIN s.symlinks /\ links[i] = s.symlinks[i]
          \/ op.kind = "Symlink" /\ links[i] = op.target
      BY <2>8, <2>10 DEF LinksAfter
    <3>2. CASE i \in DOMAIN s.symlinks /\ links[i] = s.symlinks[i]
      <4>1. PICK j \in 1 .. n : s.recording[j].kind = "Symlink" /\ s.recording[j].target = links[i]
        BY <2>5, <3>2 DEF Traced
      <4> QED BY <2>5, <2>6, <4>1
    <3>3. CASE op.kind = "Symlink" /\ links[i] = op.target
      BY <2>5, <2>6, <2>7, <3>3
    <3> QED BY <3>1, <3>2, <3>3
  <2>13. Len(t.dirs) <= Len(rec) + 1 /\ Len(links) <= Len(rec)
    <3>1. PICK dirs \in Nat : dirs = Len(s.dirs) /\ dirs <= n + 1
      BY <1>1, <2>4, FieldsOf DEF Tree, Traced
    <3>2. PICK size \in Nat : size = Len(s.symlinks) /\ size <= n
      BY <2>4, <2>10 DEF Traced
    <3>3. Len(t.dirs) = dirs + more /\ more \in 0 .. 1
      BY <2>8, <2>9, <3>1 DEF Grown
    <3>4. Len(links) = size \/ Len(links) = size + 1
      BY <2>8, <2>10, <3>2 DEF LinksAfter
    <3> QED BY <2>5, <3>1, <3>2, <3>3, <3>4
  <2>14. ASSUME TargetsOlder(rec)
         PROVE  LinksOrdered(t)
    <3>1. TargetsOlder(s.recording)
      BY <2>5, <2>6, <2>14 DEF TargetsOlder
    <3>2. \A i \in DOMAIN links : made \cap NamesIn(links[i]) = {}
      <4> SUFFICES ASSUME NEW i \in DOMAIN links
                   PROVE  made \cap NamesIn(links[i]) = {}
        OBVIOUS
      <4>1. PICK j \in 1 .. n + 1 : rec[j].kind = "Symlink" /\ rec[j].target = links[i]
        BY <2>5, <2>12
      <4>2. j <= n + 1
        OBVIOUS
      <4>3. MadeBy(rec[n + 1]) \cap NamesIn(rec[j].target) = {}
        BY <2>5, <2>6, <2>14, <4>1, <4>2 DEF TargetsOlder
      <4> QED BY <2>5, <2>7, <2>8, <4>1, <4>3
    <3>3. links = s.symlinks \/ \E target \in PathName : links = Append(s.symlinks, target)
      BY <2>8, <2>10 DEF LinksAfter
    <3>4. LinksOrdered(s)
      BY <3>1 DEF Traced
    <3> QED BY <1>1, <2>9, <3>2, <3>3, <3>4, LinksStayOrdered
  <2>15. t.symlinks = links
    BY <2>9 DEF Grown
  <2> QED BY <2>1, <2>3, <2>11, <2>12, <2>13, <2>14, <2>15 DEF Traced
<1> QED BY <1>2, <1>3

(***************************************************************************)
(* Replays end within the stack.                                            *)
(***************************************************************************)
(* Neither do the resolutions of short paths outgrow it, nor do loops end   *)
(* them.                                                                    *)
LEMMA ResolvesSmoothly ==
  ASSUME NEW s, NEW long, Roomy(s, long), NEW path \in PathName, Len(path) <= long
  PROVE  /\ \A follow \in BOOLEAN : Smooth(ResolveNode(s, path, follow))
         /\ Smooth(ResolveDir(s, path)) /\ Smooth(ResolveFile(s, path))
         /\ Smooth(ResolveDir(s, ParentOf(path))) /\ Smooth(NewEntry(s, path))
<1>1. PICK base \in Nat : StackDepth = base + 1
  BY DeepEnough
<1>2. ASSUME NEW p \in PathName, Len(p) <= long
      PROVE  (\A follow \in BOOLEAN : Smooth(ResolveNode(s, p, follow))) /\ Smooth(ResolveDir(s, p))
  <2>1. \A follow \in BOOLEAN : Smooth(WalkAnswer(s, base + 1, p, follow, {}))
    BY <1>1, <1>2, RoomForPaths
  <2>2. \A follow \in BOOLEAN : Smooth(ResolveNode(s, p, follow))
    BY <1>1, <2>1, ResolveAnswers
  <2>3. Smooth(ResolveNode(s, p, TRUE))
    BY <2>2
  <2> QED BY <2>2, <2>3, SmoothFacts DEF ResolveDir
<1>3. PICK parent \in PathName : parent = ParentOf(path)
  BY PathFacts
<1>4. Len(parent) <= long
  <2>1. CASE IsRoot(path)
    BY <1>3, <2>1 DEF ParentOf, IsRoot
  <2>2. CASE ~IsRoot(path)
    <3>1. Len(path) \in Nat \ {0} /\ Len(parent) = Len(path) - 1 /\ long \in Nat
      BY <1>3, <2>2, ParentIsShorter DEF Roomy
    <3> QED BY <3>1
  <2> QED BY <2>1, <2>2
<1>5. Smooth(ResolveFile(s, path))
  <2>1. Smooth(ResolveNode(s, path, TRUE))
    BY <1>2
  <2>2. Smooth(Unresolved("NotAFile"))
    BY DEF Smooth, Unresolved
  <2> QED BY <2>1, <2>2 DEF ResolveFile, AsFile
<1>6. Smooth(ResolveDir(s, parent))
  BY <1>2, <1>4
<1>7. Smooth(NewEntry(s, path))
  <2>1. Smooth(Unresolved("NameAlreadyExists"))
    BY DEF Smooth, Unresolved
  <2> QED BY <1>3, <1>6, <2>1 DEF NewEntry, Vacant
<1> QED BY <1>2, <1>3, <1>5, <1>6, <1>7

(* The operations on descriptors resolve nothing.                           *)
LEMMA DescriptorsEnd ==
  ASSUME NEW s, NEW d, NEW src, NEW size
  PROVE  /\ Close(s, d).err # "StackOverflow" /\ FSync(s, d).err # "StackOverflow"
         /\ Read(s, d, size).err # "StackOverflow" /\ Write(s, d, src, size).err # "StackOverflow"
<1>1. \A t, op : Done(t, op).err = Ok
  BY DEF Done
<1>2. \A t, e : Failed(t, e).err = e
  BY DEF Failed
<1>3. DescriptorError(s, d) # "StackOverflow" /\ Ok # "StackOverflow"
  BY DEF DescriptorError, Ok
<1>4. \A t, n, op : Advanced(t, d, n, op).err # "StackOverflow"
  BY <1>1, <1>2, <1>3 DEF Advanced
<1>5. Close(s, d).err # "StackOverflow" /\ FSync(s, d).err # "StackOverflow"
  BY <1>1, <1>2, <1>3 DEF Close, FSync
<1>6. Read(s, d, size).err # "StackOverflow"
  <2>1. \/ \E e : e # "StackOverflow" /\ Read(s, d, size) = Failed(s, e)
        \/ \E n, op : Read(s, d, size) = Advanced(s, d, n, op)
    BY <1>3 DEF Read
  <2> QED BY <1>2, <1>4, <2>1
<1>7. Write(s, d, src, size).err # "StackOverflow"
  <2>1. \/ \E e : e # "StackOverflow" /\ Write(s, d, src, size) = Failed(s, e)
        \/ \E t, n, op : Write(s, d, src, size) = Advanced(t, d, n, op)
    BY <1>3 DEF Write
  <2> QED BY <1>2, <1>4, <2>1
<1> QED BY <1>5, <1>6, <1>7

(* A call with short paths does not crash.                                  *)
LEMMA ApplyEnds ==
  ASSUME NEW s, NEW long, Roomy(s, long), Consistent(s), NEW op \in Operation, Short(op, long)
  PROVE  Apply(s, op).err \notin Crashes
<1>1. Apply(s, op).err # "Panic"
  BY ApplyGood DEF Good
<1>2. \A t, o : Done(t, o).err = Ok
  BY DEF Done
<1>3. \A t, e : Failed(t, e).err = e
  BY DEF Failed
<1>4. Ok # "StackOverflow"
  BY DEF Ok
<1>5. ASSUME NEW path \in PathName, path \in PathsIn(op)
      PROVE  /\ \A follow \in BOOLEAN : ResolveNode(s, path, follow).err # "StackOverflow"
             /\ ResolveDir(s, path).err # "StackOverflow" /\ ResolveFile(s, path).err # "StackOverflow"
             /\ ResolveDir(s, ParentOf(path)).err # "StackOverflow"
             /\ NewEntry(s, path).err # "StackOverflow"
  BY <1>5, ResolvesSmoothly DEF Short, Smooth
<1>6. CASE op \in [kind : {"MkDir", "Create", "Remove"}, path : PathName]
  <2>1. op.path \in PathName /\ op.path \in PathsIn(op)
    BY <1>6 DEF PathsIn
  <2>2. /\ ResolveDir(s, ParentOf(op.path)).err # "StackOverflow"
        /\ NewEntry(s, op.path).err # "StackOverflow"
    BY <1>5, <2>1
  <2>3. MkDir(s, op.path).err # "StackOverflow"
    BY <1>2, <1>3, <1>4, <2>2 DEF MkDir
  <2>4. Create(s, op.path).err # "StackOverflow"
    BY <1>2, <1>3, <1>4, <2>2 DEF Create
  <2>5. Remove(s, op.path).err # "StackOverflow"
    BY <1>2, <1>3, <1>4, <2>2 DEF Remove
  <2>6. Apply(s, op) \in {MkDir(s, op.path), Create(s, op.path), Remove(s, op.path)}
    BY <1>6 DEF Apply
  <2> QED BY <1>1, <2>3, <2>4, <2>5, <2>6 DEF Crashes
<1>7. CASE op \in [kind : {"Hardlink", "Rename"}, old_path : PathName, new_path : PathName]
  <2>1. PICK old \in PathName, new \in PathName :
          old = op.old_path /\ new = op.new_path /\ old \in PathsIn(op) /\ new \in PathsIn(op)
    BY <1>7 DEF PathsIn
  <2>2. /\ ResolveDir(s, ParentOf(old)).err # "StackOverflow" /\ ResolveFile(s, old).err # "StackOverflow"
        /\ ResolveNode(s, old, FALSE).err # "StackOverflow"
        /\ NewEntry(s, new).err # "StackOverflow" /\ ResolveDir(s, new).err # "StackOverflow"
        /\ ResolveDir(s, ParentOf(new)).err # "StackOverflow"
    BY <1>5, <2>1
  <2>3. Hardlink(s, old, new).err # "StackOverflow"
    BY <1>2, <1>3, <1>4, <2>2 DEF Hardlink
  <2>4. Rename(s, old, new).err # "StackOverflow"
    <3>1. CASE Moves(s, old, new)
      BY <1>4, <3>1, RenameSucceeds
    <3>2. CASE ~Moves(s, old, new)
      <4>1. ResolveDir(s, new).err \notin Crashes
        <5>1. ResolveDir(s, new) \in Result
          BY ResolveDirSound DEF Sound, Roomy
        <5>2. ResolveDir(s, new).err # "Panic"
          BY <5>1 DEF Result, ResolveErrors, Ok
        <5> QED BY <2>2, <5>2 DEF Crashes
      <4>2. \E e : e # "StackOverflow" /\ Rename(s, old, new) = Failed(s, e)
        BY <1>4, <2>2, <3>2, <4>1 DEF Rename, Moves, SourceOf
      <4> QED BY <1>3, <4>2
    <3> QED BY <3>1, <3>2
  <2>5. Apply(s, op) \in {Hardlink(s, old, new), Rename(s, old, new)}
    BY <1>7, <2>1 DEF Apply
  <2> QED BY <1>1, <2>3, <2>4, <2>5 DEF Crashes
<1>8. CASE op \in [kind : {"Symlink"}, target : PathName, linkpath : PathName]
  <2>1. op.linkpath \in PathName /\ op.linkpath \in PathsIn(op)
    BY <1>8 DEF PathsIn
  <2>2. NewEntry(s, op.linkpath).err # "StackOverflow"
    BY <1>5, <2>1
  <2>3. Symlink(s, op.target, op.linkpath).err # "StackOverflow"
    BY <1>2, <1>3, <1>4, <2>2 DEF Symlink
  <2>4. Apply(s, op) = Symlink(s, op.target, op.linkpath)
    BY <1>8 DEF Apply
  <2> QED BY <1>1, <2>3, <2>4 DEF Crashes
<1>9. CASE op \in [kind : {"Open"}, path : PathName, des : Nat]
  <2>1. op.path \in PathName /\ op.path \in PathsIn(op)
    BY <1>9 DEF PathsIn
  <2>2. ResolveFile(s, op.path).err # "StackOverflow"
    BY <1>5, <2>1
  <2>3. Open(s, op.path).err # "StackOverflow"
    BY <1>2, <1>3, <1>4, <2>2 DEF Open
  <2>4. Apply(s, op) = Open(s, op.path)
    BY <1>9 DEF Apply
  <2> QED BY <1>1, <2>3, <2>4 DEF Crashes
<1>10. CASE op.kind \in {"Close", "FSync", "Read", "Write"}
  <2>1. \/ Apply(s, op) = Close(s, op.des) \/ Apply(s, op) = FSync(s, op.des)
        \/ Apply(s, op) = Read(s, op.des, op.size)
        \/ Apply(s, op) = Write(s, op.des, op.src_offset, op.size)
    BY <1>10 DEF Apply
  <2>2. Apply(s, op).err # "StackOverflow"
    BY <2>1, DescriptorsEnd
  <2> QED BY <1>1, <2>2 DEF Crashes
<1> QED BY <1>6, <1>7, <1>8, <1>9, <1>10 DEF Operation

(***************************************************************************)
(* Replays of workloads of bounded length.                                  *)
(***************************************************************************)
(* The stack is deep enough for the links and paths of so many operations.  *)
RoomForLength(length) == (length + 1) * (2 * length + 4) < StackDepth

Whole(ops, length) ==
  /\ ops \in Seq(Operation) /\ \A k \in DOMAIN ops : Named(ops[k])
  /\ Len(ops) <= length /\ Tidy(ops, 2 * length + 3)

(* The tree after the first n operations of a workload.                     *)
AtWork(s, ops, n) == Plain(s) /\ Traced(s) /\ Begins(s.recording, ops, n)

(* There is room for all that the operations mention.                       *)
LEMMA WorkRoomy ==
  ASSUME NEW length \in Nat, RoomForLength(length), NEW ops, Whole(ops, length),
         NEW s, NEW n \in Nat, AtWork(s, ops, n)
  PROVE  /\ Roomy(s, 2 * length + 3) /\ Consistent(s) /\ NoEmptyNames(s) /\ n <= length
         /\ Tidy(s.recording, 2 * length + 3)
         /\ n < length => Ready(s, 2 * length + 3) /\ AllAlive(s, Alive(s), 2 * Len(s.dirs) + 2)
         /\ n < length => 2 * Len(s.dirs) + 3 <= 2 * length + 3
<1>1. Tree(s) /\ Consistent(s) /\ NoEmptyNames(s)
  BY DEF AtWork, Plain, Recorded, Consistent
<1>2. PICK long \in Nat : long = 2 * length + 3
  OBVIOUS
<1>3. Tidy(s.recording, long) /\ Len(s.recording) = n /\ n <= length
  <2>1. Tidy(ops, long) /\ Begins(s.recording, ops, n)
    BY <1>2 DEF Whole, AtWork
  <2>2. Len(s.recording) = n /\ n <= Len(ops) /\ Len(ops) <= length /\ Len(ops) \in Nat
    BY <2>1 DEF Begins, Whole
  <2>3. Tidy(s.recording, long)
    BY <2>1, BeginsTidy
  <2> QED BY <2>2, <2>3
<1>4. PICK dirs \in Nat : dirs = Len(s.dirs) /\ dirs <= n + 1
  <2>1. Len(s.dirs) \in Nat /\ Len(s.dirs) <= n + 1
    BY <1>1, <1>3, FieldsOf DEF Tree, AtWork, Traced
  <2> QED BY <2>1
<1>5. PICK links \in Nat : links = Len(s.symlinks) /\ links <= length
  <2>1. Len(s.symlinks) \in Nat /\ Len(s.symlinks) <= n
    BY <1>1, <1>3, FieldsOf DEF Tree, AtWork, Traced
  <2> QED BY <1>3, <2>1
<1>6. TargetsShort(s, long)
  <2> SUFFICES ASSUME NEW i \in DOMAIN s.symlinks
               PROVE  Len(s.symlinks[i]) <= long
    BY DEF TargetsShort
  <2>1. PICK j \in DOMAIN s.recording :
          s.recording[j].kind = "Symlink" /\ s.recording[j].target = s.symlinks[i]
    BY DEF AtWork, Traced
  <2>2. s.recording[j].target \in PathsIn(s.recording[j])
    BY <2>1 DEF PathsIn
  <2> QED BY <1>3, <2>1, <2>2 DEF Tidy, Short
<1>7. (links + 1) * (long + 1) < StackDepth
  <2>1. PICK c \in Nat : c = 2 * length + 4 /\ long + 1 = c
    BY <1>2
  <2>2. PICK e \in Nat : length = links + e
    <3>1. length - links \in Nat /\ length = links + (length - links)
      BY <1>5
    <3> QED BY <3>1
  <2>3. (length + 1) * c = (links + 1) * c + e * c /\ e * c \in Nat
    BY <2>1, <2>2
  <2>4. (links + 1) * c \in Nat /\ (length + 1) * c < StackDepth /\ StackDepth \in Nat
    BY <2>1, StackDepthAssumption DEF RoomForLength
  <2> QED BY <2>1, <2>3, <2>4
<1>8. LinksOrdered(s)
  BY <1>3 DEF AtWork, Traced, Tidy
<1>9. Roomy(s, long)
  BY <1>1, <1>5, <1>6, <1>7, <1>8 DEF Roomy
<1>10. ASSUME n < length
       PROVE  Ready(s, long) /\ AllAlive(s, Alive(s), 2 * dirs + 2) /\ 2 * dirs + 3 <= long
  <2>1. 2 * dirs + 3 <= long /\ 2 * dirs + 2 <= long /\ 2 * dirs + 2 < long /\ 2 * dirs + 2 \in Nat
    BY <1>2, <1>4, <1>10
  <2>2. AllAlive(s, Alive(s), 2 * dirs + 2)
    BY <1>1, <1>4, <1>9, <2>1, AliveReached
  <2>3. Ready(s, long)
    BY <1>1, <1>9, <2>1, <2>2 DEF Ready
  <2> QED BY <2>1, <2>2, <2>3
<1> QED BY <1>1, <1>2, <1>3, <1>4, <1>9, <1>10

(* The next operation does not crash.                                       *)
LEMMA NextEnds ==
  ASSUME NEW length \in Nat, RoomForLength(length), NEW ops, Whole(ops, length),
         NEW s, NEW n \in Nat, AtWork(s, ops, n), n < Len(ops),
         NEW out, out = Apply(s, ops[n + 1])
  PROVE  /\ out.err \notin Crashes
         /\ out.err = Ok => out = Started(out.fs) /\ AtWork(out.fs, ops, n + 1)
<1>1. Roomy(s, 2 * length + 3) /\ Consistent(s)
  BY WorkRoomy
<1>2. PICK op \in Operation : op = ops[n + 1] /\ Named(op) /\ Short(op, 2 * length + 3)
  <2>1. n + 1 \in DOMAIN ops /\ ops[n + 1] \in Operation
    <3>1. ops \in Seq(Operation) /\ n + 1 \in 1 .. Len(ops)
      BY DEF Whole
    <3> QED BY <3>1
  <2> QED BY <2>1 DEF Whole, Tidy
<1>3. out.err \notin Crashes
  BY <1>1, <1>2, ApplyEnds
<1>4. ASSUME out.err = Ok
      PROVE  out = Started(out.fs) /\ AtWork(out.fs, ops, n + 1)
  <2>1. Plain(out.fs) /\ Traced(out.fs)
    BY <1>2, ApplyPlain, ApplyTraced DEF AtWork
  <2>2. PICK o \in Operation : SameCall(op, o) /\ out.fs.recording = Append(s.recording, o)
    BY <1>1, <1>2, <1>4, ApplyAppends
  <2>3. PICK rec : rec = s.recording
    OBVIOUS
  <2>4. rec \in Seq(Operation) /\ Len(rec) = n /\ \A k \in 1 .. n : SameCall(ops[k], rec[k])
    BY <2>3 DEF AtWork, Begins
  <2>5. PICK more : more = Append(rec, o)
    OBVIOUS
  <2>6. /\ more \in Seq(Operation) /\ Len(more) = n + 1 /\ more[n + 1] = o
        /\ \A k \in 1 .. n : more[k] = rec[k]
    BY <2>4, <2>5
  <2>7. \A k \in 1 .. n + 1 : SameCall(ops[k], more[k])
    <3> SUFFICES ASSUME NEW k \in 1 .. n + 1
                 PROVE  SameCall(ops[k], more[k])
      OBVIOUS
    <3>1. k = n + 1 \/ k \in 1 .. n
      OBVIOUS
    <3> QED BY <1>2, <2>2, <2>4, <2>6, <3>1
  <2>8. ops \in Seq(Operation) /\ n + 1 <= Len(ops)
    BY DEF Whole
  <2>9. Begins(more, ops, n + 1)
    BY <2>6, <2>7, <2>8 DEF Begins
  <2>10. out = Started(out.fs)
    BY <1>1, <1>2, <1>4, ApplyAppends
  <2> QED BY <2>1, <2>2, <2>3, <2>5, <2>9, <2>10 DEF AtWork
<1> QED BY <1>3, <1>4

(* Nor does the replay of all that is left.                                 *)
LEMMA ReplayEnds ==
  ASSUME NEW length \in Nat, RoomForLength(length), NEW ops, Whole(ops, length),
         NEW s, NEW n \in Nat, AtWork(s, ops, n),
         NEW rest \in Seq(Operation), NEW m \in Nat, Len(rest) = m, n + m <= Len(ops),
         \A k \in 1 .. m : rest[k] = ops[n + k],
         NEW out, out = Replay(s, rest)
  PROVE  /\ out.err \notin Crashes
         /\ out.err = Ok => out = Started(out.fs) /\ AtWork(out.fs, ops, n + m)
<1>0. ops \in Seq(Operation) /\ Len(ops) \in Nat
  BY DEF Whole
<1>1. PICK f : IsRun(f, s, rest, m) /\ out = f[m]
  BY ReplayIsRun
<1> DEFINE Fine(k) == /\ f[k].err \notin Crashes
                      /\ f[k].err = Ok => f[k] = Started(f[k].fs) /\ AtWork(f[k].fs, ops, n + k)
           T == {k \in Nat : k <= m => Fine(k)}
<1>2. 0 \in T
  <2>1. f[0] = Started(s) /\ f[0].fs = s /\ f[0].err = Ok /\ n + 0 = n
    BY <1>1 DEF IsRun, Started
  <2>2. Ok \notin Crashes
    BY DEF Ok, Crashes
  <2> QED BY <2>1, <2>2
<1>3. ASSUME NEW k \in Nat, k \in T
      PROVE  k + 1 \in T
  <2> SUFFICES ASSUME k + 1 <= m
               PROVE  Fine(k + 1)
    OBVIOUS
  <2>1. Fine(k) /\ k + 1 \in 1 .. m /\ (k + 1) - 1 = k
    BY <1>3
  <2>2. f[k + 1] = ReplayNext(f[k], rest[k + 1])
    BY <1>1, <2>1 DEF IsRun
  <2>3. CASE f[k].err # Ok
    BY <2>1, <2>2, <2>3 DEF ReplayNext
  <2>4. CASE f[k].err = Ok
    <3>1. PICK j \in Nat : j = n + k /\ n + (k + 1) = j + 1 /\ j < Len(ops)
      BY <1>0
    <3>2. PICK t : t = f[k].fs /\ AtWork(t, ops, j)
      BY <2>1, <2>4, <3>1
    <3>3. rest[k + 1] = ops[j + 1]
      BY <2>1, <3>1
    <3>4. f[k + 1] = Apply(t, ops[j + 1])
      BY <2>2, <2>4, <3>2, <3>3 DEF ReplayNext
    <3> HIDE DEF Fine
    <3>5. /\ f[k + 1].err \notin Crashes
          /\ f[k + 1].err = Ok => f[k + 1] = Started(f[k + 1].fs) /\ AtWork(f[k + 1].fs, ops, j + 1)
      BY <3>1, <3>2, <3>4, NextEnds
    <3> QED BY <3>1, <3>5 DEF Fine
  <2> QED BY <2>3, <2>4
<1> HIDE DEF T, Fine
<1>4. m \in T
  BY <1>2, <1>3, NatSetInduction
<1> QED BY <1>1, <1>4 DEF T, Fine

(* From the start.                                                          *)
LEMMA WorkBegins ==
  ASSUME NEW ops \in Seq(Operation)
  PROVE  AtWork(NewFS, ops, 0)
<1>1. NewFS.recording = <<>>
  BY DEF NewFS
<1>2. Begins(<<>>, ops, 0)
  BY DEF Begins
<1> QED BY <1>1, <1>2, NewFSPlain, NewFSTraced DEF AtWork

(* The names of a tree are names that an operation before has made.         *)
LEMMA NamesMade ==
  ASSUME NEW s, NEW ops, NEW n \in Nat, AtWork(s, ops, n), NEW name \in EntryNames(s)
  PROVE  \E j \in 1 .. n : j \in DOMAIN ops /\ name \in MadeBy(ops[j])
<1>1. PICK j \in DOMAIN s.recording : name \in MadeBy(s.recording[j])
  BY DEF AtWork, Traced
<1>2. j \in 1 .. n /\ SameCall(ops[j], s.recording[j]) /\ j \in DOMAIN ops
  <2>1. DOMAIN s.recording = 1 .. n /\ DOMAIN ops = 1 .. Len(ops) /\ Len(ops) \in Nat /\ n <= Len(ops)
    BY DEF AtWork, Begins
  <2> QED BY <2>1 DEF AtWork, Begins
<1>3. MadeBy(s.recording[j]) = MadeBy(ops[j])
  BY <1>2, SameCallParts
<1> QED BY <1>1, <1>2, <1>3

(***************************************************************************)
(* The edits keep workloads tidy.                                           *)
(***************************************************************************)
(* A name that is free is none that an operation makes, or a link mentions. *)
LEMMA FreshApart ==
  ASSUME NEW ops \in Seq(Operation), NEW name, name \notin UsedNames(ops),
         NEW j \in DOMAIN ops, Named(ops[j])
  PROVE  /\ name \notin MadeBy(ops[j])
         /\ ops[j].kind = "Symlink" => name \notin NamesIn(ops[j].target)
<1>1. PICK op \in Operation : op = ops[j] /\ Named(op)
  OBVIOUS
<1>2. \A path \in NamedBy(op) : name \notin Seqs!ToSet(path)
  BY <1>1 DEF UsedNames
<1>3. \A path \in NamedBy(op) \cap PathName : name \notin NamesIn(path)
  <2> SUFFICES ASSUME NEW path \in NamedBy(op) \cap PathName
               PROVE  name \notin NamesIn(path)
    OBVIOUS
  <2>1. Seqs!ToSet(path) = NamesIn(path)
    BY DEF Seqs!ToSet, NamesIn, PathName
  <2> QED BY <1>2, <2>1
<1>4. ASSUME NEW path \in PathName, path # Root, path \in NamedBy(op)
      PROVE  name # NameOf(path)
  <2>1. path \in Seq(Names) /\ Len(path) \in Nat /\ Len(path) # 0
    BY <1>4 DEF PathName, Root
  <2>2. Len(path) \in 1 .. Len(path)
    BY <2>1
  <2>3. path[Len(path)] \in NamesIn(path)
    BY <2>2 DEF NamesIn
  <2>4. NameOf(path) = path[Len(path)]
    BY <1>4 DEF NameOf, IsRoot
  <2> QED BY <1>3, <1>4, <2>3, <2>4
<1>5. name \notin MadeBy(op)
  <2>1. CASE op.kind \in {"MkDir", "Create"}
    <3>1. op.path \in PathName
      BY <2>1 DEF Operation
    <3>2. op.path # Root /\ op.path \in NamedBy(op) /\ MadeBy(op) = {NameOf(op.path)}
      BY <1>1, <2>1 DEF Named, NamedBy, MadeBy
    <3> QED BY <1>4, <3>1, <3>2
  <2>2. CASE op.kind \in {"Hardlink", "Rename"}
    <3>1. op.new_path \in PathName
      BY <2>2 DEF Operation
    <3>2. op.new_path # Root /\ op.new_path \in NamedBy(op) /\ MadeBy(op) = {NameOf(op.new_path)}
      BY <1>1, <2>2 DEF Named, NamedBy, MadeBy
    <3> QED BY <1>4, <3>1, <3>2
  <2>3. CASE op.kind = "Symlink"
    <3>1. op.linkpath \in PathName
      BY <2>3 DEF Operation
    <3>2. op.linkpath # Root /\ op.linkpath \in NamedBy(op) /\ MadeBy(op) = {NameOf(op.linkpath)}
      BY <1>1, <2>3 DEF Named, NamedBy, MadeBy
    <3> QED BY <1>4, <3>1, <3>2
  <2>4. CASE op.kind \notin {"MkDir", "Create", "Hardlink", "Rename", "Symlink"}
    BY <2>4 DEF MadeBy
  <2> QED BY <2>1, <2>2, <2>3, <2>4
<1>6. op.kind = "Symlink" => name \notin NamesIn(op.target)
  <2> SUFFICES ASSUME op.kind = "Symlink"
               PROVE  name \notin NamesIn(op.target)
    OBVIOUS
  <2>1. op.target \in PathName /\ op.target \in NamedBy(op)
    BY DEF Operation, NamedBy
  <2> QED BY <1>3, <2>1
<1> QED BY <1>1, <1>5, <1>6

(* Without one of its operations a workload is still a tidy one.            *)
LEMMA WithoutWhole ==
  ASSUME NEW length \in Nat, NEW ops, Whole(ops, length), NEW i \in DOMAIN ops
  PROVE  Whole(Without(ops, i), length)
<1>0. ops \in Seq(Operation) /\ Len(ops) \in Nat /\ DOMAIN ops = 1 .. Len(ops)
  BY DEF Whole
<1>1. PICK n \in Nat : Len(ops) = n + 1 /\ i \in 1 .. n + 1
  <2>1. PICK n : n = Len(ops) - 1
    OBVIOUS
  <2>2. n \in Nat /\ Len(ops) = n + 1 /\ i \in 1 .. n + 1
    BY <1>0, <2>1
  <2> QED BY <2>2
<1>2. PICK rest : rest = Without(ops, i)
  OBVIOUS
<1>3. /\ rest \in Seq(Operation) /\ Len(rest) = n
      /\ \A k \in 1 .. n : rest[k] = IF k < i THEN ops[k] ELSE ops[k + 1]
  <2>1. PICK S : S = Operation
    OBVIOUS
  <2>2. ops \in Seq(S)
    BY <1>0, <2>1
  <2>3. /\ Without(ops, i) \in Seq(S) /\ Len(Without(ops, i)) = n
        /\ \A k \in 1 .. n : Without(ops, i)[k] = IF k < i THEN ops[k] ELSE ops[k + 1]
    BY ONLY <1>1, <2>2, WithoutOne, n \in Nat
  <2> QED BY <1>2, <2>1, <2>3
<1>4. PICK g : g = [k \in 1 .. n |-> IF k < i THEN k ELSE k + 1]
  OBVIOUS
<1>5. \A k \in 1 .. n : g[k] \in DOMAIN ops /\ rest[k] = ops[g[k]]
  BY <1>0, <1>1, <1>3, <1>4
<1>6. \A j, p \in 1 .. n : (j <= p => g[j] <= g[p]) /\ (j # p => g[j] # g[p])
  BY <1>1, <1>4
<1>7. DOMAIN rest = 1 .. n
  BY <1>3
<1>8. TargetsOlder(rest) /\ MadeOnce(rest) /\ \A j \in DOMAIN rest : Short(rest[j], 2 * length + 3)
  <2>1. TargetsOlder(ops) /\ MadeOnce(ops) /\ \A j \in DOMAIN ops : Short(ops[j], 2 * length + 3)
    BY DEF Whole, Tidy
  <2>2. TargetsOlder(rest)
    <3> SUFFICES ASSUME NEW j \in 1 .. n, NEW p \in 1 .. n, j <= p, rest[j].kind = "Symlink"
                 PROVE  MadeBy(rest[p]) \cap NamesIn(rest[j].target) = {}
      BY <1>7 DEF TargetsOlder
    <3>1. g[j] \in DOMAIN ops /\ g[p] \in DOMAIN ops /\ g[j] <= g[p]
      BY <1>5, <1>6
    <3>2. rest[j] = ops[g[j]] /\ rest[p] = ops[g[p]]
      BY <1>5
    <3> QED BY <2>1, <3>1, <3>2 DEF TargetsOlder
  <2>3. MadeOnce(rest)
    <3> SUFFICES ASSUME NEW j \in 1 .. n, NEW p \in 1 .. n, j # p
                 PROVE  MadeBy(rest[j]) \cap MadeBy(rest[p]) = {}
      BY <1>7 DEF MadeOnce
    <3>1. g[j] \in DOMAIN ops /\ g[p] \in DOMAIN ops /\ g[j] # g[p]
      BY <1>5, <1>6
    <3>2. rest[j] = ops[g[j]] /\ rest[p] = ops[g[p]]
      BY <1>5
    <3> QED BY <2>1, <3>1, <3>2 DEF MadeOnce
  <2> QED BY <1>5, <1>7, <2>1, <2>2, <2>3
<1>9. \A k \in DOMAIN rest : Named(rest[k])
  BY <1>5, <1>7 DEF Whole
<1>10. Len(rest) <= length
  BY <1>1, <1>3 DEF Whole
<1> QED BY <1>2, <1>3, <1>8, <1>9, <1>10 DEF Whole, Tidy

(* With an operation that makes a new name, or none.                        *)
LEMMA InsertedWhole ==
  ASSUME NEW length \in Nat, NEW ops, Whole(ops, length), NEW n \in Nat, n = Len(ops), n < length,
         NEW p \in Nat, p <= n, NEW s, AtWork(s, ops, p),
         NEW made, made \cap UsedNames(ops) = {},
         NEW wide \in Nat, wide + 1 <= 2 * length + 3, NEW op, Modest(s, op, made, wide),
         NEW more \in Seq(Operation), Len(more) = n + 1,
         \A k \in 1 .. p : more[k] = ops[k], more[p + 1] = op,
         \A k \in p + 1 .. n : more[k + 1] = ops[k]
  PROVE  Whole(more, length)
<1>0. ops \in Seq(Operation) /\ DOMAIN ops = 1 .. n /\ DOMAIN more = 1 .. n + 1
  BY DEF Whole
<1>1. /\ op \in Operation /\ Named(op) /\ MadeBy(op) = made /\ Short(op, wide + 1)
      /\ op.kind = "Symlink" => NamesIn(op.target) \subseteq EntryNames(s)
  BY DEF Modest
<1>2. PICK g : g = [k \in 1 .. n + 1 |-> IF k <= p THEN k ELSE k - 1]
  OBVIOUS
<1>3. \A k \in 1 .. n + 1 : k # p + 1 => g[k] \in 1 .. n /\ more[k] = ops[g[k]]
  <2> SUFFICES ASSUME NEW k \in 1 .. n + 1, k # p + 1
               PROVE  g[k] \in 1 .. n /\ more[k] = ops[g[k]]
    OBVIOUS
  <2>1. CASE k <= p
    BY <1>2, <2>1
  <2>2. CASE ~(k <= p)
    <3>1. PICK e : e = k - 1
      OBVIOUS
    <3>2. e \in p + 1 .. n /\ k = e + 1 /\ g[k] = e
      BY <1>2, <2>2, <3>1
    <3>3. e \in 1 .. n
      BY <3>2
    <3> QED BY <3>2, <3>3
  <2> QED BY <2>1, <2>2
<1>4. \A j, k \in 1 .. n + 1 : /\ j # p + 1 /\ k # p + 1 /\ j <= k => g[j] <= g[k]
                               /\ j # p + 1 /\ k # p + 1 /\ j # k => g[j] # g[k]
                               /\ k > p + 1 => g[k] > p
  BY <1>2
<1>5. \A j \in 1 .. n : /\ made \cap MadeBy(ops[j]) = {}
                        /\ ops[j].kind = "Symlink" => made \cap NamesIn(ops[j].target) = {}
  BY <1>0, FreshApart DEF Whole
<1>6. \A x \in EntryNames(s) : x \notin made /\ \A k \in 1 .. n : k > p => x \notin MadeBy(ops[k])
  <2> SUFFICES ASSUME NEW x \in EntryNames(s)
               PROVE  x \notin made /\ \A k \in 1 .. n : k > p => x \notin MadeBy(ops[k])
    OBVIOUS
  <2>1. PICK j \in 1 .. p : j \in DOMAIN ops /\ x \in MadeBy(ops[j])
    BY NamesMade
  <2>2. x \notin made
    BY <1>0, <1>5, <2>1
  <2>3. \A k \in 1 .. n : k > p => j # k
    BY <2>1
  <2> QED BY <1>0, <2>1, <2>2, <2>3 DEF Whole, Tidy, MadeOnce
<1>7. TargetsOlder(more)
  <2> SUFFICES ASSUME NEW j \in 1 .. n + 1, NEW k \in 1 .. n + 1, j <= k, more[j].kind = "Symlink"
               PROVE  MadeBy(more[k]) \cap NamesIn(more[j].target) = {}
    BY <1>0 DEF TargetsOlder
  <2>1. CASE j = p + 1 /\ k = p + 1
    BY <1>1, <1>6, <2>1
  <2>2. CASE j = p + 1 /\ k # p + 1
    <3>1. k > p + 1
      BY <2>2
    <3>2. g[k] \in 1 .. n /\ g[k] > p /\ more[k] = ops[g[k]]
      BY <1>3, <1>4, <2>2, <3>1
    <3> QED BY <1>1, <1>6, <2>2, <3>2
  <2>3. CASE j # p + 1 /\ k = p + 1
    BY <1>1, <1>3, <1>5, <2>3
  <2>4. CASE j # p + 1 /\ k # p + 1
    <3>1. g[j] \in DOMAIN ops /\ g[k] \in DOMAIN ops /\ g[j] <= g[k]
      BY <1>0, <1>3, <1>4, <2>4
    <3>2. more[j] = ops[g[j]] /\ more[k] = ops[g[k]]
      BY <1>3, <2>4
    <3> QED BY <3>1, <3>2 DEF Whole, Tidy, TargetsOlder
  <2> QED BY <2>1, <2>2, <2>3, <2>4
<1>8. MadeOnce(more)
  <2> SUFFICES ASSUME NEW j \in 1 .. n + 1, NEW k \in 1 .. n + 1, j # k
               PROVE  MadeBy(more[j]) \cap MadeBy(more[k]) = {}
    BY <1>0 DEF MadeOnce
  <2>1. CASE j = p + 1
    BY <1>1, <1>3, <1>5, <2>1
  <2>2. CASE k = p + 1
    BY <1>1, <1>3, <1>5, <2>2
  <2>3. CASE j # p + 1 /\ k # p + 1
    <3>1. g[j] \in DOMAIN ops /\ g[k] \in DOMAIN ops /\ g[j] # g[k]
      BY <1>0, <1>3, <1>4, <2>3
    <3>2. more[j] = ops[g[j]] /\ more[k] = ops[g[k]]
      BY <1>3, <2>3
    <3> QED BY <3>1, <3>2 DEF Whole, Tidy, MadeOnce
  <2> QED BY <2>1, <2>2, <2>3
<1>9. PICK long \in Nat : long = 2 * length + 3
  OBVIOUS
<1>10. Short(op, long)
  <2> SUFFICES ASSUME NEW path \in PathsIn(op)
               PROVE  Len(path) <= long
    BY DEF Short
  <2>1. path \in PathName
    BY <1>1 DEF PathsIn, Operation
  <2>2. Len(path) \in Nat /\ Len(path) <= wide + 1
    BY <1>1, <2>1 DEF Short, PathName
  <2> QED BY <1>9, <2>2
<1>11. \A k \in 1 .. n + 1 : Short(more[k], long) /\ Named(more[k])
  <2> SUFFICES ASSUME NEW k \in 1 .. n + 1
               PROVE  Short(more[k], long) /\ Named(more[k])
    OBVIOUS
  <2>1. CASE k = p + 1
    BY <1>1, <1>10, <2>1
  <2>2. CASE k # p + 1
    BY <1>0, <1>3, <1>9, <2>2 DEF Whole, Tidy
  <2> QED BY <2>1, <2>2
<1> QED BY <1>0, <1>7, <1>8, <1>9, <1>11 DEF Whole, Tidy

(* What a replay of a whole workload leaves is whole.                       *)
LEMMA WorkRecords ==
  ASSUME NEW length \in Nat, NEW ops, Whole(ops, length), NEW s, AtWork(s, ops, Len(ops))
  PROVE  Whole(s.recording, length)
<1>1. PICK n \in Nat : n = Len(ops) /\ n <= length
  BY DEF Whole
<1>2. Begins(s.recording, ops, n) /\ Tidy(ops, 2 * length + 3)
  BY <1>1 DEF AtWork, Whole
<1>3. Tidy(s.recording, 2 * length + 3)
  BY <1>2, BeginsTidy
<1>4. s.recording \in Seq(Operation) /\ Len(s.recording) = n
  BY <1>2 DEF Begins
<1>5. \A k \in DOMAIN s.recording : Named(s.recording[k])
  BY DEF AtWork, Plain
<1> QED BY <1>1, <1>3, <1>4, <1>5 DEF Whole

(* A new name is that of no entry, wherever in the workload.                *)
LEMMA FreshUnused ==
  ASSUME NEW length, NEW ops, Whole(ops, length), NEW s, NEW n \in Nat, AtWork(s, ops, n),
         NEW name \in FreshNames(ops)
  PROVE  Unused(s, name)
<1>1. name \in Names /\ name \notin UsedNames(ops)
  BY DEF FreshNames
<1>2. ASSUME NEW d \in DOMAIN s.dirs, s.dirs[d][name] # Absent
      PROVE  FALSE
  <2>1. name \in EntryNames(s)
    BY <1>1, <1>2 DEF EntryNames
  <2>2. PICK j \in 1 .. n : j \in DOMAIN ops /\ name \in MadeBy(ops[j])
    BY <2>1, NamesMade
  <2>3. ops \in Seq(Operation) /\ Named(ops[j])
    BY <2>2 DEF Whole
  <2> QED BY <1>1, <2>2, <2>3, FreshApart
<1> QED BY <1>1, <1>2 DEF Unused

(* append_one draws a call that succeeds, and makes a new name or none.     *)
Makeable(s, ops, op) ==
  /\ Apply(s, op).err = Ok
  /\ \E made : made \cap UsedNames(ops) = {} /\ Modest(s, op, made, 2 * Len(s.dirs) + 2)

(* Each call that may be drawn is one.                                      *)
LEMMA CallsMakeable ==
  ASSUME NEW length \in Nat, RoomForLength(length), NEW ops, Whole(ops, length),
         NEW s, NEW n \in Nat, AtWork(s, ops, n), n < length,
         NEW kind \in Kinds, NEW name \in NamesFor(kind, ops),
         NEW op \in CallsFor(s, Alive(s), kind, name),
         kind = "Rename" => Apply(s, op).err # "RenameToSubdirectoryError"
  PROVE  Makeable(s, ops, op)
<1>1. Ready(s, 2 * length + 3) /\ AllAlive(s, Alive(s), 2 * Len(s.dirs) + 2)
  BY WorkRoomy
<1>2. Tree(s) /\ NoEmptyNames(s)
  BY DEF AtWork, Plain, Recorded, Consistent
<1>3. kind \in NamingKinds => name \in FreshNames(ops) /\ name \in Names /\ Unused(s, name)
  BY FreshUnused DEF NamesFor, FreshNames
<1>4. Apply(s, op).err = Ok
  BY <1>1, <1>3, DrawnSucceeds
<1>5. 2 * Len(s.dirs) + 2 \in Nat
  BY <1>2, FieldsOf DEF Tree
<1>6. PICK made : made = IF kind \in NamingKinds THEN {name} ELSE {}
  OBVIOUS
<1>7. Modest(s, op, made, 2 * Len(s.dirs) + 2)
  BY <1>1, <1>2, <1>3, <1>5, <1>6, DrawnModest
<1>8. made \cap UsedNames(ops) = {}
  BY <1>3, <1>6 DEF FreshNames
<1> QED BY <1>4, <1>7, <1>8 DEF Makeable

(* So is what append_one does.                                              *)
LEMMA AppendOneSucceeds ==
  ASSUME NEW length \in Nat, RoomForLength(length), NEW ops, Whole(ops, length),
         NEW s, NEW n \in Nat, AtWork(s, ops, n), n < length,
         NEW given, NEW out \in AppendOne(given, s, Alive(s), ops)
  PROVE  out.err = Ok /\ \E op : out.fs = Apply(s, op).fs /\ Makeable(s, ops, op)
<1>1. PICK draw \in Draws(given, s, Alive(s), ops) :
        out = Unwrapped(draw) /\ (draw.kind = "Rename" => draw.out.err # "RenameToSubdirectoryError")
  BY DEF AppendOne
<1>2. PICK kind \in Kinds :
        \E o \in UNION {CallsFor(s, Alive(s), kind, name) : name \in NamesFor(kind, ops)} :
          draw = [kind |-> kind, out |-> Apply(s, o)]
  BY <1>1 DEF Draws
<1>3. PICK op : \E name \in NamesFor(kind, ops) : /\ op \in CallsFor(s, Alive(s), kind, name)
                                               /\ draw = [kind |-> kind, out |-> Apply(s, op)]
  BY <1>2
<1>4. draw.kind = kind /\ draw.out = Apply(s, op)
  BY <1>3
<1>5. Makeable(s, ops, op)
  <2>1. PICK name \in NamesFor(kind, ops) : op \in CallsFor(s, Alive(s), kind, name)
    BY <1>3
  <2>2. kind = "Rename" => Apply(s, op).err # "RenameToSubdirectoryError"
    BY <1>1, <1>4
  <2> QED BY <2>1, <2>2, CallsMakeable
<1>6. Unwrapped(draw) = [err |-> Ok, fs |-> Apply(s, op).fs]
  BY <1>4, <1>5 DEF Unwrapped, Makeable
<1> QED BY <1>1, <1>5, <1>6

(***************************************************************************)
(* The two edits do not crash, and leave whole workloads.                   *)
(***************************************************************************)
LEMMA RemovalEnds ==
  ASSUME NEW length \in Nat, RoomForLength(length), NEW ops, Whole(ops, length),
         NEW i \in DOMAIN ops, NEW out, out = RemoveAt(ops, i)
  PROVE  out.err \notin Crashes /\ (out.err = Ok => Whole(out.fs.recording, length))
<1>1. PICK rest : rest = Without(ops, i) /\ Whole(rest, length)
  BY WithoutWhole
<1>2. out = Replay(NewFS, rest)
  BY <1>1 DEF RemoveAt, Seqs!RemoveAt, Without
<1>3. PICK m \in Nat : rest \in Seq(Operation) /\ Len(rest) = m /\ m = 0 + m
  BY <1>1 DEF Whole
<1>4. AtWork(NewFS, rest, 0) /\ \A k \in 1 .. m : rest[k] = rest[0 + k]
  BY <1>3, WorkBegins
<1>5. out.err \notin Crashes /\ (out.err = Ok => AtWork(out.fs, rest, 0 + m))
  <2>1. 0 \in Nat /\ 0 + m <= Len(rest)
    BY <1>3
  <2> QED BY <1>1, <1>2, <1>3, <1>4, <2>1, ReplayEnds
<1> QED BY <1>1, <1>3, <1>5, WorkRecords

(* The rest of a workload after an operation that was inserted.             *)
LEMMA InsertedEnds ==
  ASSUME NEW length \in Nat, RoomForLength(length), NEW ops, Whole(ops, length),
         NEW n \in Nat, n = Len(ops), n < length, NEW p \in Nat, p <= n,
         NEW s, AtWork(s, ops, p), NEW op, Makeable(s, ops, op),
         NEW rest \in Seq(Operation), NEW m \in Nat, Len(rest) = m, p + m = n,
         \A k \in 1 .. m : rest[k] = ops[p + k],
         NEW out, out = Replay(Apply(s, op).fs, rest)
  PROVE  out.err \notin Crashes /\ (out.err = Ok => Whole(out.fs.recording, length))
<1>0. ops \in Seq(Operation)
  BY DEF Whole
<1>1. PICK made : made \cap UsedNames(ops) = {} /\ Modest(s, op, made, 2 * Len(s.dirs) + 2)
  BY DEF Makeable
<1>2. op \in Operation
  BY <1>1 DEF Modest
<1>3. PICK more : more = [k \in 1 .. n + 1 |-> IF k <= p THEN ops[k]
                                              ELSE IF k = p + 1 THEN op ELSE ops[k - 1]]
  OBVIOUS
<1>4. \A k \in 1 .. n + 1 : more[k] \in Operation
  <2> SUFFICES ASSUME NEW k \in 1 .. n + 1
               PROVE  more[k] \in Operation
    OBVIOUS
  <2>1. CASE k <= p
    BY <1>0, <1>3, <2>1
  <2>2. CASE k = p + 1
    BY <1>2, <1>3, <2>2
  <2>3. CASE k > p + 1
    <3>1. k - 1 \in 1 .. n
      BY <2>3
    <3> QED BY <1>0, <1>3, <2>3, <3>1
  <2> QED BY <2>1, <2>2, <2>3
<1>5. more \in Seq(Operation) /\ Len(more) = n + 1
  BY <1>3, <1>4
<1>6. \A k \in 1 .. p : more[k] = ops[k]
  <2>1. \A k \in 1 .. p : k \in 1 .. n + 1 /\ k <= p
    OBVIOUS
  <2> QED BY <1>3, <2>1
<1>7. more[p + 1] = op
  <2>1. p + 1 \in 1 .. n + 1
    OBVIOUS
  <2> QED BY <1>3, <2>1
<1>8. \A k \in p + 1 .. n : more[k + 1] = ops[k]
  <2> SUFFICES ASSUME NEW k \in p + 1 .. n
               PROVE  more[k + 1] = ops[k]
    OBVIOUS
  <2>1. k + 1 \in 1 .. n + 1 /\ ~(k + 1 <= p) /\ k + 1 # p + 1 /\ (k + 1) - 1 = k
    OBVIOUS
  <2> QED BY <1>3, <2>1
<1>9. PICK wide \in Nat : wide = 2 * Len(s.dirs) + 2 /\ wide + 1 <= 2 * length + 3
  <2>1. s.dirs \in Seq(Dir)
    BY FieldsOf DEF AtWork, Plain, Recorded, Consistent, Tree
  <2>2. Len(s.dirs) \in Nat
    BY <2>1
  <2>3. 2 * Len(s.dirs) + 3 <= 2 * length + 3
    BY WorkRoomy
  <2> QED BY <2>2, <2>3
<1>10. Whole(more, length)
  BY <1>1, <1>5, <1>6, <1>7, <1>8, <1>9, InsertedWhole
<1>11. AtWork(s, more, p)
  <2>1. Begins(s.recording, ops, p)
    BY DEF AtWork
  <2>2. Begins(s.recording, more, p)
    BY <1>5, <1>6, <2>1 DEF Begins
  <2> QED BY <2>2 DEF AtWork
<1>12. PICK t : t = Apply(s, op).fs
  OBVIOUS
<1>13. AtWork(t, more, p + 1)
  <2>1. Apply(s, more[p + 1]).err = Ok /\ Apply(s, more[p + 1]).fs = t
    BY <1>7, <1>12 DEF Makeable
  <2>2. p < Len(more)
    BY <1>5
  <2>3. PICK step : step = Apply(s, more[p + 1])
    OBVIOUS
  <2>4. step.err = Ok => AtWork(step.fs, more, p + 1)
    BY <1>10, <1>11, <2>2, <2>3, NextEnds
  <2> QED BY <2>1, <2>3, <2>4
<1>14. \A k \in 1 .. m : rest[k] = more[(p + 1) + k]
  <2> SUFFICES ASSUME NEW k \in 1 .. m
               PROVE  rest[k] = more[(p + 1) + k]
    OBVIOUS
  <2>1. p + k \in p + 1 .. n /\ (p + k) + 1 = (p + 1) + k
    OBVIOUS
  <2> QED BY <1>8, <2>1
<1>15. PICK q \in Nat : q = p + 1 /\ q + m = n + 1
  OBVIOUS
<1>16. out.err \notin Crashes /\ (out.err = Ok => AtWork(out.fs, more, q + m))
  <2>1. q + m <= Len(more)
    BY <1>5, <1>15
  <2>2. AtWork(t, more, q) /\ \A k \in 1 .. m : rest[k] = more[q + k]
    BY <1>13, <1>14, <1>15
  <2> QED BY <1>10, <1>12, <2>1, <2>2, ReplayEnds
<1> QED BY <1>5, <1>10, <1>15, <1>16, WorkRecords

(* An insertion: all outcomes.                                              *)
LEMMA InsertionEnds ==
  ASSUME NEW length \in Nat, RoomForLength(length), NEW ops, Whole(ops, length),
         Len(ops) < length, NEW i \in 1 .. Len(ops) + 1,
         NEW given, NEW out \in InsertAt(given, ops, i)
  PROVE  out.err \notin Crashes /\ (out.err = Ok => Whole(out.fs.recording, length))
<1>1. ops \in Seq(Operation)
  BY DEF Whole
<1>2. PICK n \in Nat : n = Len(ops) /\ i \in 1 .. n + 1
  BY <1>1
<1>3. PICK p, m \in Nat : p = i - 1 /\ m = (n + 1) - i /\ p + m = n
  <2>1. PICK p, m : p = i - 1 /\ m = (n + 1) - i
    OBVIOUS
  <2>2. p \in Nat /\ m \in Nat /\ p + m = n
    BY <1>2, <2>1
  <2> QED BY <2>1, <2>2
<1>4. PICK a : a = SubSeq(ops, 1, i - 1)
  OBVIOUS
<1>5. PICK b : b = SubSeq(ops, i, Len(ops))
  OBVIOUS
<1>6. a = SubSeq(ops, 1, p) /\ b = SubSeq(ops, p + 1, p + m) /\ Len(ops) = p + m
  BY <1>2, <1>3, <1>4, <1>5
<1>7. /\ a \in Seq(Operation) /\ Len(a) = p /\ b \in Seq(Operation) /\ Len(b) = m
      /\ (\A k \in 1 .. p : a[k] = ops[k]) /\ \A k \in 1 .. m : b[k] = ops[p + k]
  BY <1>1, <1>6, CutInTwo
<1>8. PICK before : before = Replay(NewFS, a)
  OBVIOUS
<1>9. before.err \notin Crashes /\ (before.err = Ok => AtWork(before.fs, ops, p))
  <2>1. AtWork(NewFS, ops, 0) /\ 0 + p <= Len(ops) /\ 0 + p = p
    BY <1>1, <1>2, <1>3, WorkBegins
  <2>2. \A k \in 1 .. p : a[k] = ops[0 + k]
    BY <1>7
  <2>3. before.err = Ok => AtWork(before.fs, ops, 0 + p)
    BY <1>7, <1>8, <2>1, <2>2, ReplayEnds
  <2>4. before.err \notin Crashes
    BY <1>7, <1>8, <2>1, <2>2, ReplayEnds
  <2> QED BY <2>1, <2>3, <2>4
<1>10. out \in InsertAfter(given, before, ops, i)
  BY <1>4, <1>8 DEF InsertAt
<1>11. CASE before.err # Ok
  BY <1>9, <1>10, <1>11 DEF InsertAfter
<1>12. CASE before.err = Ok
  <2>1. PICK s : s = before.fs /\ AtWork(s, ops, p)
    BY <1>9, <1>12
  <2>2. PICK one \in AppendOne(given, s, Alive(s), ops) : out = ReplayAfter(one, ops, i)
    BY <1>10, <1>12, <2>1 DEF InsertAfter
  <2>3. p < length /\ p <= n /\ n < length
    BY <1>2, <1>3
  <2>4. PICK op : one.err = Ok /\ one.fs = Apply(s, op).fs /\ Makeable(s, ops, op)
    BY <2>1, <2>2, <2>3, AppendOneSucceeds
  <2>5. out = Replay(Apply(s, op).fs, b)
    BY <1>5, <2>2, <2>4 DEF ReplayAfter
  <2>6. n = Len(ops) /\ n < length /\ p <= n /\ p + m = n
    BY <1>2, <1>3, <2>3
  <2>7. AtWork(s, ops, p) /\ Makeable(s, ops, op)
    BY <2>1, <2>4
  <2>8. b \in Seq(Operation) /\ Len(b) = m /\ \A k \in 1 .. m : b[k] = ops[p + k]
    BY <1>7
  <2> QED BY <2>5, <2>6, <2>7, <2>8, InsertedEnds
<1> QED BY <1>11, <1>12

(* The tree of a workload.                                                  *)
LEMMA WorkloadAtWork ==
  ASSUME NEW length \in Nat, RoomForLength(length), NEW ops, Whole(ops, length), Workload(ops)
  PROVE  AtWork(Replay(NewFS, ops).fs, ops, Len(ops)) /\ Replay(NewFS, ops).err = Ok
<1>1. ops \in Seq(Operation) /\ Replay(NewFS, ops).err = Ok
  BY WorkloadFacts
<1>2. PICK n \in Nat : n = Len(ops) /\ 0 + n = n /\ 0 + n <= Len(ops)
  BY <1>1
<1>3. \A k \in 1 .. n : ops[k] = ops[0 + k]
  OBVIOUS
<1>4. PICK out : out = Replay(NewFS, ops)
  OBVIOUS
<1>5. out.err = Ok => AtWork(out.fs, ops, 0 + n)
  BY <1>1, <1>2, <1>3, <1>4, WorkBegins, ReplayEnds
<1> QED BY <1>1, <1>2, <1>4, <1>5

(***************************************************************************)
(* The mutator, with room for workloads of the longest length.              *)
(***************************************************************************)
RoomForWorkloads == \A c \in Configurations : RoomForLength(c.max_length)

WholeInput == Whole(input, config.max_length)

RInv == IInv /\ WholeInput /\ PanicsOnlyWithoutWeights

(* The first seed is the empty workload.                                    *)
LEMMA RInitInv == Init => RInv
<1> SUFFICES ASSUME Init
             PROVE  RInv
  OBVIOUS
<1>1. IInv
  BY InitInv
<1>2. input = <<>> /\ config \in Configurations /\ panicked = FALSE
  BY DEF Init
<1>3. config.max_length \in Nat
  BY <1>2, ConfigurationsAssumption
<1>4. WholeInput
  <2>1. Tidy(<<>>, 2 * config.max_length + 3)
    BY DEF Tidy, TargetsOlder, MadeOnce
  <2> QED BY <1>2, <1>3, <2>1 DEF WholeInput, Whole
<1>5. PanicsOnlyWithoutWeights
  BY <1>2 DEF PanicsOnlyWithoutWeights
<1> QED BY <1>1, <1>4, <1>5 DEF RInv

(* The edits.                                                               *)
LEMMA EditedWhole ==
  ASSUME RInv, NEW out, Edited(out),
         out.err \notin Crashes, out.err = Ok => Whole(out.fs.recording, config.max_length)
  PROVE  WholeInput' /\ PanicsOnlyWithoutWeights'
<1>1. out.err = Ok /\ config' = config /\ input' = out.fs.recording /\ panicked' = FALSE
  BY DEF Edited
<1> QED BY <1>1 DEF WholeInput, PanicsOnlyWithoutWeights

(* Every step keeps the invariant.                                          *)
LEMMA RNextInv ==
  ASSUME RoomForWorkloads
  PROVE  RInv /\ [Next]_vars => RInv'
<1> SUFFICES ASSUME RInv, [Next]_vars
             PROVE  RInv'
  OBVIOUS
<1>1. IInv'
  BY NextInv DEF RInv
<1>2. PICK length \in Nat \ {0} : length = config.max_length
  BY ConfigurationsAssumption DEF RInv, IInv, FitsLength
<1>3. RoomForLength(length) /\ Whole(input, length)
  BY <1>2 DEF RInv, IInv, FitsLength, RoomForWorkloads, WholeInput
<1>4. input \in Seq(Operation)
  BY <1>3 DEF Whole
<1>5. CASE RemoveOnce
  <2>1. PICK out \in Removals : Edited(out)
    BY <1>5 DEF RemoveOnce
  <2>2. PICK i \in DOMAIN input : out = RemoveAt(input, i)
    BY <2>1 DEF Removals
  <2>3. out.err \notin Crashes /\ (out.err = Ok => Whole(out.fs.recording, length))
    BY <1>3, <2>2, RemovalEnds
  <2> QED BY <1>1, <1>2, <2>1, <2>3, EditedWhole DEF RInv
<1>6. CASE InsertOnce
  <2>1. PICK out \in Insertions : Edited(out)
    BY <1>6 DEF InsertOnce
  <2>2. PICK i \in 1 .. Len(input) + 1 : out \in InsertAt(config.weights, input, i)
    BY <2>1 DEF Insertions
  <2>3. Len(input) < length
    BY <1>2, <1>6 DEF InsertOnce, MayInsert
  <2>4. out.err \notin Crashes /\ (out.err = Ok => Whole(out.fs.recording, length))
    BY <1>3, <2>2, <2>3, InsertionEnds
  <2> QED BY <1>1, <1>2, <2>1, <2>4, EditedWhole DEF RInv
<1>7. CASE NoMutationLeft
  <2>1. config.mutations # MutationKinds
    <3> SUFFICES ASSUME config.mutations = MutationKinds
                 PROVE  FALSE
      OBVIOUS
    <3>1. "Insert" \in config.mutations /\ "Remove" \in config.mutations
      BY DEF MutationKinds
    <3>2. input = <<>> /\ ~(Len(input) < length)
      BY <1>2, <1>7, <3>1 DEF NoMutationLeft, MayInsert, MayRemove
    <3> QED BY <3>2
  <2>2. UNCHANGED <<config, input>>
    BY <1>7 DEF NoMutationLeft
  <2> QED BY <1>1, <2>1, <2>2 DEF RInv, WholeInput, PanicsOnlyWithoutWeights
<1>8. CASE Mutate \/ UNCHANGED vars
  <2>1. UNCHANGED <<config, input, panicked>>
    BY <1>8 DEF Mutate, vars
  <2> QED BY <1>1, <2>1 DEF RInv, WholeInput, PanicsOnlyWithoutWeights
<1> QED BY <1>5, <1>6, <1>7, <1>8 DEF Next

(* No unwrap of the mutator fails: append_one applies what it draws, in the *)
(* middle of a workload too, and there is a kind of mutation left while     *)
(* both have a weight (generator.rs:103-197, greybox/mutator.rs:51-67).     *)
THEOREM MutatorUnwrapsHold ==
  ASSUME RoomForWorkloads
  PROVE  Spec => []PanicsOnlyWithoutWeights
<1>1. RInv /\ [Next]_vars => RInv'
  BY RNextInv
<1>2. RInv => PanicsOnlyWithoutWeights
  BY DEF RInv
<1> QED BY RInitInv, <1>1, <1>2, PTL DEF Spec

(* No mutation makes links that form a loop: the name of an inserted        *)
(* operation is one that no target mentions (mutator.rs:91-100).            *)
THEOREM MutatedLinksNeverLoop ==
  ASSUME RoomForWorkloads
  PROVE  Spec => []LinksNeverLoop
<1>1. RInv /\ [Next]_vars => RInv'
  BY RNextInv
<1>2. RInv => LinksNeverLoop
  <2> SUFFICES ASSUME RInv
               PROVE  LinksNeverLoop
    OBVIOUS
  <2>1. PICK length \in Nat : length = config.max_length /\ RoomForLength(length)
    BY ConfigurationsAssumption DEF RInv, IInv, FitsLength, RoomForWorkloads
  <2>2. Whole(input, length) /\ Workload(input) /\ Len(input) \in Nat
    BY <2>1, WorkloadFacts DEF RInv, IInv, WholeInput
  <2>3. PICK s : s = Replay(NewFS, input).fs /\ AtWork(s, input, Len(input))
    BY <2>1, <2>2, WorkloadAtWork
  <2>4. PICK long : Roomy(s, long)
    BY <2>1, <2>2, <2>3, WorkRoomy
  <2>5. ASSUME NEW e \in LinksOf(s)
        PROVE  ResolveNode(s, s.symlinks[s.dirs[e[1]][e[2]].idx], TRUE).err
                 \notin Crashes \cup {"LoopExists"}
    <3>1. Tree(s)
      BY <2>4 DEF Roomy
    <3>2. PICK d, name : d \in 1 .. Len(s.dirs) /\ name \in Keys /\ e = <<d, name>>
                         /\ s.dirs[d][name].kind = "Symlink"
      BY <2>5 DEF LinksOf
    <3>3. d \in DOMAIN s.dirs
      BY <3>1, <3>2, FieldsOf DEF Tree
    <3>4. PICK x : x = s.dirs[d][name].idx /\ x \in DOMAIN s.symlinks
      <4>1. NodeAllocated(s, s.dirs[d][name])
        BY <3>1, <3>2, <3>3, EntryFacts
      <4> QED BY <3>2, <4>1 DEF NodeAllocated
    <3>5. PICK path \in PathName : path = s.symlinks[x] /\ Len(path) <= long
      BY <2>4, <3>1, <3>4, SymlinkFacts DEF Roomy, TargetsShort
    <3>6. Smooth(ResolveNode(s, path, TRUE))
      BY <2>4, <3>5, ResolvesSmoothly
    <3>7. ResolveNode(s, path, TRUE).err # "Panic"
      <4>1. ResolveNode(s, path, TRUE) \in Result
        BY <3>1, <3>5, ResolveNodeSound DEF Sound
      <4> QED BY <4>1 DEF Result, ResolveErrors, Ok
    <3> QED BY <3>2, <3>4, <3>5, <3>6, <3>7 DEF Smooth, Crashes
  <2> QED BY <2>3, <2>5 DEF LinksNeverLoop
<1> QED BY RInitInv, <1>1, <1>2, PTL DEF Spec

(***************************************************************************)
(* Some edit succeeds.                                                      *)
(***************************************************************************)
(* There is always a greater name, as gen_name goes on counting.            *)
NamesGoOn == \A n \in Nat : \E name \in Names : name > n

(* Numbers that have a bound.                                               *)
Bounded(S) == \E b \in Nat : \A x \in S : x \in Nat /\ x <= b

(* Finitely many bounded sets of numbers have a common bound.               *)
LEMMA UnionBounded ==
  ASSUME NEW f, NEW n \in Nat, \A i \in 1 .. n : Bounded(f[i])
  PROVE  Bounded(UNION {f[i] : i \in 1 .. n})
<1> DEFINE Upto(m) == UNION {f[i] : i \in 1 .. m}
           T == {m \in Nat : m <= n => Bounded(Upto(m))}
<1>1. 0 \in T
  <2>1. \A x \in Upto(0) : x \in Nat /\ x <= 0
    OBVIOUS
  <2> QED BY <2>1 DEF Bounded
<1>2. ASSUME NEW m \in Nat, m \in T
      PROVE  m + 1 \in T
  <2> SUFFICES ASSUME m + 1 <= n
               PROVE  Bounded(Upto(m + 1))
    OBVIOUS
  <2>1. PICK b \in Nat : \A x \in Upto(m) : x \in Nat /\ x <= b
    BY <1>2 DEF Bounded
  <2>2. m + 1 \in 1 .. n
    OBVIOUS
  <2>3. PICK c \in Nat : \A x \in f[m + 1] : x \in Nat /\ x <= c
    BY <2>2 DEF Bounded
  <2>4. PICK d \in Nat : b <= d /\ c <= d
    <3>1. b + c \in Nat /\ b <= b + c /\ c <= b + c
      OBVIOUS
    <3> QED BY <3>1
  <2>5. \A x \in Upto(m + 1) : x \in Upto(m) \/ x \in f[m + 1]
    <3>1. \A i \in 1 .. m + 1 : i \in 1 .. m \/ i = m + 1
      OBVIOUS
    <3> QED BY <3>1
  <2> HIDE DEF Upto
  <2>6. \A x \in Upto(m + 1) : x \in Nat /\ x <= d
    <3> SUFFICES ASSUME NEW x \in Upto(m + 1)
                 PROVE  x \in Nat /\ x <= d
      OBVIOUS
    <3>1. x \in Nat /\ (x <= b \/ x <= c)
      BY <2>1, <2>3, <2>5
    <3> QED BY <2>4, <3>1
  <2> QED BY <2>6 DEF Bounded
<1> HIDE DEF T
<1>3. n \in T
  BY <1>1, <1>2, NatSetInduction
<1> QED BY <1>3 DEF T

(* A path, an operation and a workload use so many names.                   *)
LEMMA UsedNamesBounded ==
  ASSUME NEW ops \in Seq(Operation)
  PROVE  Bounded(UsedNames(ops))
<1>1. ASSUME NEW path \in PathName
      PROVE  Bounded(Seqs!ToSet(path))
  <2>1. PICK n \in Nat : n = Len(path) /\ DOMAIN path = 1 .. n
    BY DEF PathName
  <2>2. PICK f : f = [i \in 1 .. n |-> {path[i]}]
    OBVIOUS
  <2>3. \A i \in 1 .. n : Bounded(f[i])
    <3> SUFFICES ASSUME NEW i \in 1 .. n
                 PROVE  Bounded(f[i])
      OBVIOUS
    <3>1. path \in Seq(Names) /\ i \in 1 .. Len(path)
      BY <2>1 DEF PathName
    <3>2. path[i] \in Names
      BY <3>1
    <3>3. PICK x \in Nat : x = path[i]
      BY <3>2, NamesAreNumbers
    <3>4. \A y \in f[i] : y \in Nat /\ y <= x
      BY <2>2, <3>3
    <3> QED BY <3>4 DEF Bounded
  <2>4. Bounded(UNION {f[i] : i \in 1 .. n})
    BY <2>3, UnionBounded
  <2>5. Seqs!ToSet(path) = UNION {f[i] : i \in 1 .. n}
    BY <2>1, <2>2 DEF Seqs!ToSet
  <2> QED BY <2>4, <2>5
<1>2. ASSUME NEW op \in Operation
      PROVE  Bounded(UNION {Seqs!ToSet(path) : path \in NamedBy(op)})
  <2>1. \E p, q \in PathName : NamedBy(op) \subseteq {p, q}
    <3>1. CASE op.kind \in {"MkDir", "Create", "Open"}
      <4>1. op.path \in PathName /\ NamedBy(op) = {op.path}
        BY <3>1 DEF Operation, NamedBy
      <4> QED BY <4>1
    <3>2. CASE op.kind \in {"Hardlink", "Rename"}
      <4>1. op.old_path \in PathName /\ op.new_path \in PathName /\ NamedBy(op) = {op.old_path, op.new_path}
        BY <3>2 DEF Operation, NamedBy
      <4> QED BY <4>1
    <3>3. CASE op.kind = "Symlink"
      <4>1. op.target \in PathName /\ op.linkpath \in PathName /\ NamedBy(op) = {op.target, op.linkpath}
        BY <3>3 DEF Operation, NamedBy
      <4> QED BY <4>1
    <3>4. CASE op.kind \notin {"MkDir", "Create", "Open", "Hardlink", "Rename", "Symlink"}
      <4>1. Root \in PathName /\ NamedBy(op) = {}
        BY <3>4 DEF NamedBy, Root, PathName
      <4> QED BY <4>1
    <3> QED BY <3>1, <3>2, <3>3, <3>4
  <2>2. PICK p \in PathName, q \in PathName : NamedBy(op) \subseteq {p, q}
    BY <2>1
  <2>3. PICK b \in Nat : \A x \in Seqs!ToSet(p) : x \in Nat /\ x <= b
    BY <1>1 DEF Bounded
  <2>4. PICK c \in Nat : \A x \in Seqs!ToSet(q) : x \in Nat /\ x <= c
    BY <1>1 DEF Bounded
  <2>5. PICK d \in Nat : b <= d /\ c <= d
    <3>1. b + c \in Nat /\ b <= b + c /\ c <= b + c
      OBVIOUS
    <3> QED BY <3>1
  <2>6. \A x \in UNION {Seqs!ToSet(path) : path \in NamedBy(op)} : x \in Nat /\ x <= d
    <3> SUFFICES ASSUME NEW path \in NamedBy(op), NEW x \in Seqs!ToSet(path)
                 PROVE  x \in Nat /\ x <= d
      OBVIOUS
    <3>1. path = p \/ path = q
      BY <2>2
    <3>2. x \in Nat /\ (x <= b \/ x <= c)
      BY <2>3, <2>4, <3>1
    <3> QED BY <2>5, <3>2
  <2> QED BY <2>6 DEF Bounded
<1>3. PICK n \in Nat : n = Len(ops) /\ DOMAIN ops = 1 .. n
  OBVIOUS
<1>4. PICK f : f = [i \in 1 .. n |-> UNION {Seqs!ToSet(path) : path \in NamedBy(ops[i])}]
  OBVIOUS
<1>5. \A i \in 1 .. n : Bounded(f[i])
  BY <1>2, <1>3, <1>4
<1>6. Bounded(UNION {f[i] : i \in 1 .. n})
  BY <1>5, UnionBounded
<1>7. UsedNames(ops) = UNION {f[i] : i \in 1 .. n}
  <2>1. \A x \in UsedNames(ops) : \E i \in 1 .. n : x \in f[i]
    BY <1>3, <1>4 DEF UsedNames
  <2>2. \A i \in 1 .. n : \A x \in f[i] : x \in UsedNames(ops)
    BY <1>3, <1>4 DEF UsedNames
  <2> QED BY <2>1, <2>2
<1> QED BY <1>6, <1>7

(* gen_name has a name to give.                                             *)
LEMMA SomeNameFresh ==
  ASSUME NamesGoOn, NEW ops \in Seq(Operation)
  PROVE  FreshNames(ops) # {}
<1>1. PICK b \in Nat : \A x \in UsedNames(ops) : x \in Nat /\ x <= b
  BY UsedNamesBounded DEF Bounded
<1>2. PICK name \in Names : name > b
  BY DEF NamesGoOn
<1>3. name \notin UsedNames(ops)
  BY <1>1, <1>2, NamesAreNumbers
<1>4. PICK rest : rest = Names \ UsedNames(ops)
  OBVIOUS
<1>5. rest \subseteq Nat /\ rest # {}
  BY <1>2, <1>3, <1>4, NamesAreNumbers
<1>6. PICK n \in rest : \A m \in rest : n <= m
  BY <1>5, LeastNat
<1> QED BY <1>4, <1>6 DEF FreshNames

(* A sequence without its last element.                                     *)
LEMMA LastCut ==
  ASSUME NEW S, NEW seq \in Seq(S), NEW n \in Nat, Len(seq) = n + 1
  PROVE  /\ SubSeq(seq, 1, n) \in Seq(S) /\ Len(SubSeq(seq, 1, n)) = n
         /\ \A k \in 1 .. n : SubSeq(seq, 1, n)[k] = seq[k]
         /\ \E b \in Seq(S) : SubSeq(seq, 1, n) \o b = seq
<1>1. PICK m \in Nat : m = 1
  OBVIOUS
<1>2. Len(seq) = n + m
  BY <1>1
<1>3. PICK a, b : a = SubSeq(seq, 1, n) /\ b = SubSeq(seq, n + 1, n + m)
  OBVIOUS
<1>4. /\ a \in Seq(S) /\ Len(a) = n /\ b \in Seq(S)
      /\ \A k \in 1 .. n : a[k] = seq[k]
      /\ a \o b = seq
  BY <1>2, <1>3, CutInTwo
<1> QED BY <1>3, <1>4

(* The last operation can always go.                                        *)
LEMMA LastRemoved ==
  ASSUME NEW ops, Workload(ops), ops # <<>>
  PROVE  \E i \in DOMAIN ops : RemoveAt(ops, i).err = Ok
<1>1. ops \in Seq(Operation) /\ Replay(NewFS, ops).err = Ok
  BY WorkloadFacts
<1>2. PICK n \in Nat : Len(ops) = n + 1
  <2>1. PICK n : n = Len(ops) - 1
    OBVIOUS
  <2>2. n \in Nat /\ Len(ops) = n + 1
    BY <1>1, <2>1
  <2> QED BY <2>2
<1>3. PICK a : a = SubSeq(ops, 1, n)
  OBVIOUS
<1>4. PICK S : S = Operation
  OBVIOUS
<1>5. /\ a \in Seq(S) /\ Len(a) = n /\ \A k \in 1 .. n : a[k] = ops[k]
      /\ \E b \in Seq(S) : a \o b = ops
  <2>1. ops \in Seq(S)
    BY <1>1, <1>4
  <2>2. /\ SubSeq(ops, 1, n) \in Seq(S) /\ Len(SubSeq(ops, 1, n)) = n
        /\ \A k \in 1 .. n : SubSeq(ops, 1, n)[k] = ops[k]
        /\ \E b \in Seq(S) : SubSeq(ops, 1, n) \o b = ops
    BY <1>2, <2>1, LastCut
  <2> QED BY <1>3, <2>2
<1>6. PICK rest : rest = Without(ops, n + 1)
  OBVIOUS
<1>7. rest \in Seq(Operation) /\ Len(rest) = n /\ \A k \in 1 .. n : rest[k] = ops[k]
  <2>1. ops \in Seq(S) /\ n + 1 \in 1 .. n + 1
    BY <1>1, <1>4
  <2>2. /\ Without(ops, n + 1) \in Seq(S) /\ Len(Without(ops, n + 1)) = n
        /\ \A k \in 1 .. n : Without(ops, n + 1)[k] = IF k < n + 1 THEN ops[k] ELSE ops[k + 1]
    BY ONLY <1>2, <2>1, WithoutOne, n \in Nat
  <2>3. \A k \in 1 .. n : k < n + 1
    OBVIOUS
  <2> QED BY <1>4, <1>6, <2>2, <2>3
<1>8. rest = a
  <2>1. a \in Seq(Operation)
    BY <1>4, <1>5
  <2> QED BY <1>5, <1>7, <2>1
<1>9. Replay(NewFS, a).err = Ok
  <2>1. PICK b \in Seq(Operation) : a \o b = ops
    BY <1>4, <1>5
  <2>2. a \in Seq(Operation)
    BY <1>4, <1>5
  <2>3. Replay(NewFS, a \o b).err = Ok
    BY <1>1, <2>1
  <2> QED BY ONLY <2>1, <2>2, <2>3, ReplayParts
<1>10. RemoveAt(ops, n + 1) = Replay(NewFS, rest)
  BY <1>6 DEF RemoveAt, Seqs!RemoveAt, Without
<1>11. n + 1 \in DOMAIN ops
  BY <1>1, <1>2
<1> QED BY <1>8, <1>9, <1>10, <1>11

(* One that needs nothing but a name can always come after the last.        *)
LEMMA OneAppended ==
  ASSUME NamesGoOn, NEW length \in Nat, RoomForLength(length),
         NEW ops, Whole(ops, length), Workload(ops), Len(ops) < length,
         NEW given, NEW kind \in {"MkDir", "Create", "Symlink"}, given[kind] > 0
  PROVE  \E out \in InsertAt(given, ops, Len(ops) + 1) : out.err = Ok
<1>1. ops \in Seq(Operation) /\ Replay(NewFS, ops).err = Ok
  BY WorkloadFacts
<1>2. PICK n \in Nat : n = Len(ops) /\ (n + 1) - 1 = n
  BY <1>1
<1>3. PICK s : s = Replay(NewFS, ops).fs /\ AtWork(s, ops, n)
  BY <1>2, WorkloadAtWork
<1>4. SubSeq(ops, 1, n) = ops /\ SubSeq(ops, n + 1, n) = <<>>
  BY <1>1, <1>2
<1>5. PICK name \in FreshNames(ops) : TRUE
  BY <1>1, SomeNameFresh
<1>6. <<RootIndex, Root>> \in Alive(s).dirs
  BY <1>2, <1>3, WorkRoomy DEF AllAlive
<1>7. Join(Root, name) \in NewPaths(Alive(s), name) /\ Root \in LinkTargets(Alive(s), name)
  <2>1. Root \in PathsOf(Alive(s).dirs)
    <3>1. <<RootIndex, Root>>[2] = Root
      OBVIOUS
    <3> QED BY <1>6, <3>1 DEF PathsOf
  <2> QED BY <2>1 DEF NewPaths, LinkTargets
<1>8. \E op : op \in CallsFor(s, Alive(s), kind, name)
  <2>1. CASE kind = "MkDir"
    BY <1>7, <2>1 DEF CallsFor
  <2>2. CASE kind = "Create"
    BY <1>7, <2>2 DEF CallsFor
  <2>3. CASE kind = "Symlink"
    <3>1. SymlinkOp(Root, Join(Root, name)) \in CallsFor(s, Alive(s), kind, name)
      BY <1>7, <2>3 DEF CallsFor
    <3> QED BY <3>1
  <2> QED BY <2>1, <2>2, <2>3
<1>9. PICK op : op \in CallsFor(s, Alive(s), kind, name)
  BY <1>8
<1>10. kind \in Kinds /\ kind \in NamingKinds /\ kind # "Rename" /\ Applicable(s, Alive(s), kind)
  BY DEF Kinds, NamingKinds, Applicable
<1>11. PICK draw : draw = [kind |-> kind, out |-> Apply(s, op)]
  OBVIOUS
<1>12. draw \in Draws(given, s, Alive(s), ops)
  <2>1. name \in NamesFor(kind, ops)
    BY <1>10 DEF NamesFor
  <2> QED BY <1>9, <1>10, <1>11, <2>1 DEF Draws
<1>13. PICK one : one = Unwrapped(draw) /\ one \in AppendOne(given, s, Alive(s), ops)
  <2>1. draw.kind # "Rename"
    BY <1>10, <1>11
  <2> QED BY <1>12, <2>1 DEF AppendOne
<1>14. one.err = Ok
  BY <1>2, <1>3, <1>13, AppendOneSucceeds
<1>15. ReplayAfter(one, ops, n + 1) = Started(one.fs)
  BY <1>2, <1>4, <1>14, ReplayEmpty DEF ReplayAfter
<1>16. ReplayAfter(one, ops, n + 1) \in InsertAt(given, ops, n + 1)
  BY <1>1, <1>2, <1>3, <1>4, <1>13 DEF InsertAt, InsertAfter
<1> QED BY <1>2, <1>15, <1>16 DEF Started

(* The loop of mutate never runs dry: the last operation can go, or one     *)
(* that needs nothing but a name can come after it                          *)
(* (greybox/mutator.rs:40-50).                                              *)
THEOREM AnEditSucceeds ==
  ASSUME RoomForWorkloads, NamesGoOn
  PROVE  Spec => []SomeEditSucceeds
<1>1. RInv /\ [Next]_vars => RInv'
  BY RNextInv
<1>2. RInv => SomeEditSucceeds
  <2> SUFFICES ASSUME RInv, MayInsert \/ MayRemove
               PROVE  \/ MayRemove /\ \E out \in Removals : out.err = Ok
                      \/ MayInsert /\ \E out \in Insertions : out.err = Ok
    BY DEF SomeEditSucceeds
  <2>1. Workload(input) /\ input \in Seq(Operation) /\ Len(input) \in Nat
    BY WorkloadFacts DEF RInv, IInv
  <2>2. CASE MayRemove
    <3>1. PICK i \in DOMAIN input : RemoveAt(input, i).err = Ok
      BY <2>1, <2>2, LastRemoved DEF MayRemove
    <3> QED BY <2>2, <3>1 DEF Removals
  <2>3. CASE MayInsert
    <3>1. PICK length \in Nat : length = config.max_length /\ RoomForLength(length)
      BY ConfigurationsAssumption DEF RInv, IInv, FitsLength, RoomForWorkloads
    <3>2. PICK kind \in {"MkDir", "Create", "Symlink"} : config.weights[kind] > 0
      BY ConfigurationsAssumption DEF RInv, IInv, FitsLength
    <3>3. Whole(input, length) /\ Len(input) < length
      BY <2>3, <3>1 DEF RInv, WholeInput, MayInsert
    <3>4. PICK out \in InsertAt(config.weights, input, Len(input) + 1) : out.err = Ok
      BY <2>1, <3>1, <3>2, <3>3, OneAppended
    <3>5. Len(input) + 1 \in 1 .. Len(input) + 1
      BY <2>1
    <3>6. out \in Insertions
      BY <3>4, <3>5 DEF Insertions
    <3> QED BY <2>3, <3>4, <3>6
  <2> QED BY <2>2, <2>3
<1> QED BY RInitInv, <1>1, <1>2, PTL DEF Spec

=============================================================================
