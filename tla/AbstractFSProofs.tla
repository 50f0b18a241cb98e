--------------------------- MODULE AbstractFSProofs ---------------------------
(***************************************************************************)
(* Theorems about AbstractFS for any set of names and paths, any sizes and  *)
(* any stack: its types, the safety of its indices and descriptors, the     *)
(* absence of panics, what rename moves, and that the directories form a    *)
(* forest whatever is created, moved and removed.                           *)
(* Only rename moves directories.  It refuses to move one into a directory  *)
(* the resolution of the new parent went through, so the last proof shows   *)
(* that a resolution, symlinks followed or not, goes through every ancestor *)
(* of what it finds.                                                        *)
(*                                                                         *)
(* Then that the slices Content keeps of a file are the bytes of ByteFile,  *)
(* for any offsets and lengths.  What its loops make is proved by induction *)
(* over the slices: each element of Seq(S) is the last one appended to one  *)
(* before it.                                                               *)
(***************************************************************************)
EXTENDS AbstractFS, Content, OperationProofs

(***************************************************************************)
(* The specification.                                                       *)
(***************************************************************************)
Inv == Consistent(fs)

(* A new AbstractFS satisfies the invariant.                                *)
LEMMA InitInv == Init => Inv
BY NewFSConsistent DEF Init, Inv

(* Every call preserves it.                                                 *)
LEMMA NextInv == Inv /\ [Next]_vars => Inv'
<1> SUFFICES ASSUME Inv, [Next]_vars
             PROVE  Inv'
  OBVIOUS
<1>1. Paths \subseteq PathName /\ Sizes \subseteq Nat /\ Descriptors \subseteq Nat
  BY PathsAssumption, SizesAssumption, FieldsOf DEF Descriptors, Inv, Consistent, Tree
<1>2. CASE RemoveCall
  BY <1>1, <1>2, RemoveGood DEF RemoveCall, Call, Good, Inv
<1>3. CASE MkDirCall
  BY <1>1, <1>3, MkDirGood DEF MkDirCall, Call, Good, Inv
<1>4. CASE CreateCall
  BY <1>1, <1>4, CreateGood DEF CreateCall, Call, Good, Inv
<1>5. CASE HardlinkCall
  BY <1>1, <1>5, HardlinkGood DEF HardlinkCall, Call, Good, Inv
<1>6. CASE SymlinkCall
  BY <1>1, <1>6, SymlinkGood DEF SymlinkCall, Call, Good, Inv
<1>7. CASE RenameCall
  BY <1>1, <1>7, RenameGood DEF RenameCall, Call, Good, Inv
<1>8. CASE OpenCall
  BY <1>1, <1>8, OpenGood DEF OpenCall, Call, Good, Inv
<1>9. CASE CloseCall
  BY <1>1, <1>9, CloseGood DEF CloseCall, Call, Good, Inv
<1>10. CASE ReadCall
  BY <1>1, <1>10, ReadGood DEF ReadCall, Call, Good, Inv
<1>11. CASE WriteCall
  BY <1>1, <1>11, WriteGood DEF WriteCall, Call, Good, Inv
<1>12. CASE FSyncCall
  BY <1>1, <1>12, FSyncGood DEF FSyncCall, Call, Good, Inv
<1>13. CASE UNCHANGED vars
  BY <1>13 DEF vars, Inv, Consistent, Tree, EntriesAllocated, NodeAllocated,
                FilesKnowTheirDescriptors, OffsetsWithinFiles
<1> QED BY <1>2, <1>3, <1>4, <1>5, <1>6, <1>7, <1>8, <1>9, <1>10, <1>11, <1>12, <1>13 DEF Next

\* The inductive invariant: every field is of its type, every entry and every
\* descriptor refers to what exists, and no offset lies past its file's end.
THEOREM SpecInv == Spec => []Inv
BY InitInv, NextInv, PTL DEF Spec

\* Whatever is called, the fields keep the types of fs.rs: indices, sizes and
\* offsets stay unsigned numbers.
THEOREM SpecTypeOK == Spec => []TypeOK
<1>1. Inv => TypeOK
  BY DEF Inv, Consistent, Tree, TypeOK
<1> QED BY SpecInv, <1>1, PTL

\* No entry of any directory ever dangles, whatever is renamed and removed.
THEOREM SpecNoDanglingEntry == Spec => []NoDanglingEntry
<1>1. Inv => NoDanglingEntry
  BY DEF Inv, Consistent, Tree, NoDanglingEntry
<1> QED BY SpecInv, <1>1, PTL

\* Files and descriptors agree after any number of opens, closes, reads and
\* writes, also of removed and hard-linked files.
THEOREM SpecDescriptorsConsistent == Spec => []DescriptorsConsistent
<1>1. Inv => DescriptorsConsistent
  BY DEF Inv, Consistent, DescriptorsConsistent
<1> QED BY SpecInv, <1>1, PTL

\* No call of any client panics: no unwrap of an index fails and neither
\* assertion after read and write, whatever was called before.
THEOREM SpecNoCallPanics == Spec => []NoCallPanics
<1>1. Inv => NoCallPanics
  <2> SUFFICES ASSUME Inv, NEW op \in Calls
               PROVE  Apply(fs, op).err # "Panic"
    BY DEF NoCallPanics
  <2>1. /\ Paths \subseteq PathName /\ Sizes \subseteq Nat /\ Descriptors \subseteq Nat
        /\ 0 \in Nat
    BY PathsAssumption, SizesAssumption, FieldsOf DEF Descriptors, Inv, Consistent, Tree
  <2>2. op \in Operation
    BY <2>1, OperationTypes DEF Calls
  <2> QED BY <2>2, ApplyGood DEF Inv, Good
<1> QED BY SpecInv, <1>1, PTL

(***************************************************************************)
(* The recording.                                                           *)
(***************************************************************************)
(* Every call is one of the operations that replay applies.                 *)
LEMMA CallsApply ==
  ASSUME Inv, Next
  PROVE  \E op \in Operation : fs' = Apply(fs, op).fs
<1>1. Paths \subseteq PathName /\ Sizes \subseteq Nat /\ Descriptors \subseteq Nat
  BY PathsAssumption, SizesAssumption, FieldsOf DEF Descriptors, Inv, Consistent, Tree
<1>2. CASE RemoveCall
  <2>1. PICK p \in Paths : fs' = Remove(fs, p).fs
    BY <1>2 DEF RemoveCall, Call
  <2>2. Apply(fs, RemoveOp(p)) = Remove(fs, p)
    BY DEF Apply, RemoveOp
  <2> QED BY <1>1, <2>1, <2>2, OperationTypes
<1>3. CASE MkDirCall
  <2>1. PICK p \in Paths : fs' = MkDir(fs, p).fs
    BY <1>3 DEF MkDirCall, Call
  <2>2. Apply(fs, MkDirOp(p)) = MkDir(fs, p)
    BY DEF Apply, MkDirOp
  <2> QED BY <1>1, <2>1, <2>2, OperationTypes
<1>4. CASE CreateCall
  <2>1. PICK p \in Paths : fs' = Create(fs, p).fs
    BY <1>4 DEF CreateCall, Call
  <2>2. Apply(fs, CreateOp(p)) = Create(fs, p)
    BY DEF Apply, CreateOp
  <2> QED BY <1>1, <2>1, <2>2, OperationTypes
<1>5. CASE HardlinkCall
  <2>1. PICK old \in Paths, new \in Paths : fs' = Hardlink(fs, old, new).fs
    BY <1>5 DEF HardlinkCall, Call
  <2>2. Apply(fs, HardlinkOp(old, new)) = Hardlink(fs, old, new)
    BY DEF Apply, HardlinkOp
  <2> QED BY <1>1, <2>1, <2>2, OperationTypes
<1>6. CASE SymlinkCall
  <2>1. PICK target \in Paths, p \in Paths : fs' = Symlink(fs, target, p).fs
    BY <1>6 DEF SymlinkCall, Call
  <2>2. Apply(fs, SymlinkOp(target, p)) = Symlink(fs, target, p)
    BY DEF Apply, SymlinkOp
  <2> QED BY <1>1, <2>1, <2>2, OperationTypes
<1>7. CASE RenameCall
  <2>1. PICK old \in Paths, new \in Paths : fs' = Rename(fs, old, new).fs
    BY <1>7 DEF RenameCall, Call
  <2>2. Apply(fs, RenameOp(old, new)) = Rename(fs, old, new)
    BY DEF Apply, RenameOp
  <2> QED BY <1>1, <2>1, <2>2, OperationTypes
<1>8. CASE OpenCall
  <2>1. PICK p \in Paths : fs' = Open(fs, p).fs
    BY <1>8 DEF OpenCall, Call
  <2>2. Apply(fs, OpenOp(p, 0)) = Open(fs, p)
    BY DEF Apply, OpenOp
  <2>3. 0 \in Nat
    OBVIOUS
  <2> QED BY <1>1, <2>1, <2>2, <2>3, OperationTypes
<1>9. CASE CloseCall
  <2>1. PICK d \in Descriptors : fs' = Close(fs, d).fs
    BY <1>9 DEF CloseCall, Call
  <2>2. Apply(fs, CloseOp(d)) = Close(fs, d)
    BY DEF Apply, CloseOp
  <2> QED BY <1>1, <2>1, <2>2, OperationTypes
<1>10. CASE ReadCall
  <2>1. PICK d \in Descriptors, size \in Sizes : fs' = Read(fs, d, size).fs
    BY <1>10 DEF ReadCall, Call
  <2>2. Apply(fs, ReadOp(d, size)) = Read(fs, d, size)
    BY DEF Apply, ReadOp
  <2> QED BY <1>1, <2>1, <2>2, OperationTypes
<1>11. CASE WriteCall
  <2>1. PICK d \in Descriptors, size \in Sizes : fs' = Write(fs, d, 0, size).fs
    BY <1>11 DEF WriteCall, Call
  <2>2. Apply(fs, WriteOp(d, 0, size)) = Write(fs, d, 0, size)
    BY DEF Apply, WriteOp
  <2>3. 0 \in Nat
    OBVIOUS
  <2> QED BY <1>1, <2>1, <2>2, <2>3, OperationTypes
<1>12. CASE FSyncCall
  <2>1. PICK d \in Descriptors : fs' = FSync(fs, d).fs
    BY <1>12 DEF FSyncCall, Call
  <2>2. Apply(fs, FSyncOp(d)) = FSync(fs, d)
    BY DEF Apply, FSyncOp
  <2> QED BY <1>1, <2>1, <2>2, OperationTypes
<1> QED BY <1>2, <1>3, <1>4, <1>5, <1>6, <1>7, <1>8, <1>9, <1>10, <1>11, <1>12 DEF Next

\* After any calls, those that failed included, a replay of the recording on a
\* new AbstractFS succeeds, rebuilds the tree and records the same operations:
\* an operation records what it did, opens come to return the same descriptors,
\* and a call that fails changes nothing.
THEOREM SpecReplayRebuildsTree == Spec => []ReplayRebuildsTree
<1>1. Init => Recorded(fs)
  BY NewFSRecorded DEF Init
<1>2. Recorded(fs) /\ [Next]_vars => Recorded(fs)'
  <2> SUFFICES ASSUME Recorded(fs), [Next]_vars
               PROVE  Recorded(fs')
    OBVIOUS
  <2>1. CASE Next
    <3>1. PICK op \in Operation : fs' = Apply(fs, op).fs
      BY <2>1, CallsApply DEF Inv, Recorded
    <3> QED BY <3>1, ApplyRecorded
  <2>2. CASE UNCHANGED vars
    <3>1. fs' = fs
      BY <2>2 DEF vars
    <3> QED BY <3>1
  <2> QED BY <2>1, <2>2
<1>3. Recorded(fs) => ReplayRebuildsTree
  BY DEF Recorded, ReplayRebuildsTree, Started
<1> QED BY <1>1, <1>2, <1>3, PTL DEF Spec

\* A rename that returns an error has changed nothing: the second resolution of
\* the old name's parent (fs.rs:224), which happens after the new entry is made,
\* cannot fail, whatever symlinks lead through the entry that was replaced.
THEOREM SpecFailedRenameChangesNothing == Spec => []FailedRenameChangesNothing
<1>1. Inv => FailedRenameChangesNothing
  <2> SUFFICES ASSUME Inv, NEW old \in Paths, NEW new \in Paths,
                      Rename(fs, old, new).err # Ok
               PROVE  Rename(fs, old, new).fs = fs
    BY DEF FailedRenameChangesNothing
  <2>1. Consistent(fs) /\ old \in PathName /\ new \in PathName
    BY PathsAssumption DEF Inv
  <2>2. ~Moves(fs, old, new)
    BY <2>1, RenameSucceeds
  <2> QED BY <2>2, RenameRefused
<1> QED BY SpecInv, <1>1, PTL

\* A successful rename moves one entry and touches no other: the entry removed
\* under the old name is the one that was found before the new one was made.
THEOREM SpecRenameMovesOneEntry == Spec => []RenameMovesOneEntry
<1>1. Inv => RenameMovesOneEntry
  <2> SUFFICES ASSUME Inv, NEW old \in Paths, NEW new \in Paths,
                      Rename(fs, old, new).err = Ok
               PROVE  Rename(fs, old, new).fs.dirs =
                        [fs.dirs EXCEPT
                           ![EntryOf(fs, new)[1]][EntryOf(fs, new)[2]] =
                             fs.dirs[EntryOf(fs, old)[1]][EntryOf(fs, old)[2]],
                           ![EntryOf(fs, old)[1]][EntryOf(fs, old)[2]] = Absent]
    BY DEF RenameMovesOneEntry
  <2>1. Consistent(fs) /\ old \in PathName /\ new \in PathName
    BY PathsAssumption DEF Inv
  <2>2. Moves(fs, old, new)
    BY RenameRefused
  <2> QED BY <2>1, <2>2, RenameMoves DEF EntryOf
<1> QED BY SpecInv, <1>1, PTL

(***************************************************************************)
(* Entries that change.                                                     *)
(***************************************************************************)
(* A forest is one of the directories' entries alone.                       *)
LEMMA SameForest ==
  ASSUME NEW s, NEW t, Forest(s), t.dirs = s.dirs
  PROVE  Forest(t)
<1>1. \A d : SubdirsOf(t, d) = SubdirsOf(s, d)
  BY DEF SubdirsOf
<1> QED BY <1>1 DEF Forest

(* t has no directory under an entry where s has not the same.              *)
FewerSubdirs(s, t) ==
  /\ DOMAIN t.dirs = DOMAIN s.dirs
  /\ \A d \in DOMAIN s.dirs, n \in Keys :
       t.dirs[d][n].kind = "Dir" => t.dirs[d][n] = s.dirs[d][n]

(* Entries taken from a forest leave one.                                   *)
LEMMA FewerForest ==
  ASSUME NEW s, NEW t, Forest(s), FewerSubdirs(s, t)
  PROVE  Forest(t)
<1>1. \A d \in DOMAIN s.dirs : SubdirsOf(t, d) \subseteq SubdirsOf(s, d)
  BY DEF FewerSubdirs, SubdirsOf, DirNode
<1>2. \A d \in DOMAIN t.dirs : RootIndex \notin SubdirsOf(t, d)
  BY <1>1 DEF FewerSubdirs, Forest
<1>3. \A c, d \in DOMAIN t.dirs, n, m \in Keys :
        t.dirs[c][n].kind = "Dir" /\ t.dirs[c][n] = t.dirs[d][m] => c = d /\ n = m
  BY DEF FewerSubdirs, Forest
<1>4. \A S \in (SUBSET DOMAIN t.dirs) \ {{}} :
        \E c \in S : \A d \in S : c \notin SubdirsOf(t, d)
  BY <1>1 DEF FewerSubdirs, Forest
<1> QED BY <1>2, <1>3, <1>4 DEF Forest

(* A node that is no directory may be put anywhere.                         *)
LEMMA InsertForest ==
  ASSUME NEW s, Forest(s), NEW g \in FS, g.dirs = s.dirs, NEW d \in DOMAIN s.dirs,
         NEW name \in Keys, NEW node, node.kind # "Dir"
  PROVE  Forest(Insert(g, d, name, node))
<1>1. PICK t : t = Insert(g, d, name, node)
  OBVIOUS
<1>2. t.dirs = [g.dirs EXCEPT ![d][name] = node] /\ OneEntryReplaced(g, t, d, name)
  BY <1>1, InsertReplaces
<1>3. t.dirs[d][name] = node
  <2>1. g.dirs \in Seq(Dir)
    BY FieldsOf
  <2>2. g.dirs[d] \in [Keys -> Node \cup {Absent}]
    BY <2>1 DEF Dir
  <2> QED BY <1>2, <2>1, <2>2
<1>4. FewerSubdirs(s, t)
  BY <1>2, <1>3 DEF OneEntryReplaced, FewerSubdirs
<1> QED BY <1>1, <1>4, FewerForest

(* Recording an operation leaves the tree alone.                            *)
LEMMA DoneForest ==
  ASSUME NEW s, Consistent(s), Forest(s), NEW op \in Operation
  PROVE  Forest(Done(s, op).fs)
<1>1. s \in FS
  BY DEF Consistent, Tree
<1>2. PICK t : t = [s EXCEPT !.recording = Append(@, op)]
  OBVIOUS
<1>3. Append(s.recording, op) \in Seq(Operation)
  BY <1>1, FieldsOf
<1>4. t.dirs = s.dirs
  BY <1>1, <1>2, <1>3, WithRecording
<1>5. Done(s, op).fs = t
  BY <1>2 DEF Done
<1> QED BY <1>4, <1>5, SameForest

(* A new directory under a vacant entry.                                    *)
NewSubdir(s, t, d, name) ==
  /\ DOMAIN t.dirs = DOMAIN s.dirs \cup {Len(s.dirs) + 1}
  /\ t.dirs[d][name] = DirNode(Len(s.dirs) + 1)
  /\ \A n \in Keys : t.dirs[Len(s.dirs) + 1][n] = Absent
  /\ \A c \in DOMAIN s.dirs, n \in Keys : c # d \/ n # name => t.dirs[c][n] = s.dirs[c][n]

(* It joins the forest below the directory it is made in.                   *)
LEMMA NewSubdirForest ==
  ASSUME NEW s, Tree(s), Forest(s), NEW t, NEW d \in DOMAIN s.dirs, NEW name \in Keys,
         NewSubdir(s, t, d, name)
  PROVE  Forest(t)
<1>1. PICK new : new = Len(s.dirs) + 1
  OBVIOUS
<1>2. new \notin DOMAIN s.dirs /\ RootIndex \in DOMAIN s.dirs
  <2>1. s.dirs \in Seq(Dir)
    BY DEF Tree, FS
  <2> QED BY <1>1, <2>1 DEF Tree, EntriesAllocated
<1>3. DOMAIN t.dirs = DOMAIN s.dirs \cup {new}
  BY <1>1 DEF NewSubdir
<1>4. ASSUME NEW c \in DOMAIN t.dirs, NEW n \in Keys, t.dirs[c][n].kind = "Dir"
      PROVE  /\ c \in DOMAIN s.dirs
             /\ \/ c = d /\ n = name /\ t.dirs[c][n] = DirNode(new)
                \/ t.dirs[c][n] = s.dirs[c][n] /\ t.dirs[c][n].idx \in DOMAIN s.dirs
  <2>1. c \in DOMAIN s.dirs
    <3>1. Absent.kind # "Dir"
      BY DEF Absent
    <3> QED BY <1>1, <1>3, <1>4, <3>1 DEF NewSubdir
  <2>2. CASE c = d /\ n = name
    BY <1>1, <2>1, <2>2 DEF NewSubdir
  <2>3. CASE c # d \/ n # name
    <3>1. t.dirs[c][n] = s.dirs[c][n]
      BY <2>1, <2>3 DEF NewSubdir
    <3>2. s.dirs[c][n].idx \in DOMAIN s.dirs
      BY <1>4, <2>1, <3>1, EntryFacts DEF NodeAllocated
    <3> QED BY <2>1, <3>1, <3>2
  <2> QED BY <2>2, <2>3
<1>5. DirNode(new).idx = new /\ \A x : DirNode(x).kind = "Dir" /\ DirNode(x).idx = x
  BY DEF DirNode
<1>6. ASSUME NEW c \in DOMAIN t.dirs, NEW x \in SubdirsOf(t, c)
      PROVE  c \in DOMAIN s.dirs /\ (x = new \/ x \in SubdirsOf(s, c))
  <2>1. PICK n \in Keys : t.dirs[c][n] = DirNode(x)
    BY <1>6 DEF SubdirsOf
  <2> QED BY <1>4, <1>5, <2>1 DEF SubdirsOf
<1>7. \A c \in DOMAIN t.dirs : RootIndex \notin SubdirsOf(t, c)
  BY <1>2, <1>6 DEF Forest
<1>8. ASSUME NEW b \in DOMAIN t.dirs, NEW c \in DOMAIN t.dirs, NEW n \in Keys, NEW m \in Keys,
             t.dirs[b][n].kind = "Dir", t.dirs[b][n] = t.dirs[c][m]
      PROVE  b = c /\ n = m
  <2>1. /\ b \in DOMAIN s.dirs
        /\ \/ b = d /\ n = name /\ t.dirs[b][n] = DirNode(new)
           \/ t.dirs[b][n] = s.dirs[b][n] /\ t.dirs[b][n].idx \in DOMAIN s.dirs
    BY <1>4, <1>8
  <2>2. /\ c \in DOMAIN s.dirs
        /\ \/ c = d /\ m = name /\ t.dirs[c][m] = DirNode(new)
           \/ t.dirs[c][m] = s.dirs[c][m] /\ t.dirs[c][m].idx \in DOMAIN s.dirs
    BY <1>4, <1>8
  <2> QED BY <1>2, <1>5, <1>8, <2>1, <2>2 DEF Forest
<1>9. ASSUME NEW S \in (SUBSET DOMAIN t.dirs) \ {{}}
      PROVE  \E c \in S : \A e \in S : c \notin SubdirsOf(t, e)
  <2>1. CASE S \subseteq {new}
    <3>1. new \in S /\ \A e \in S : e = new
      BY <2>1
    <3> QED BY <1>2, <1>3, <1>6, <3>1
  <2>2. CASE ~(S \subseteq {new})
    <3>1. S \ {new} \in (SUBSET DOMAIN s.dirs) \ {{}}
      BY <1>3, <2>2
    <3>2. PICK c \in S \ {new} : \A e \in S \ {new} : c \notin SubdirsOf(s, e)
      BY <3>1 DEF Forest
    <3>3. ASSUME NEW e \in S, c \in SubdirsOf(t, e)
          PROVE  FALSE
      <4>1. e \in DOMAIN t.dirs
        BY <3>3
      <4>2. e \in DOMAIN s.dirs /\ c \in SubdirsOf(s, e)
        BY <1>6, <3>2, <3>3, <4>1
      <4> QED BY <1>2, <3>2, <4>2
    <3> QED BY <3>2, <3>3
  <2> QED BY <2>1, <2>2
<1> QED BY <1>7, <1>8, <1>9 DEF Forest

(***************************************************************************)
(* Ancestors.                                                               *)
(***************************************************************************)
(* Directories that are closed under the parent.                            *)
WithAncestors(s, dirs) ==
  \A d \in DOMAIN s.dirs, n \in Keys :
    s.dirs[d][n].kind = "Dir" /\ s.dirs[d][n].idx \in dirs => d \in dirs

Through(r) == r.dirs \cup {r.node.idx}

PassesAncestors(s, r) ==
  WithAncestors(s, r.dirs) /\ (r.node.kind = "Dir" => WithAncestors(s, Through(r)))

(* Both parts of a resolution that goes through a symlink do.               *)
LEMMA ViaAncestors ==
  ASSUME NEW s, NEW dirs, WithAncestors(s, dirs), NEW r, PassesAncestors(s, r)
  PROVE  PassesAncestors(s, Via(dirs, r))
<1>1. Via(dirs, r).dirs = dirs \cup r.dirs /\ Via(dirs, r).node = r.node
  BY DEF Via
<1>2. Through(Via(dirs, r)) = dirs \cup Through(r)
  BY <1>1 DEF Through
<1> QED BY <1>1, <1>2 DEF PassesAncestors, WithAncestors

(* What is found in a directory has no other parent.                        *)
LEMMA EntryAncestors ==
  ASSUME NEW s, Tree(s), Forest(s), NEW d \in DOMAIN s.dirs, NEW name \in Keys,
         NEW node, node = s.dirs[d][name], NEW dirs, d \in dirs, WithAncestors(s, dirs)
  PROVE  PassesAncestors(s, Resolved(node, dirs))
<1>1. Resolved(node, dirs).dirs = dirs /\ Resolved(node, dirs).node = node
  BY DEF Resolved
<1>2. ASSUME node.kind = "Dir", NEW c \in DOMAIN s.dirs, NEW n \in Keys,
             s.dirs[c][n].kind = "Dir", s.dirs[c][n].idx = node.idx
      PROVE  c \in dirs
  <2>1. s.dirs[c][n] \in Node \cup {Absent} /\ node \in Node \cup {Absent}
    BY EntryFacts
  <2>2. s.dirs[c][n] = node
    BY <1>2, <2>1 DEF Node, Absent
  <2> QED BY <1>2, <2>2 DEF Forest
<1> QED BY <1>1, <1>2 DEF PassesAncestors, WithAncestors, Through

(* The root has none.                                                       *)
LEMMA RootAncestors ==
  ASSUME NEW s, Tree(s), Forest(s)
  PROVE  PassesAncestors(s, Resolved(DirNode(RootIndex), {}))
<1>1. PICK r : r = Resolved(DirNode(RootIndex), {})
  OBVIOUS
<1>2. r.dirs = {} /\ r.node = DirNode(RootIndex) /\ Through(r) = {RootIndex}
  BY <1>1 DEF Resolved, Through, DirNode
<1>3. ASSUME NEW d \in DOMAIN s.dirs, NEW n \in Keys,
             s.dirs[d][n].kind = "Dir", s.dirs[d][n].idx = RootIndex
      PROVE  FALSE
  <2>1. s.dirs[d][n] \in Node \cup {Absent} /\ RootIndex \in DOMAIN s.dirs
    BY EntryFacts DEF Tree, EntriesAllocated
  <2>2. s.dirs[d][n] = DirNode(RootIndex)
    BY <1>3, <2>1 DEF Node, Absent, DirNode
  <2> QED BY <2>1, <2>2 DEF Forest, SubdirsOf
<1> QED BY <1>1, <1>2, <1>3 DEF PassesAncestors, WithAncestors

(* A resolution goes through all the ancestors of what it finds.            *)
LEMMA AnswersPassAncestors ==
  ASSUME NEW s, Tree(s), Forest(s), NEW depth \in Nat
  PROVE  \A path \in PathName, follow \in BOOLEAN, visited \in SUBSET Nat :
           WalkAnswer(s, depth, path, follow, visited).err = Ok =>
             PassesAncestors(s, WalkAnswer(s, depth, path, follow, visited))
<1> DEFINE P(n) == \A path \in PathName, follow \in BOOLEAN, visited \in SUBSET Nat :
                     WalkAnswer(s, n, path, follow, visited).err = Ok =>
                       PassesAncestors(s, WalkAnswer(s, n, path, follow, visited))
           T == {n \in Nat : P(n)}
<1>1. 0 \in T
  <2>1. Unresolved("StackOverflow").err # Ok
    BY DEF Unresolved, Ok
  <2> QED BY <2>1, AnswerNoStack
<1>2. ASSUME NEW n \in Nat, P(n)
      PROVE  P(n + 1)
  <2> SUFFICES ASSUME NEW p \in PathName, NEW f \in BOOLEAN, NEW v \in SUBSET Nat,
                      WalkAnswer(s, n + 1, p, f, v).err = Ok
               PROVE  PassesAncestors(s, WalkAnswer(s, n + 1, p, f, v))
    OBVIOUS
  <2>1. CASE IsRoot(p)
    <3>1. WalkAnswer(s, n + 1, p, f, v) = Resolved(DirNode(RootIndex), {})
      BY <2>1, AnswerStep
    <3> QED BY <3>1, RootAncestors
  <2>2. CASE ~IsRoot(p)
    <3>1. Found(s, n, p)
      BY <2>2, OkFound
    <3>2. PICK in : in = Entered(s, n, p)
      OBVIOUS
    <3>3. in.err = Ok /\ in.node.kind = "Dir" /\ in.node.idx \in DOMAIN s.dirs
      BY <3>1, <3>2, FoundFacts DEF Found
    <3>4. PassesAncestors(s, in)
      <4>1. PICK up : up = OnTheWay(s, n, ParentOf(p))
        OBVIOUS
      <4>2. ParentOf(p) \in PathName /\ {} \in SUBSET Nat
        BY PathFacts
      <4>3. up.err = Ok
        BY <3>2, <3>3, <4>1, EnteredCases
      <4>4. PassesAncestors(s, up)
        BY <1>2, <4>1, <4>2, <4>3 DEF OnTheWay
      <4>5. CASE in = up
        BY <4>4, <4>5
      <4>6. CASE in # up
        <5>1. PICK direct : /\ s.symlinks[up.node.idx] \in PathName
                            /\ direct = Followed(s, n, s.symlinks[up.node.idx], {})
                            /\ direct.err = Ok
                            /\ in = Via(up.dirs, direct)
          BY <3>2, <3>3, <4>1, <4>6, EnteredCases
        <5>2. PassesAncestors(s, direct)
          BY <1>2, <4>2, <5>1 DEF Followed
        <5> QED BY <4>4, <5>1, <5>2, ViaAncestors DEF PassesAncestors
      <4> QED BY <4>5, <4>6
    <3>5. WithAncestors(s, Passed(s, n, p)) /\ in.node.idx \in Passed(s, n, p)
      BY <3>2, <3>3, <3>4 DEF PassesAncestors, Passed, Through
    <3>6. CASE ~(Looked(s, n, p).kind = "Symlink" /\ f)
      <4>1. WalkAnswer(s, n + 1, p, f, v) = Resolved(Looked(s, n, p), Passed(s, n, p))
        BY <2>2, <3>1, <3>6, AnswerFound
      <4>2. NameOf(p) \in Keys /\ Looked(s, n, p) = s.dirs[in.node.idx][NameOf(p)]
        BY <3>2, PathFacts DEF Looked
      <4> QED BY <3>3, <3>5, <4>1, <4>2, EntryAncestors
    <3>7. CASE Looked(s, n, p).kind = "Symlink" /\ f
      <4>1. Looked(s, n, p).idx \notin v /\ Beyond(s, n, p, v).err = Ok
        BY <2>2, <3>7, OkFound
      <4>2. WalkAnswer(s, n + 1, p, f, v) = Via(Passed(s, n, p), Beyond(s, n, p, v))
        BY <2>2, <3>1, <3>7, <4>1, AnswerFound
      <4>3. PassesAncestors(s, Beyond(s, n, p, v))
        BY <1>2, <3>1, <3>7, <4>1, FoundLink DEF Beyond, Followed
      <4> QED BY <3>5, <4>2, <4>3, ViaAncestors
    <3> QED BY <3>6, <3>7
  <2> QED BY <2>1, <2>2
<1>3. ASSUME NEW n \in Nat, n \in T
      PROVE  n + 1 \in T
  BY <1>2, <1>3
<1> HIDE DEF T
<1>4. Nat \subseteq T
  BY <1>1, <1>3, NatSetInduction
<1> QED BY <1>4 DEF T

(***************************************************************************)
(* A directory that is moved.                                               *)
(***************************************************************************)
(* The entry from[name] emptied, its node put under to[new].                *)
Moved(s, t, from, name, to, new) ==
  /\ DOMAIN t.dirs = DOMAIN s.dirs
  /\ t.dirs[from][name] = Absent
  /\ to # from \/ new # name => t.dirs[to][new] = s.dirs[from][name]
  /\ \A d \in DOMAIN s.dirs, n \in Keys :
       (d # from \/ n # name) /\ (d # to \/ n # new) => t.dirs[d][n] = s.dirs[d][n]

(* Where a directory comes from that is found in t.                         *)
LEMMA MovedFrom ==
  ASSUME NEW s, NEW t, NEW from, NEW name, NEW to, NEW new, Moved(s, t, from, name, to, new),
         NEW d \in DOMAIN t.dirs, NEW n \in Keys, t.dirs[d][n].kind = "Dir"
  PROVE  /\ d \in DOMAIN s.dirs
         /\ d # from \/ n # name
         /\ \/ d = to /\ n = new /\ t.dirs[d][n] = s.dirs[from][name]
            \/ t.dirs[d][n] = s.dirs[d][n]
<1>1. Absent.kind # "Dir"
  BY DEF Absent
<1> QED BY <1>1 DEF Moved

(* Below neither itself nor a directory of its own: a forest again.         *)
LEMMA MovedForest ==
  ASSUME NEW s, Forest(s), NEW t,
         NEW from \in DOMAIN s.dirs, NEW name \in Keys, NEW to \in DOMAIN s.dirs, NEW new \in Keys,
         Moved(s, t, from, name, to, new),
         NEW dirs, WithAncestors(s, dirs), to \in dirs,
         s.dirs[from][name].kind = "Dir" => s.dirs[from][name].idx \notin dirs
  PROVE  Forest(t)
<1>1. DOMAIN t.dirs = DOMAIN s.dirs
  BY DEF Moved
<1>2. \A x : DirNode(x).kind = "Dir" /\ DirNode(x).idx = x
  BY DEF DirNode
<1>3. ASSUME NEW d \in DOMAIN t.dirs, NEW x \in SubdirsOf(t, d)
      PROVE  \/ d = to /\ x \notin dirs /\ x \in SubdirsOf(s, from)
             \/ x \in SubdirsOf(s, d)
  <2>1. PICK n \in Keys : t.dirs[d][n] = DirNode(x)
    BY <1>3 DEF SubdirsOf
  <2>2. \/ d = to /\ t.dirs[d][n] = s.dirs[from][name]
        \/ t.dirs[d][n] = s.dirs[d][n]
    BY <1>2, <2>1, MovedFrom
  <2>3. x \in DOMAIN s.dirs
    BY <1>1, <1>3 DEF SubdirsOf
  <2> QED BY <1>2, <2>1, <2>2, <2>3 DEF SubdirsOf
<1>4. \A d \in DOMAIN t.dirs : RootIndex \notin SubdirsOf(t, d)
  BY <1>1, <1>3 DEF Forest
<1>5. ASSUME NEW b \in DOMAIN t.dirs, NEW c \in DOMAIN t.dirs, NEW n \in Keys, NEW m \in Keys,
             t.dirs[b][n].kind = "Dir", t.dirs[b][n] = t.dirs[c][m]
      PROVE  b = c /\ n = m
  <2>1. /\ b \in DOMAIN s.dirs /\ (b # from \/ n # name)
        /\ \/ b = to /\ n = new /\ t.dirs[b][n] = s.dirs[from][name]
           \/ t.dirs[b][n] = s.dirs[b][n]
    BY <1>5, MovedFrom
  <2>2. /\ c \in DOMAIN s.dirs /\ (c # from \/ m # name)
        /\ \/ c = to /\ m = new /\ t.dirs[c][m] = s.dirs[from][name]
           \/ t.dirs[c][m] = s.dirs[c][m]
    BY <1>5, MovedFrom
  <2> QED BY <1>5, <2>1, <2>2 DEF Forest
<1>6. ASSUME NEW S \in (SUBSET DOMAIN t.dirs) \ {{}}
      PROVE  \E c \in S : \A d \in S : c \notin SubdirsOf(t, d)
  <2>1. CASE S \cap dirs # {}
    <3>1. S \cap dirs \in (SUBSET DOMAIN s.dirs) \ {{}}
      BY <1>1, <2>1
    <3>2. PICK c \in S \cap dirs : \A d \in S \cap dirs : c \notin SubdirsOf(s, d)
      BY <3>1 DEF Forest
    <3>3. ASSUME NEW d \in S, c \in SubdirsOf(t, d)
          PROVE  FALSE
      <4>1. c \in SubdirsOf(s, d) /\ d \in DOMAIN s.dirs
        BY <1>1, <1>3, <3>2, <3>3
      <4>2. d \in dirs
        BY <1>2, <3>2, <4>1 DEF SubdirsOf, WithAncestors
      <4> QED BY <3>2, <4>1, <4>2
    <3> QED BY <3>2, <3>3
  <2>2. CASE S \cap dirs = {}
    <3>1. PICK c \in S : \A d \in S : c \notin SubdirsOf(s, d)
      BY <1>1 DEF Forest
    <3>2. ASSUME NEW d \in S, c \in SubdirsOf(t, d)
          PROVE  FALSE
      BY <1>3, <2>2, <3>1, <3>2
    <3> QED BY <3>1, <3>2
  <2> QED BY <2>1, <2>2
<1> QED BY <1>4, <1>5, <1>6 DEF Forest

(***************************************************************************)
(* The operations.                                                          *)
(***************************************************************************)
(* remove (fs.rs:106) takes an entry.                                       *)
LEMMA RemoveForest ==
  ASSUME NEW s, Consistent(s), Forest(s), NEW path \in PathName
  PROVE  Forest(Remove(s, path).fs)
<1>1. PICK parent : parent = ResolveDir(s, ParentOf(path))
  OBVIOUS
<1>2. parent.err = Ok => parent.node.idx \in DOMAIN s.dirs
  BY <1>1, ResolveDirSound, PathFacts DEF Consistent, IsDirOf
<1>3. CASE Remove(s, path).fs = s
  BY <1>3
<1>4. CASE /\ parent.err = Ok
           /\ Remove(s, path) = Done(Delete(s, parent.node.idx, NameOf(path)), RemoveOp(path))
  <2>1. PICK d, name : d = parent.node.idx /\ name = NameOf(path)
    OBVIOUS
  <2>2. PICK t : t = Delete(s, d, name)
    OBVIOUS
  <2>3. d \in DOMAIN s.dirs /\ name \in Keys /\ Absent.kind # "Dir" /\ s \in FS
    BY <1>2, <1>4, <2>1, PathFacts DEF Absent, Consistent, Tree
  <2>4. Forest(t)
    <3>1. t = Insert(s, d, name, Absent)
      BY <2>2 DEF Delete, Insert
    <3> QED BY <2>3, <3>1, InsertForest
  <2>5. Consistent(t)
    <3>1. NodeAllocated(s, Absent)
      BY DEF NodeAllocated, Absent
    <3> QED BY <2>2, <2>3, <3>1, SetEntry DEF Delete
  <2> QED BY <1>4, <2>1, <2>2, <2>4, <2>5, DoneForest, OperationTypes
<1> QED BY <1>1, <1>3, <1>4 DEF Remove, Failed

(* An entry made for a node that is no directory.                           *)
LEMMA MadeForest ==
  ASSUME NEW s, Consistent(s), Forest(s), NEW g, Consistent(g), g.dirs = s.dirs,
         NEW path \in PathName, NEW parent, parent = NewEntry(s, path), parent.err = Ok,
         NEW node \in Node, NodeAllocated(g, node), node.kind # "Dir", NEW op \in Operation
  PROVE  Forest(Done(Insert(g, parent.node.idx, NameOf(path), node), op).fs)
<1>1. PICK d, name : d = parent.node.idx /\ name = NameOf(path)
  OBVIOUS
<1>2. d \in DOMAIN s.dirs /\ name \in Keys /\ g \in FS
  BY <1>1, NewEntrySound, PathFacts DEF IsDirOf, Consistent, Tree
<1>3. Forest(Insert(g, d, name, node))
  BY <1>2, InsertForest
<1>4. Consistent(Insert(g, d, name, node))
  BY <1>2, InsertGood
<1> QED BY <1>1, <1>3, <1>4, DoneForest

(* create (fs.rs:141) makes a file.                                         *)
LEMMA CreateForest ==
  ASSUME NEW s, Consistent(s), Forest(s), NEW path \in PathName
  PROVE  Forest(Create(s, path).fs)
<1>1. PICK parent, node, grown :
        /\ parent = NewEntry(s, path)
        /\ node = FileNode(NextIndex(s.files))
        /\ grown = [s EXCEPT !.files = Append(@, [descriptor |-> None, size |-> 0])]
  OBVIOUS
<1>2. Create(s, path) =
        IF parent.err # Ok THEN Failed(s, parent.err)
        ELSE Done(Insert(grown, parent.node.idx, NameOf(path), node), CreateOp(path))
  BY <1>1 DEF Create
<1>3. Consistent(grown) /\ grown.dirs = s.dirs /\ node \in Node /\ NodeAllocated(grown, node)
  BY <1>1, NewFile
<1>4. node.kind # "Dir" /\ CreateOp(path) \in Operation
  BY <1>1, OperationTypes DEF FileNode
<1>5. parent.err = Ok => Forest(Done(Insert(grown, parent.node.idx, NameOf(path), node), CreateOp(path)).fs)
  BY <1>1, <1>3, <1>4, MadeForest
<1>6. Failed(s, parent.err).fs = s
  BY DEF Failed
<1> QED BY <1>2, <1>5, <1>6

(* symlink (fs.rs:184) makes a symlink.                                     *)
LEMMA SymlinkForest ==
  ASSUME NEW s, Consistent(s), Forest(s), NEW target \in PathName, NEW linkpath \in PathName
  PROVE  Forest(Symlink(s, target, linkpath).fs)
<1>1. PICK parent, node, grown :
        /\ parent = NewEntry(s, linkpath)
        /\ node = SymlinkNode(NextIndex(s.symlinks))
        /\ grown = [s EXCEPT !.symlinks = Append(@, target)]
  OBVIOUS
<1>2. Symlink(s, target, linkpath) =
        IF parent.err # Ok THEN Failed(s, parent.err)
        ELSE Done(Insert(grown, parent.node.idx, NameOf(linkpath), node),
                  SymlinkOp(target, linkpath))
  BY <1>1 DEF Symlink
<1>3. Consistent(grown) /\ grown.dirs = s.dirs /\ node \in Node /\ NodeAllocated(grown, node)
  BY <1>1, NewSymlink
<1>4. node.kind # "Dir" /\ SymlinkOp(target, linkpath) \in Operation
  BY <1>1, OperationTypes DEF SymlinkNode
<1>5. parent.err = Ok => Forest(Done(Insert(grown, parent.node.idx, NameOf(linkpath), node), SymlinkOp(target, linkpath)).fs)
  BY <1>1, <1>3, <1>4, MadeForest
<1>6. Failed(s, parent.err).fs = s
  BY DEF Failed
<1> QED BY <1>2, <1>5, <1>6

(* hardlink (fs.rs:162) makes another entry for a file.                     *)
LEMMA HardlinkForest ==
  ASSUME NEW s, Consistent(s), Forest(s), NEW old \in PathName, NEW new \in PathName
  PROVE  Forest(Hardlink(s, old, new).fs)
<1>1. PICK parent, file : parent = NewEntry(s, new) /\ file = ResolveFile(s, old)
  OBVIOUS
<1>2. CASE Hardlink(s, old, new).fs = s
  BY <1>2
<1>3. CASE /\ file.err = Ok /\ parent.err = Ok
           /\ Hardlink(s, old, new) = Done(Insert(s, parent.node.idx, NameOf(new), file.node),
                                           HardlinkOp(old, new))
  <2>1. file.node \in Node /\ NodeAllocated(s, file.node)
    BY <1>1, <1>3, ResolveFileSound DEF Consistent, Sound
  <2>2. file.node.kind # "Dir"
    <3>1. PICK r : r = ResolveNode(s, old, TRUE)
      OBVIOUS
    <3>2. file = AsFile(r)
      BY <1>1, <3>1 DEF ResolveFile
    <3>3. Unresolved("NotAFile").err # Ok
      BY DEF Unresolved, Ok
    <3> QED BY <1>3, <3>2, <3>3 DEF AsFile
  <2> QED BY <1>1, <1>3, <2>1, <2>2, MadeForest, OperationTypes
<1> QED BY <1>1, <1>2, <1>3 DEF Hardlink, Failed

(* mkdir (fs.rs:122) makes a directory.                                     *)
LEMMA MkDirForest ==
  ASSUME NEW s, Consistent(s), Forest(s), NEW path \in PathName
  PROVE  Forest(MkDir(s, path).fs)
<1>1. PICK parent, d, name, new, grown :
        /\ parent = NewEntry(s, path)
        /\ d = parent.node.idx
        /\ name = NameOf(path)
        /\ new = DirNode(NextIndex(s.dirs))
        /\ grown = [s EXCEPT !.dirs = Append(@, EmptyDir)]
  OBVIOUS
<1>2. MkDir(s, path) = IF parent.err # Ok THEN Failed(s, parent.err)
                       ELSE Done(Insert(grown, d, name, new), MkDirOp(path))
  BY <1>1 DEF MkDir
<1>3. /\ Consistent(grown) /\ grown \in FS /\ new \in Node /\ NodeAllocated(grown, new)
      /\ DOMAIN s.dirs \subseteq DOMAIN grown.dirs
  BY <1>1, NewDir DEF Consistent, Tree
<1>4. ASSUME parent.err = Ok
      PROVE  Forest(Done(Insert(grown, d, name, new), MkDirOp(path)).fs)
  <2>1. d \in DOMAIN s.dirs /\ name \in Keys
    BY <1>1, <1>4, NewEntrySound, PathFacts DEF IsDirOf
  <2>2. PICK t : t = Insert(grown, d, name, new)
    OBVIOUS
  <2>3. /\ t.dirs = [grown.dirs EXCEPT ![d][name] = new]
        /\ OneEntryReplaced(grown, t, d, name)
    BY <1>3, <2>1, <2>2, InsertReplaces
  <2>4. s \in FS /\ s.dirs \in Seq(Dir) /\ grown.dirs \in Seq(Dir)
    BY <1>3, FieldsOf DEF Consistent, Tree
  <2>5. grown.dirs = Append(s.dirs, EmptyDir)
    BY <1>1, <2>4 DEF FS
  <2>6. EmptyDir \in Dir /\ \A n \in Keys : EmptyDir[n] = Absent
    BY DEF EmptyDir, Dir
  <2>7. /\ DOMAIN grown.dirs = DOMAIN s.dirs \cup {Len(s.dirs) + 1}
        /\ grown.dirs[Len(s.dirs) + 1] = EmptyDir
        /\ \A c \in DOMAIN s.dirs : grown.dirs[c] = s.dirs[c] /\ c # Len(s.dirs) + 1
    BY <2>4, <2>5, <2>6
  <2>8. t.dirs[d][name] = new
    <3>1. grown.dirs[d] \in [Keys -> Node \cup {Absent}]
      BY <1>3, <2>1, <2>4 DEF Dir
    <3> QED BY <1>3, <2>1, <2>3, <2>4, <3>1
  <2>9. new = DirNode(Len(s.dirs) + 1)
    BY <1>1 DEF NextIndex
  <2>10. NewSubdir(s, t, d, name)
    BY <2>1, <2>3, <2>6, <2>7, <2>8, <2>9 DEF OneEntryReplaced, NewSubdir
  <2>11. Forest(t)
    BY <2>1, <2>10, NewSubdirForest DEF Consistent
  <2>12. MkDirOp(path) \in Operation
    BY OperationTypes
  <2>13. Consistent(t)
    BY <1>3, <2>1, <2>2, <2>12, InsertGood
  <2> QED BY <2>2, <2>11, <2>12, <2>13, DoneForest
<1>5. Failed(s, parent.err).fs = s
  BY DEF Failed
<1> QED BY <1>2, <1>4, <1>5

(* The new parent, and what the resolution went through to find it, holds   *)
(* no directory that may be moved there.                                    *)
LEMMA DestAncestors ==
  ASSUME NEW s, Consistent(s), Forest(s), NEW path \in PathName,
         NEW dest, dest = ResolveDir(s, ParentOf(path)), dest.err = Ok
  PROVE  WithAncestors(s, Through(dest)) /\ dest.node.idx \in Through(dest)
<1>1. ParentOf(path) \in PathName /\ {} \in SUBSET Nat /\ StackDepth \in Nat /\ Tree(s)
  BY PathFacts, StackDepthAssumption DEF Consistent
<1>2. PICK r : r = Followed(s, StackDepth, ParentOf(path), {})
  OBVIOUS
<1>3. dest = AsDir(s, r)
  BY <1>2, ResolveAnswers
<1>4. dest = r /\ r.err = Ok /\ r.node.kind = "Dir"
  BY <1>3, AsDirOk
<1>5. PassesAncestors(s, r)
  BY <1>1, <1>2, <1>4, AnswersPassAncestors DEF Followed
<1> QED BY <1>4, <1>5 DEF PassesAncestors, Through

(* rename (fs.rs:203) moves a directory below none of its own.              *)
LEMMA RenameForest ==
  ASSUME NEW s, Consistent(s), Forest(s), NEW old \in PathName, NEW new \in PathName
  PROVE  Forest(Rename(s, old, new).fs)
<1>1. CASE ~Moves(s, old, new)
  BY <1>1, RenameRefused
<1>2. CASE Moves(s, old, new)
  <2>1. PICK from, dest, source, t :
          /\ from = ResolveDir(s, ParentOf(old)).node.idx
          /\ dest = ResolveDir(s, ParentOf(new))
          /\ source = SourceOf(s, old).node
          /\ t = Rename(s, old, new).fs
    OBVIOUS
  <2>2. /\ from \in DOMAIN s.dirs
        /\ dest.err = Ok /\ dest.node.idx \in DOMAIN s.dirs
        /\ source = s.dirs[from][NameOf(old)]
    BY <1>2, <2>1, OriginFound
  <2>3. t.dirs = [s.dirs EXCEPT ![dest.node.idx][NameOf(new)] = s.dirs[from][NameOf(old)],
                                ![from][NameOf(old)] = Absent]
    BY <1>2, <2>1, RenameMoves
  <2>4. PICK to, name, other : to = dest.node.idx /\ name = NameOf(old) /\ other = NameOf(new)
    OBVIOUS
  <2>5. name \in Keys /\ other \in Keys /\ to \in DOMAIN s.dirs
    BY <2>2, <2>4, PathFacts
  <2>6. Moved(s, t, from, name, to, other)
    <3>1. s.dirs \in [DOMAIN s.dirs -> [Keys -> Node \cup {Absent}]]
      <4>1. s.dirs \in Seq(Dir)
        BY FieldsOf DEF Consistent, Tree
      <4> QED BY <4>1 DEF Dir
    <3>2. t.dirs = [s.dirs EXCEPT ![to][other] = s.dirs[from][name], ![from][name] = Absent]
      BY <2>3, <2>4
    <3> QED BY <2>2, <2>5, <3>1, <3>2 DEF Moved
  <2>7. WithAncestors(s, Through(dest)) /\ to \in Through(dest)
    BY <2>1, <2>2, <2>4, DestAncestors
  <2>8. source.kind = "Dir" => source.idx \notin Through(dest)
    BY <1>2, <2>1 DEF Moves, MovesIntoItself, Through
  <2>9. source = s.dirs[from][name]
    BY <2>2, <2>4
  <2>10. Forest(t)
    BY <2>2, <2>5, <2>6, <2>7, <2>8, <2>9, MovedForest
  <2> QED BY <2>1, <2>10
<1> QED BY <1>1, <1>2

(* The calls on descriptors (fs.rs:236-333) leave the directories alone:    *)
(* open, close, fsync, read and write move no directory.                    *)
LEMMA DescriptorsForest ==
  ASSUME NEW s \in FS, Forest(s)
  PROVE  /\ \A path : Forest(Open(s, path).fs)
         /\ \A d : Forest(Close(s, d).fs) /\ Forest(FSync(s, d).fs)
         /\ \A d, size : Forest(Read(s, d, size).fs)
         /\ \A d, src, size : Forest(Write(s, d, src, size).fs)
BY DescriptorsKeepTree, SameForest DEF SameTree

(***************************************************************************)
(* The specification.                                                       *)
(***************************************************************************)
(* The root alone is a forest.                                              *)
LEMMA InitForest == Init => Forest(fs)
<1> SUFFICES ASSUME Init
             PROVE  Forest(fs)
  OBVIOUS
<1>1. \A n \in Keys : EmptyDir[n] = Absent
  BY DEF EmptyDir
<1>2. DOMAIN fs.dirs = {RootIndex} /\ fs.dirs[RootIndex] = EmptyDir
  BY DEF Init, NewFS, RootIndex
<1>3. \A d \in DOMAIN fs.dirs, n \in Keys : fs.dirs[d][n] = Absent
  BY <1>1, <1>2
<1>4. Absent.kind # "Dir" /\ \A c : DirNode(c).kind = "Dir"
  BY DEF Absent, DirNode
<1>5. \A d \in DOMAIN fs.dirs : SubdirsOf(fs, d) = {}
  BY <1>3, <1>4 DEF SubdirsOf
<1> QED BY <1>3, <1>4, <1>5 DEF Forest

(* Every call keeps it one.                                                 *)
LEMMA NextForest == Inv /\ Forest(fs) /\ [Next]_vars => Forest(fs')
<1> SUFFICES ASSUME Inv, Forest(fs), [Next]_vars
             PROVE  Forest(fs')
  OBVIOUS
<1>1. Paths \subseteq PathName /\ Sizes \subseteq Nat /\ Descriptors \subseteq Nat
  BY PathsAssumption, SizesAssumption, FieldsOf DEF Descriptors, Inv, Consistent, Tree
<1>0. fs \in FS
  BY DEF Inv, Consistent, Tree
<1>2. CASE RemoveCall
  BY <1>1, <1>2, RemoveForest DEF RemoveCall, Call, Inv
<1>3. CASE MkDirCall
  BY <1>1, <1>3, MkDirForest DEF MkDirCall, Call, Inv
<1>4. CASE CreateCall
  BY <1>1, <1>4, CreateForest DEF CreateCall, Call, Inv
<1>5. CASE HardlinkCall
  BY <1>1, <1>5, HardlinkForest DEF HardlinkCall, Call, Inv
<1>6. CASE SymlinkCall
  BY <1>1, <1>6, SymlinkForest DEF SymlinkCall, Call, Inv
<1>7. CASE RenameCall
  BY <1>1, <1>7, RenameForest DEF RenameCall, Call, Inv
<1>8. CASE OpenCall
  BY <1>1, <1>8, <1>0, DescriptorsForest DEF OpenCall, Call, Inv
<1>9. CASE CloseCall
  BY <1>1, <1>9, <1>0, DescriptorsForest DEF CloseCall, Call, Inv
<1>10. CASE ReadCall
  BY <1>1, <1>10, <1>0, DescriptorsForest DEF ReadCall, Call, Inv
<1>11. CASE WriteCall
  BY <1>1, <1>11, <1>0, DescriptorsForest DEF WriteCall, Call, Inv
<1>12. CASE FSyncCall
  BY <1>1, <1>12, <1>0, DescriptorsForest DEF FSyncCall, Call, Inv
<1>13. CASE UNCHANGED vars
  BY <1>13 DEF vars
<1> QED BY <1>2, <1>3, <1>4, <1>5, <1>6, <1>7, <1>8, <1>9, <1>10, <1>11, <1>12, <1>13 DEF Next

\* The directories form a forest, deleted ones included: the comparison of the
\* moved directory with the directories traversed (fs.rs:214-218) is enough,
\* through whatever symlinks the new parent is reached.
THEOREM SpecDirsFormForest == Spec => []DirsFormForest
<1>1. Init => Inv /\ Forest(fs)
  BY InitInv, InitForest
<1>2. (Inv /\ Forest(fs)) /\ [Next]_vars => (Inv /\ Forest(fs))'
  <2>1. Forest(fs)' <=> Forest(fs')
    BY DEF Forest, SubdirsOf
  <2> QED BY <2>1, NextInv, NextForest
<1>3. Inv /\ Forest(fs) => DirsFormForest
  BY DEF DirsFormForest
<1> QED BY <1>1, <1>2, <1>3, PTL DEF Spec

(***************************************************************************)
(* The contents of a file.  First its loops: what each makes of one more    *)
(* slice, and induction over sequences.                                     *)
(***************************************************************************)
(* One iteration, and what a loop has made after each.                      *)
Taken(step, made, s) == step[made][s]

Loops(f, step, first, ss, n) ==
  f[0] = first /\ \A i \in 1 .. n : f[i] = Taken(step, f[i - 1], ss[i])

(* A step makes something of the type again.                                *)
LEMMA StepMakes ==
  ASSUME NEW A, NEW T, NEW step \in [A -> [T -> A]], NEW x \in A, NEW y \in T
  PROVE  Taken(step, x, y) \in A
BY DEF Taken

(* A loop over elements of T that makes elements of A.                      *)
LoopOf(A, T, step, first) == step \in [A -> [T -> A]] /\ first \in A

(* There are such values up to each iteration.                              *)
LEMMA LoopExists ==
  ASSUME NEW A, NEW T, NEW step \in [A -> [T -> A]], NEW first \in A, NEW ss \in Seq(T),
         NEW n \in 0 .. Len(ss)
  PROVE  \E f \in [0 .. n -> A] : Loops(f, step, first, ss, n)
<1> DEFINE P == {m \in Nat : m <= Len(ss) => \E f \in [0 .. m -> A] : Loops(f, step, first, ss, m)}
<1>1. 0 \in P
  <2>1. [i \in 0 .. 0 |-> first] \in [0 .. 0 -> A]
    OBVIOUS
  <2>2. Loops([i \in 0 .. 0 |-> first], step, first, ss, 0)
    BY DEF Loops
  <2> QED BY <2>1, <2>2
<1>2. ASSUME NEW m \in Nat, m \in P
      PROVE  m + 1 \in P
  <2> SUFFICES ASSUME m + 1 <= Len(ss)
               PROVE  \E f \in [0 .. m + 1 -> A] : Loops(f, step, first, ss, m + 1)
    OBVIOUS
  <2>1. PICK f \in [0 .. m -> A] : Loops(f, step, first, ss, m)
    BY <1>2
  <2>2. PICK y : y = ss[m + 1]
    OBVIOUS
  <2>3. y \in T
    BY <2>2
  <2>4. PICK last : last = Taken(step, f[m], y)
    OBVIOUS
  <2>5. last \in A
    <3>1. f[m] \in A
      OBVIOUS
    <3> QED BY <2>3, <2>4, <3>1, StepMakes
  <2> DEFINE h == [i \in 0 .. m + 1 |-> IF i = m + 1 THEN last ELSE f[i]]
  <2>6. h \in [0 .. m + 1 -> A] /\ h[0] = f[0]
    BY <2>5
  <2>7. ASSUME NEW i \in 1 .. m + 1
        PROVE  h[i] = Taken(step, h[i - 1], ss[i])
    <3>1. CASE i = m + 1
      <4>1. h[i] = last /\ h[i - 1] = f[m]
        BY <3>1
      <4> QED BY <2>2, <2>4, <3>1, <4>1
    <3>2. CASE i \in 1 .. m
      <4>1. PICK j \in 0 .. m + 1 : j = i - 1 /\ j # m + 1
        BY <3>2
      <4>2. h[j] = f[j]
        BY <4>1
      <4>3. i \in 0 .. m + 1 /\ i # m + 1
        BY <3>2
      <4>4. h[i] = f[i]
        BY <4>3
      <4> QED BY <2>1, <3>2, <4>1, <4>2, <4>4 DEF Loops
    <3> QED BY <3>1, <3>2
  <2> HIDE DEF h
  <2>8. Loops(h, step, first, ss, m + 1)
    BY <2>1, <2>6, <2>7 DEF Loops
  <2> QED BY <2>6, <2>8
<1> HIDE DEF P
<1>3. Nat \subseteq P
  BY <1>1, <1>2, NatSetInduction
<1>4. n \in P /\ n <= Len(ss)
  BY <1>3
<1> QED BY <1>4 DEF P

(* Two loops over sequences that begin the same do the same.                *)
LEMMA LoopsAgree ==
  ASSUME NEW step, NEW first, NEW ss, NEW more, NEW n \in Nat, NEW f, NEW h,
         Loops(f, step, first, ss, n), Loops(h, step, first, more, n),
         \A k \in 1 .. n : more[k] = ss[k]
  PROVE  \A k \in 0 .. n : f[k] = h[k]
<1> DEFINE P == {k \in Nat : k <= n => f[k] = h[k]}
<1>1. 0 \in P
  BY DEF Loops
<1>2. ASSUME NEW k \in Nat, k \in P
      PROVE  k + 1 \in P
  <2> SUFFICES ASSUME k + 1 <= n
               PROVE  f[k + 1] = h[k + 1]
    OBVIOUS
  <2>1. k + 1 \in 1 .. n /\ (k + 1) - 1 = k /\ f[k] = h[k]
    BY <1>2
  <2>2. f[k + 1] = Taken(step, f[k], ss[k + 1]) /\ h[k + 1] = Taken(step, h[k], more[k + 1])
    BY <2>1 DEF Loops
  <2> QED BY <2>1, <2>2
<1> HIDE DEF P
<1>3. Nat \subseteq P
  BY <1>1, <1>2, NatSetInduction
<1> QED BY <1>3 DEF P

(* The recursive function of Loop satisfies its equation.                   *)
LEMMA LoopRuns ==
  ASSUME NEW A, NEW T, NEW step, NEW first, LoopOf(A, T, step, first), NEW ss \in Seq(T)
  PROVE  \E f \in [0 .. Len(ss) -> A] :
           Loops(f, step, first, ss, Len(ss)) /\ Loop(step, first, ss) = f[Len(ss)]
<1>1. PICK N \in Nat : N = Len(ss)
  OBVIOUS
<1>2. PICK f \in [0 .. N -> A] : Loops(f, step, first, ss, N)
  <2>1. N \in 0 .. Len(ss)
    BY <1>1
  <2> QED BY <2>1, LoopExists DEF LoopOf
<1> DEFINE Made(r) == r = [n \in 0 .. N |-> IF n = 0 THEN first ELSE Taken(step, r[n - 1], ss[n])]
<1>3. Made(f)
  <2>1. \A n \in 0 .. N : f[n] = IF n = 0 THEN first ELSE Taken(step, f[n - 1], ss[n])
    BY <1>2 DEF Loops
  <2>2. f = [n \in 0 .. N |-> f[n]]
    OBVIOUS
  <2> QED BY <2>1, <2>2
<1>4. PICK r : r = CHOOSE made : Made(made)
  OBVIOUS
<1>5. Made(r)
  <2> HIDE DEF Made
  <2> QED BY <1>3, <1>4
<1>6. \A n \in 0 .. N : r[n] = IF n = 0 THEN first ELSE Taken(step, r[n - 1], ss[n])
  BY <1>5
<1>7. Loops(r, step, first, ss, N)
  BY <1>6 DEF Loops
<1>8. r[N] = f[N]
  <2>1. \A k \in 0 .. N : f[k] = r[k]
    BY <1>2, <1>7, LoopsAgree
  <2> QED BY <2>1
<1>9. Loop(step, first, ss) = r[N]
  BY <1>1, <1>4 DEF Loop, Taken
<1> QED BY <1>1, <1>2, <1>8, <1>9

(* A loop over nothing, and one iteration more.                             *)
LEMMA LoopFacts ==
  ASSUME NEW A, NEW T, NEW step, NEW first, LoopOf(A, T, step, first)
  PROVE  /\ Loop(step, first, <<>>) = first
         /\ \A ss \in Seq(T) : Loop(step, first, ss) \in A
         /\ \A ss \in Seq(T), s \in T :
              Loop(step, first, Append(ss, s)) = Taken(step, Loop(step, first, ss), s)
<1>1. ASSUME NEW ss \in Seq(T), NEW n \in Nat, Len(ss) = n
      PROVE  \E f \in [0 .. n -> A] :
               Loops(f, step, first, ss, n) /\ Loop(step, first, ss) = f[n]
  <2>1. \E f \in [0 .. Len(ss) -> A] :
          Loops(f, step, first, ss, Len(ss)) /\ Loop(step, first, ss) = f[Len(ss)]
    BY LoopRuns
  <2> QED BY <1>1, <2>1
<1>2. Loop(step, first, <<>>) = first
  <2>1. PICK none \in Seq(T) : none = <<>> /\ Len(none) = 0
    <3>1. <<>> \in Seq(T) /\ Len(<<>>) = 0
      OBVIOUS
    <3> QED BY <3>1
  <2>2. PICK f \in [0 .. 0 -> A] : Loops(f, step, first, none, 0) /\ Loop(step, first, none) = f[0]
    BY <1>1, <2>1
  <2> QED BY <2>1, <2>2 DEF Loops
<1>3. ASSUME NEW ss \in Seq(T)
      PROVE  Loop(step, first, ss) \in A
  <2>1. PICK n \in Nat : Len(ss) = n
    OBVIOUS
  <2>2. PICK f \in [0 .. n -> A] : Loop(step, first, ss) = f[n]
    BY <1>1, <2>1
  <2>3. n \in 0 .. n
    OBVIOUS
  <2> QED BY <2>2, <2>3
<1>4. ASSUME NEW ss \in Seq(T), NEW s \in T
      PROVE  Loop(step, first, Append(ss, s)) = Taken(step, Loop(step, first, ss), s)
  <2>1. PICK N \in Nat : N = Len(ss)
    OBVIOUS
  <2>2. PICK more : more = Append(ss, s)
    OBVIOUS
  <2>3. /\ more \in Seq(T) /\ Len(more) = N + 1
        /\ (\A k \in 1 .. N : more[k] = ss[k]) /\ more[N + 1] = s
    BY <2>1, <2>2
  <2>4. PICK f : Loops(f, step, first, ss, N) /\ Loop(step, first, ss) = f[N]
    BY <1>1, <2>1
  <2>5. PICK h : Loops(h, step, first, more, N + 1) /\ Loop(step, first, more) = h[N + 1]
    BY <1>1, <2>3
  <2>6. Loops(h, step, first, more, N)
    <3>1. \A i \in 1 .. N : i \in 1 .. N + 1
      OBVIOUS
    <3> QED BY <2>5, <3>1 DEF Loops
  <2>7. h[N + 1] = Taken(step, h[N], s)
    <3>1. N + 1 \in 1 .. N + 1 /\ (N + 1) - 1 = N
      OBVIOUS
    <3> QED BY <2>3, <2>5, <3>1 DEF Loops
  <2>8. f[N] = h[N]
    <3>1. \A k \in 1 .. N : more[k] = ss[k]
      BY <2>3
    <3>2. \A k \in 0 .. N : f[k] = h[k]
      BY <2>4, <2>6, <3>1, LoopsAgree
    <3> QED BY <3>2
  <2> QED BY <2>2, <2>4, <2>5, <2>7, <2>8
<1> QED BY <1>2, <1>3, <1>4

(* What is true of no elements, and of one more whenever it is true of      *)
(* some, is true of any sequence of them.                                   *)
LEMMA SeqSetInduction ==
  ASSUME NEW T, NEW P, <<>> \in P, \A ss \in Seq(T), s \in T : ss \in P => Append(ss, s) \in P
  PROVE  Seq(T) \subseteq P
<1> DEFINE Q == {n \in Nat : \A ss \in Seq(T) : Len(ss) = n => ss \in P}
<1>1. 0 \in Q
  <2>1. ASSUME NEW ss \in Seq(T), Len(ss) = 0
        PROVE  ss \in P
    <3>1. ss = <<>>
      BY <2>1
    <3> QED BY <3>1
  <2> QED BY <2>1
<1>2. ASSUME NEW n \in Nat, n \in Q
      PROVE  n + 1 \in Q
  <2>1. ASSUME NEW ss \in Seq(T), Len(ss) = n + 1
        PROVE  ss \in P
    <3>1. PICK front : front = SubSeq(ss, 1, n)
      OBVIOUS
    <3>2. front \in Seq(T) /\ Len(front) = n
      BY <2>1, <3>1
    <3>3. ss[n + 1] \in T
      BY <2>1
    <3>4. ss = Append(front, ss[n + 1])
      BY <2>1, <3>1, <3>2, <3>3
    <3>5. front \in P
      BY <1>2, <3>2
    <3> QED BY <3>2, <3>3, <3>4, <3>5
  <2> QED BY <2>1
<1> HIDE DEF Q
<1>3. Nat \subseteq Q
  BY <1>1, <1>2, NatSetInduction
<1>4. ASSUME NEW ss \in Seq(T)
      PROVE  ss \in P
  <2>1. Len(ss) \in Nat
    OBVIOUS
  <2>2. Len(ss) \in Q
    BY <1>3, <2>1
  <2> QED BY <2>2 DEF Q
<1> QED BY <1>4

(***************************************************************************)
(* Sequences of bytes, parted and joined.                                   *)
(***************************************************************************)
(* The first n bytes of a file, and those after them.                       *)
First(b, n) == SubSeq(b, 1, n)
Rest(b, n) == SubSeq(b, n + 1, Len(b))

(* Sequences of the same elements are the same.                             *)
LEMMA SameElements ==
  ASSUME NEW S, NEW a \in Seq(S), NEW b \in Seq(S), NEW n \in Nat, Len(a) = n, Len(b) = n,
         \A k \in 1 .. n : a[k] = b[k]
  PROVE  a = b
OBVIOUS

(* Nothing before and nothing behind.                                       *)
LEMMA NothingJoined ==
  ASSUME NEW S, NEW a \in Seq(S)
  PROVE  a \o <<>> = a /\ <<>> \o a = a /\ <<>> \in Seq(S) /\ Len(<<>>) = 0
<1>1. <<>> \in Seq(S) /\ Len(<<>>) = 0
  OBVIOUS
<1>2. a \o <<>> = a
  OBVIOUS
<1>3. <<>> \o a = a
  OBVIOUS
<1> QED BY <1>1, <1>2, <1>3

(* Three sequences in a row.                                                *)
InARow(a, b, c) == (a \o b) \o c = a \o (b \o c)

LEMMA JoinedInARow ==
  ASSUME NEW S, NEW a \in Seq(S), NEW b \in Seq(S), NEW c \in Seq(S)
  PROVE  InARow(a, b, c)
<1>1. PICK n, m, p, q, r, l \in Nat :
         /\ n = Len(a) /\ m = Len(b) /\ p = Len(c)
         /\ q = n + m /\ r = m + p /\ l = n + m + p
  OBVIOUS
<1>2. PICK ab, bc : ab = a \o b /\ bc = b \o c
  OBVIOUS
<1>3. PICK x, y : x = ab \o c /\ y = a \o bc
  OBVIOUS
<1>4. /\ ab \in Seq(S) /\ Len(ab) = q
      /\ \A k \in 1 .. n : ab[k] = a[k]
      /\ \A k \in 1 .. m : ab[n + k] = b[k]
  BY <1>1, <1>2, ConcatFacts
<1>5. /\ bc \in Seq(S) /\ Len(bc) = r
      /\ \A k \in 1 .. m : bc[k] = b[k]
      /\ \A k \in 1 .. p : bc[m + k] = c[k]
  BY <1>1, <1>2, ConcatFacts
<1>6. /\ x \in Seq(S) /\ Len(x) = q + p
      /\ \A k \in 1 .. q : x[k] = ab[k]
      /\ \A k \in 1 .. p : x[q + k] = c[k]
  <2>1. ab \in Seq(S) /\ c \in Seq(S) /\ q = Len(ab) /\ p = Len(c)
    BY <1>1, <1>4
  <2>2. /\ ab \o c \in Seq(S) /\ Len(ab \o c) = q + p
        /\ \A k \in 1 .. q : (ab \o c)[k] = ab[k]
        /\ \A k \in 1 .. p : (ab \o c)[q + k] = c[k]
    BY ONLY <2>1, ConcatFacts
  <2> QED BY <1>3, <2>2
<1>7. /\ y \in Seq(S) /\ Len(y) = n + r
      /\ \A k \in 1 .. n : y[k] = a[k]
      /\ \A k \in 1 .. r : y[n + k] = bc[k]
  BY <1>1, <1>3, <1>5, ConcatFacts
<1>8. Len(x) = l /\ Len(y) = l
  BY <1>1, <1>6, <1>7
<1>9. ASSUME NEW k \in 1 .. l
      PROVE  x[k] = y[k]
  <2>1. CASE k \in 1 .. n
    <3>1. k \in 1 .. q
      BY <1>1, <2>1
    <3> QED BY <1>4, <1>6, <1>7, <2>1, <3>1
  <2>2. CASE k \in n + 1 .. q
    <3>1. PICK j : j = k - n
      OBVIOUS
    <3>2. j \in 1 .. m /\ j \in 1 .. r /\ k = n + j /\ k \in 1 .. q
      BY <1>1, <2>2, <3>1
    <3>3. x[k] = b[j]
      BY <1>4, <1>6, <3>2
    <3>4. y[k] = b[j]
      BY <1>5, <1>7, <3>2
    <3> QED BY <3>3, <3>4
  <2>3. CASE k \in q + 1 .. l
    <3>1. PICK j : j = k - q
      OBVIOUS
    <3>2. j \in 1 .. p /\ m + j \in 1 .. r /\ k = q + j /\ k = n + (m + j)
      BY <1>1, <2>3, <3>1
    <3>3. x[k] = c[j]
      BY <1>6, <3>2
    <3>4. y[k] = c[j]
      BY <1>5, <1>7, <3>2
    <3> QED BY <3>3, <3>4
  <2> QED BY <1>1, <2>1, <2>2, <2>3
<1>10. x = y
  BY <1>6, <1>7, <1>8, <1>9, SameElements
<1> QED BY <1>2, <1>3, <1>10 DEF InARow

(* Where a sequence is joined it can be parted again.                       *)
LEMMA Parted ==
  ASSUME NEW S, NEW a \in Seq(S), NEW b \in Seq(S), NEW n, n = Len(a)
  PROVE  First(a \o b, n) = a /\ Rest(a \o b, n) = b
<1>1. PICK m \in Nat : m = Len(b)
  OBVIOUS
<1>2. PICK ab : ab = a \o b
  OBVIOUS
<1>3. n \in Nat /\ ab \in Seq(S) /\ Len(ab) = n + m
  BY <1>1, <1>2
<1>4. (\A k \in 1 .. n : ab[k] = a[k]) /\ \A k \in 1 .. m : ab[n + k] = b[k]
  BY <1>1, <1>2, ConcatFacts
<1>5. PICK x, y : x = SubSeq(ab, 1, n) /\ y = SubSeq(ab, n + 1, n + m)
  OBVIOUS
<1>6. /\ x \in Seq(S) /\ Len(x) = n /\ y \in Seq(S) /\ Len(y) = m
      /\ \A k \in 1 .. n : x[k] = ab[k]
      /\ \A k \in 1 .. m : y[k] = ab[n + k]
  BY <1>1, <1>3, <1>5, CutInTwo
<1>7. x = a
  BY <1>3, <1>4, <1>6, SameElements
<1>8. y = b
  BY <1>1, <1>4, <1>6, SameElements
<1> QED BY <1>2, <1>3, <1>5, <1>7, <1>8 DEF First, Rest

(* A file is its first bytes and the rest.                                  *)
LEMMA FirstAndRest ==
  ASSUME NEW S, NEW b \in Seq(S), NEW n \in Nat, n <= Len(b)
  PROVE  /\ First(b, n) \in Seq(S) /\ Len(First(b, n)) = n
         /\ Rest(b, n) \in Seq(S) /\ Len(Rest(b, n)) = Len(b) - n
         /\ First(b, n) \o Rest(b, n) = b
<1>1. PICK m \in Nat : Len(b) = n + m
  <2>1. Len(b) - n \in Nat /\ Len(b) = n + (Len(b) - n)
    OBVIOUS
  <2> QED BY <2>1
<1>2. PICK x, y : x = SubSeq(b, 1, n) /\ y = SubSeq(b, n + 1, n + m)
  OBVIOUS
<1>3. x \in Seq(S) /\ Len(x) = n /\ y \in Seq(S) /\ Len(y) = m /\ x \o y = b
  BY <1>1, <1>2, CutInTwo
<1> QED BY <1>1, <1>2, <1>3 DEF First, Rest

(* Past its end nothing is left.                                            *)
LEMMA NothingLeft ==
  ASSUME NEW S, NEW b \in Seq(S), NEW n \in Nat, n >= Len(b)
  PROVE  Rest(b, n) = <<>>
BY DEF Rest

(* Parting a joined sequence elsewhere.                                     *)
LEMMA PartedBefore ==
  ASSUME NEW S, NEW a \in Seq(S), NEW b \in Seq(S), NEW n \in Nat, n <= Len(a)
  PROVE  First(a \o b, n) = First(a, n) /\ Rest(a \o b, n) = Rest(a, n) \o b
<1>1. PICK x, y : x = First(a, n) /\ y = Rest(a, n)
  OBVIOUS
<1>2. x \in Seq(S) /\ Len(x) = n /\ y \in Seq(S) /\ x \o y = a
  BY <1>1, FirstAndRest
<1>3. y \o b \in Seq(S)
  BY <1>2
<1>4. a \o b = x \o (y \o b)
  <2>1. x \in Seq(S) /\ y \in Seq(S) /\ b \in Seq(S)
    BY <1>2
  <2>2. (x \o y) \o b = x \o (y \o b)
    <3>1. InARow(x, y, b)
      BY ONLY <2>1, JoinedInARow
    <3> QED BY <3>1 DEF InARow
  <2> QED BY <1>2, <2>2
<1>5. First(x \o (y \o b), n) = x /\ Rest(x \o (y \o b), n) = y \o b
  BY <1>2, <1>3, Parted
<1> QED BY <1>1, <1>4, <1>5

LEMMA PartedBehind ==
  ASSUME NEW S, NEW a \in Seq(S), NEW b \in Seq(S), NEW n \in Nat, NEW m \in Nat,
         n = Len(a) + m
  PROVE  /\ Rest(a \o b, n) = Rest(b, m)
         /\ m <= Len(b) => First(a \o b, n) = a \o First(b, m)
<1>1. CASE m <= Len(b)
  <2>1. PICK x, y : x = First(b, m) /\ y = Rest(b, m)
    OBVIOUS
  <2>2. x \in Seq(S) /\ Len(x) = m /\ y \in Seq(S) /\ x \o y = b
    BY <1>1, <2>1, FirstAndRest
  <2>3. a \o x \in Seq(S) /\ n = Len(a \o x)
    <3>1. PICK p \in Nat : p = Len(a)
      OBVIOUS
    <3>2. a \o x \in Seq(S) /\ Len(a \o x) = p + m
      BY <2>2, <3>1, ConcatFacts
    <3> QED BY <3>1, <3>2
  <2>4. a \o b = (a \o x) \o y
    <3>1. a \in Seq(S) /\ x \in Seq(S) /\ y \in Seq(S)
      BY <2>2
    <3>2. (a \o x) \o y = a \o (x \o y)
      <4>1. InARow(a, x, y)
        BY ONLY <3>1, JoinedInARow
      <4> QED BY <4>1 DEF InARow
    <3> QED BY <2>2, <3>2
  <2>5. First((a \o x) \o y, n) = a \o x /\ Rest((a \o x) \o y, n) = y
    BY <2>2, <2>3, Parted
  <2> QED BY <2>1, <2>4, <2>5
<1>2. CASE m > Len(b)
  <2>1. a \o b \in Seq(S) /\ n >= Len(a \o b)
    BY <1>2
  <2>2. Rest(a \o b, n) = <<>>
    BY <2>1, NothingLeft
  <2>3. Rest(b, m) = <<>>
    BY <1>2, NothingLeft
  <2> QED BY <1>2, <2>2, <2>3
<1> QED BY <1>1, <1>2

(* Parts of a source.                                                       *)
LEMMA SourceParts ==
  ASSUME NEW from \in Nat, NEW size \in Nat
  PROVE  /\ Source(from, size) \in Seq(Nat) /\ Len(Source(from, size)) = size
         /\ Source(from, 0) = <<>>
         /\ \A n \in 0 .. size : /\ First(Source(from, size), n) = Source(from, n)
                                 /\ Rest(Source(from, size), n) = Source(from + n, size - n)
<1>1. ASSUME NEW f \in Nat, NEW s \in Nat
      PROVE  /\ Source(f, s) \in Seq(Nat) /\ Len(Source(f, s)) = s
             /\ \A k \in 1 .. s : Source(f, s)[k] = f + k - 1
  BY DEF Source
<1>2. Source(from, 0) = <<>>
  BY DEF Source
<1>3. ASSUME NEW n \in 0 .. size
      PROVE  /\ First(Source(from, size), n) = Source(from, n)
             /\ Rest(Source(from, size), n) = Source(from + n, size - n)
  <2>1. PICK m \in Nat : m = size - n /\ size = n + m /\ n \in Nat /\ from + n \in Nat
    OBVIOUS
  <2>2. PICK b : b = Source(from, size)
    OBVIOUS
  <2>3. PICK x, y : x = SubSeq(b, 1, n) /\ y = SubSeq(b, n + 1, n + m)
    OBVIOUS
  <2>4. b \in Seq(Nat) /\ Len(b) = n + m /\ \A k \in 1 .. n + m : b[k] = from + k - 1
    BY <1>1, <2>1, <2>2
  <2>5. /\ x \in Seq(Nat) /\ Len(x) = n /\ y \in Seq(Nat) /\ Len(y) = m
        /\ \A k \in 1 .. n : x[k] = b[k]
        /\ \A k \in 1 .. m : y[k] = b[n + k]
    BY <2>1, <2>3, <2>4, CutInTwo
  <2>6. x = Source(from, n)
    <3>1. PICK z : z = Source(from, n)
      OBVIOUS
    <3>2. z \in Seq(Nat) /\ Len(z) = n /\ \A k \in 1 .. n : z[k] = from + k - 1
      BY <1>1, <2>1, <3>1
    <3>3. \A k \in 1 .. n : x[k] = z[k]
      BY <2>1, <2>4, <2>5, <3>2
    <3> QED BY <2>1, <2>5, <3>1, <3>2, <3>3, SameElements
  <2>7. y = Source(from + n, m)
    <3>1. PICK z : z = Source(from + n, m)
      OBVIOUS
    <3>2. z \in Seq(Nat) /\ Len(z) = m /\ \A k \in 1 .. m : z[k] = (from + n) + k - 1
      BY <1>1, <2>1, <3>1
    <3>3. \A k \in 1 .. m : y[k] = z[k]
      BY <2>1, <2>4, <2>5, <3>2
    <3> QED BY <2>1, <2>5, <3>1, <3>2, <3>3, SameElements
  <2> QED BY <2>1, <2>2, <2>3, <2>4, <2>6, <2>7 DEF First, Rest
<1> QED BY <1>1, <1>2, <1>3

(***************************************************************************)
(* The bytes and the size of slices.                                        *)
(***************************************************************************)
Slices == Seq(SourceSlice)

(* The sizes of slices, and the bytes they stand for.                       *)
BytesIn(s) == Source(s.from, SizeOf(s))

LEMMA SizeFacts ==
  ASSUME NEW s \in SourceSlice
  PROVE  /\ s.from \in Nat /\ s.to \in Nat /\ SizeOf(s) \in Nat
         /\ SizeOf(s) > 0 => SizeOf(s) = s.to - s.from + 1
         /\ BytesIn(s) \in Seq(Nat) /\ Len(BytesIn(s)) = SizeOf(s)
         /\ SizeOf(s) = 0 => BytesIn(s) = <<>>
<1>1. /\ s.from \in Nat /\ s.to \in Nat /\ SizeOf(s) \in Nat
      /\ SizeOf(s) > 0 => SizeOf(s) = s.to - s.from + 1
  BY DEF SourceSlice, SizeOf
<1> QED BY <1>1, SourceParts DEF BytesIn

(* The size of a file, slice by slice.                                      *)
LEMMA TotalFacts ==
  /\ TotalSize(<<>>) = 0
  /\ \A ss \in Slices : TotalSize(ss) \in Nat
  /\ \A ss \in Slices, s \in SourceSlice : TotalSize(Append(ss, s)) = TotalSize(ss) + SizeOf(s)
<1>1. PICK step : step = [sum \in Nat |-> [s \in SourceSlice |-> sum + SizeOf(s)]]
  OBVIOUS
<1>2. \A sum \in Nat, s \in SourceSlice : Taken(step, sum, s) = sum + SizeOf(s)
  BY <1>1 DEF Taken
<1>3. LoopOf(Nat, SourceSlice, step, 0)
  BY <1>1, SizeFacts DEF LoopOf
<1>4. /\ Loop(step, 0, <<>>) = 0
      /\ \A ss \in Slices : Loop(step, 0, ss) \in Nat
      /\ \A ss \in Slices, s \in SourceSlice :
           Loop(step, 0, Append(ss, s)) = Taken(step, Loop(step, 0, ss), s)
  BY <1>3, LoopFacts DEF Slices
<1>5. \A ss : TotalSize(ss) = Loop(step, 0, ss)
  BY <1>1 DEF TotalSize
<1> QED BY <1>2, <1>4, <1>5

(* Its bytes, slice by slice.                                               *)
LEMMA BytesFacts ==
  /\ BytesOf(<<>>) = <<>>
  /\ \A ss \in Slices : BytesOf(ss) \in Seq(Nat)
  /\ \A ss \in Slices, s \in SourceSlice : BytesOf(Append(ss, s)) = BytesOf(ss) \o BytesIn(s)
<1>1. PICK step : step = [b \in Seq(Nat) |-> [s \in SourceSlice |-> b \o BytesIn(s)]]
  OBVIOUS
<1>2. \A b \in Seq(Nat), s \in SourceSlice : Taken(step, b, s) = b \o BytesIn(s)
  BY <1>1 DEF Taken
<1>3. LoopOf(Seq(Nat), SourceSlice, step, <<>>)
  <2>1. \A b \in Seq(Nat), s \in SourceSlice : b \o BytesIn(s) \in Seq(Nat)
    BY SizeFacts
  <2>2. <<>> \in Seq(Nat)
    OBVIOUS
  <2> QED BY <1>1, <2>1, <2>2 DEF LoopOf
<1>4. /\ Loop(step, <<>>, <<>>) = <<>>
      /\ \A ss \in Slices : Loop(step, <<>>, ss) \in Seq(Nat)
      /\ \A ss \in Slices, s \in SourceSlice :
           Loop(step, <<>>, Append(ss, s)) = Taken(step, Loop(step, <<>>, ss), s)
  BY <1>3, LoopFacts DEF Slices
<1>5. \A ss : BytesOf(ss) = Loop(step, <<>>, ss)
  BY <1>1 DEF BytesOf, BytesIn
<1> QED BY <1>2, <1>4, <1>5

(* A file has as many bytes as its size says.                               *)
LEMMA SizeIsLength ==
  \A ss \in Slices : BytesOf(ss) \in Seq(Nat) /\ Len(BytesOf(ss)) = TotalSize(ss) /\ TotalSize(ss) \in Nat
<1> DEFINE P == {ss \in Slices : Len(BytesOf(ss)) = TotalSize(ss)}
<1>1. <<>> \in P
  <2>1. <<>> \in Slices
    BY DEF Slices
  <2> QED BY <2>1, BytesFacts, TotalFacts
<1>2. ASSUME NEW ss \in Slices, NEW s \in SourceSlice, ss \in P
      PROVE  Append(ss, s) \in P
  <2>1. Append(ss, s) \in Slices
    BY DEF Slices
  <2>2. PICK n, m \in Nat : n = TotalSize(ss) /\ m = SizeOf(s)
    BY TotalFacts, SizeFacts
  <2>3. PICK b, c \in Seq(Nat) : b = BytesOf(ss) /\ c = BytesIn(s)
    BY BytesFacts, SizeFacts
  <2>4. n = Len(b) /\ m = Len(c)
    BY <1>2, <2>2, <2>3, SizeFacts
  <2>5. Len(b \o c) = n + m
    BY <2>4, ConcatFacts
  <2> QED BY <2>1, <2>2, <2>3, <2>5, BytesFacts, TotalFacts
<1> HIDE DEF P
<1>3. Slices \subseteq P
  BY <1>1, <1>2, SeqSetInduction DEF Slices
<1> QED BY <1>3, BytesFacts, TotalFacts DEF P

(* The bytes of slices in a row.                                            *)
LEMMA BytesJoined ==
  ASSUME NEW front \in Slices
  PROVE  \A ss \in Slices : BytesOf(front \o ss) = BytesOf(front) \o BytesOf(ss)
<1> DEFINE P == {ss \in Slices : BytesOf(front \o ss) = BytesOf(front) \o BytesOf(ss)}
<1>1. <<>> \in P
  <2>1. <<>> \in Slices /\ front \o <<>> = front
    BY NothingJoined DEF Slices
  <2>2. BytesOf(front) \o <<>> = BytesOf(front)
    BY BytesFacts, NothingJoined
  <2> QED BY <2>1, <2>2, BytesFacts
<1>2. ASSUME NEW ss \in Slices, NEW s \in SourceSlice, ss \in P
      PROVE  Append(ss, s) \in P
  <2>1. Append(ss, s) \in Slices /\ front \o ss \in Slices
    BY DEF Slices
  <2>2. front \o Append(ss, s) = Append(front \o ss, s)
    BY DEF Slices
  <2>3. PICK a, b, c \in Seq(Nat) : a = BytesOf(front) /\ b = BytesOf(ss) /\ c = BytesIn(s)
    BY BytesFacts, SizeFacts
  <2>4. BytesOf(front \o Append(ss, s)) = (a \o b) \o c
    BY <1>2, <2>1, <2>2, <2>3, BytesFacts
  <2>5. BytesOf(Append(ss, s)) = b \o c
    BY <2>3, BytesFacts
  <2>6. (a \o b) \o c = a \o (b \o c)
    <3>1. InARow(a, b, c)
      BY JoinedInARow
    <3> QED BY <3>1 DEF InARow
  <2> QED BY <2>1, <2>3, <2>4, <2>5, <2>6
<1> HIDE DEF P
<1>3. Slices \subseteq P
  BY <1>1, <1>2, SeqSetInduction DEF Slices
<1> QED BY <1>3 DEF P

(***************************************************************************)
(* A write: what write_back adds, what the loops cut off and retain, where  *)
(* the write starts, and the file parted there.                             *)
(***************************************************************************)
(* A slice made of so many bytes.                                           *)
LEMMA SliceFacts ==
  ASSUME NEW from \in Nat, NEW size \in Nat, size > 0
  PROVE  /\ Slice(from, size) \in SourceSlice /\ SizeOf(Slice(from, size)) = size
         /\ BytesIn(Slice(from, size)) = Source(from, size)
<1>1. PICK s : s = Slice(from, size)
  OBVIOUS
<1>2. s.from = from /\ s.to = from + size - 1 /\ s \in SourceSlice
  BY <1>1 DEF Slice, SourceSlice
<1>3. SizeOf(s) = size
  BY <1>2 DEF SizeOf
<1> QED BY <1>1, <1>2, <1>3 DEF BytesIn

(* write_back.                                                              *)
LEMMA BackWritten ==
  ASSUME NEW ss \in Slices, NEW src \in Nat, NEW size \in Nat
  PROVE  /\ WriteBack(ss, src, size) \in Slices
         /\ BytesOf(WriteBack(ss, src, size)) = BytesOf(ss) \o Source(src, size)
<1>1. CASE size > 0
  <2>1. PICK s \in SourceSlice : s = Slice(src, size) /\ BytesIn(s) = Source(src, size)
    BY <1>1, SliceFacts
  <2>2. WriteBack(ss, src, size) = Append(ss, s)
    BY <1>1, <2>1 DEF WriteBack
  <2>3. Append(ss, s) \in Slices
    BY DEF Slices
  <2> QED BY <2>1, <2>2, <2>3, BytesFacts
<1>2. CASE size = 0
  <2>1. WriteBack(ss, src, size) = ss /\ Source(src, size) = <<>>
    BY <1>2, SourceParts DEF WriteBack
  <2>2. BytesOf(ss) \o <<>> = BytesOf(ss)
    BY BytesFacts, NothingJoined
  <2> QED BY <2>1, <2>2
<1> QED BY <1>1, <1>2

(* One slice cut.                                                           *)
LEMMA CutOne ==
  ASSUME NEW acc \in Uncut, NEW s \in SourceSlice, NEW next, next = CutOff(acc, s)
  PROVE  /\ next \in Uncut
         /\ SizeOf(s) > acc.left =>
              /\ next.left = 0
              /\ BytesOf(next.out) = BytesOf(acc.out) \o Rest(BytesIn(s), acc.left)
         /\ SizeOf(s) <= acc.left =>
              /\ next.left = acc.left - SizeOf(s)
              /\ BytesOf(next.out) = BytesOf(acc.out)
<1>1. acc.out \in Slices /\ acc.left \in Nat
  BY DEF Uncut, Slices
<1>2. CASE SizeOf(s) > acc.left
  <2>1. PICK t : t = [s EXCEPT !.from = @ + acc.left]
    OBVIOUS
  <2>2. t.from = s.from + acc.left /\ t.to = s.to /\ t \in SourceSlice
    BY <1>1, <2>1 DEF SourceSlice
  <2>3. SizeOf(t) = SizeOf(s) - acc.left
    BY <1>1, <1>2, <2>2, SizeFacts DEF SizeOf
  <2>4. BytesIn(t) = Rest(BytesIn(s), acc.left)
    <3>1. PICK f, n, l \in Nat : f = s.from /\ n = SizeOf(s) /\ l = acc.left /\ l \in 0 .. n
      BY <1>1, <1>2, SizeFacts
    <3>2. Rest(Source(f, n), l) = Source(f + l, n - l)
      BY <3>1, SourceParts
    <3> QED BY <2>2, <2>3, <3>1, <3>2 DEF BytesIn
  <2>5. next.out = Append(acc.out, t) /\ next.left = 0 /\ next \in Uncut
    BY <1>1, <1>2, <2>1, <2>2 DEF CutOff, Uncut
  <2>6. BytesOf(Append(acc.out, t)) = BytesOf(acc.out) \o BytesIn(t)
    BY <1>1, <2>2, BytesFacts
  <2> QED BY <1>1, <1>2, <2>4, <2>5, <2>6, SizeFacts
<1>3. CASE SizeOf(s) <= acc.left
  <2>1. Emptied \in SourceSlice /\ SizeOf(Emptied) = 0
    BY DEF Emptied, SourceSlice, SizeOf
  <2>2. BytesIn(Emptied) = <<>>
    BY <2>1, SizeFacts
  <2>3. next.out = Append(acc.out, Emptied) /\ next.left = acc.left - SizeOf(s) /\ next \in Uncut
    BY <1>1, <1>3, <2>1, SizeFacts DEF CutOff, Uncut
  <2>4. BytesOf(Append(acc.out, Emptied)) = BytesOf(acc.out) \o <<>>
    BY <1>1, <2>1, <2>2, BytesFacts
  <2>5. BytesOf(acc.out) \o <<>> = BytesOf(acc.out)
    BY <1>1, BytesFacts, NothingJoined
  <2> QED BY <1>1, <1>3, <2>3, <2>4, <2>5, SizeFacts
<1> QED BY <1>1, <1>2, <1>3, SizeFacts

(* What has been cut off the first slices, and what is left to cut.         *)
IsCut(acc, ss, size) ==
  /\ size >= TotalSize(ss) => acc.left = size - TotalSize(ss)
  /\ size <= TotalSize(ss) => acc.left = 0
  /\ BytesOf(acc.out) = Rest(BytesOf(ss), size)

LEMMA CutNext ==
  ASSUME NEW size \in Nat, NEW ss \in Slices, NEW s \in SourceSlice,
         NEW acc \in Uncut, IsCut(acc, ss, size), NEW next, next = CutOff(acc, s)
  PROVE  IsCut(next, Append(ss, s), size)
<1>1. PICK b, c \in Seq(Nat) : b = BytesOf(ss) /\ c = BytesIn(s)
  BY BytesFacts, SizeFacts
<1>2. PICK N, n \in Nat : N = TotalSize(ss) /\ n = SizeOf(s)
  BY TotalFacts, SizeFacts
<1>3. N = Len(b) /\ n = Len(c)
  BY <1>1, <1>2, SizeIsLength, SizeFacts
<1>4. TotalSize(Append(ss, s)) = N + n /\ BytesOf(Append(ss, s)) = b \o c
  BY <1>1, <1>2, TotalFacts, BytesFacts
<1>5. acc.left \in Nat /\ acc.out \in Slices
  BY DEF Uncut, Slices
<1>6. PICK o \in Seq(Nat) : o = BytesOf(acc.out) /\ o = Rest(b, size)
  BY <1>1, <1>5, BytesFacts DEF IsCut
<1>7. /\ next \in Uncut
      /\ n > acc.left => next.left = 0 /\ BytesOf(next.out) = o \o Rest(c, acc.left)
      /\ n <= acc.left => next.left = acc.left - n /\ BytesOf(next.out) = o
  BY <1>1, <1>2, <1>6, CutOne
<1>8. /\ size >= N => acc.left = size - N
      /\ size <= N => acc.left = 0
  BY <1>2 DEF IsCut
<1>9. /\ size >= N + n => next.left = size - (N + n)
      /\ size <= N + n => next.left = 0
  BY <1>5, <1>7, <1>8
<1>10. BytesOf(next.out) = Rest(b \o c, size)
  <2>1. CASE size <= N
    <3>1. Rest(b \o c, size) = o \o c
      BY <1>3, <1>6, <2>1, PartedBefore
    <3>2. CASE n > 0
      <4>1. Rest(c, 0) = c
        <5>1. PICK f \in Nat : f = s.from
          BY SizeFacts
        <5>2. PICK m \in Nat : m = 0
          OBVIOUS
        <5>3. m \in 0 .. n /\ f + m = f /\ n - m = n
          BY <5>2
        <5>4. Rest(Source(f, n), m) = Source(f + m, n - m)
          BY <5>3, SourceParts
        <5> QED BY <1>1, <1>2, <5>1, <5>2, <5>3, <5>4 DEF BytesIn
      <4> QED BY <1>7, <1>8, <2>1, <3>1, <3>2, <4>1
    <3>3. CASE n = 0
      <4>1. c = <<>>
        BY <1>1, <1>2, <3>3, SizeFacts
      <4>2. o \o <<>> = o
        BY NothingJoined
      <4> QED BY <1>7, <1>8, <2>1, <3>1, <3>3, <4>1, <4>2
    <3> QED BY <3>2, <3>3
  <2>2. CASE size > N
    <3>1. o = <<>>
      BY <1>3, <1>6, <2>2, NothingLeft
    <3>2. PICK m \in Nat : m = acc.left /\ size = N + m
      BY <1>5, <1>8, <2>2
    <3>3. Rest(b \o c, size) = Rest(c, m)
      BY <1>3, <3>2, PartedBehind
    <3>4. CASE n > m
      <4>1. Rest(c, m) \in Seq(Nat)
        BY <1>3, <3>4, FirstAndRest
      <4>2. <<>> \o Rest(c, m) = Rest(c, m)
        BY <4>1, NothingJoined
      <4> QED BY <1>7, <3>1, <3>2, <3>3, <3>4, <4>2
    <3>5. CASE n <= m
      <4>1. Rest(c, m) = <<>>
        BY <1>3, <3>5, NothingLeft
      <4> QED BY <1>7, <3>1, <3>2, <3>3, <3>5, <4>1
    <3> QED BY <3>4, <3>5
  <2> QED BY <2>1, <2>2
<1> QED BY <1>4, <1>9, <1>10 DEF IsCut

(* The loop that cuts takes so many bytes off the front.                    *)
LEMMA CutFacts ==
  ASSUME NEW size \in Nat
  PROVE  \A ss \in Slices : Cut(ss, size) \in Slices /\ BytesOf(Cut(ss, size)) = Rest(BytesOf(ss), size)
<1>1. PICK step : step = [acc \in Uncut |-> [s \in SourceSlice |-> CutOff(acc, s)]]
  OBVIOUS
<1>2. PICK first : first = [out |-> <<>>, left |-> size]
  OBVIOUS
<1>3. \A acc \in Uncut, s \in SourceSlice : Taken(step, acc, s) = CutOff(acc, s)
  BY <1>1 DEF Taken
<1>4. LoopOf(Uncut, SourceSlice, step, first)
  <2>1. \A acc \in Uncut, s \in SourceSlice : CutOff(acc, s) \in Uncut
    BY CutOne
  <2>2. first \in Uncut
    BY <1>2 DEF Uncut
  <2> QED BY <1>1, <2>1, <2>2 DEF LoopOf
<1>5. /\ Loop(step, first, <<>>) = first
      /\ \A ss \in Slices : Loop(step, first, ss) \in Uncut
      /\ \A ss \in Slices, s \in SourceSlice :
           Loop(step, first, Append(ss, s)) = Taken(step, Loop(step, first, ss), s)
  BY <1>4, LoopFacts DEF Slices
<1> DEFINE P == {ss \in Slices : IsCut(Loop(step, first, ss), ss, size)}
<1>6. <<>> \in P
  <2>1. <<>> \in Slices /\ <<>> \in Seq(Nat) /\ Len(<<>>) = 0
    BY DEF Slices
  <2>2. Rest(<<>>, size) = <<>>
    <3>1. PICK none \in Seq(Nat) : none = <<>> /\ Len(none) = 0
      BY <2>1
    <3>2. size >= Len(none)
      BY <3>1
    <3>3. Rest(none, size) = <<>>
      BY <3>2, NothingLeft
    <3> QED BY <3>1, <3>3
  <2>3. first.left = size /\ first.out = <<>>
    BY <1>2
  <2> QED BY <1>5, <2>1, <2>2, <2>3, TotalFacts, BytesFacts DEF IsCut
<1>7. ASSUME NEW ss \in Slices, NEW s \in SourceSlice, ss \in P
      PROVE  Append(ss, s) \in P
  <2>1. Append(ss, s) \in Slices
    BY DEF Slices
  <2>2. PICK acc \in Uncut : acc = Loop(step, first, ss) /\ IsCut(acc, ss, size)
    BY <1>5, <1>7
  <2>3. Loop(step, first, Append(ss, s)) = CutOff(acc, s)
    BY <1>3, <1>5, <2>2
  <2> QED BY <2>1, <2>2, <2>3, CutNext
<1> HIDE DEF P
<1>8. Slices \subseteq P
  BY <1>6, <1>7, SeqSetInduction DEF Slices
<1>9. \A ss : Cut(ss, size) = Loop(step, first, ss).out
  BY <1>1, <1>2 DEF Cut
<1>10. ASSUME NEW ss \in Slices
       PROVE  Cut(ss, size) \in Slices /\ BytesOf(Cut(ss, size)) = Rest(BytesOf(ss), size)
  <2>1. IsCut(Loop(step, first, ss), ss, size) /\ Loop(step, first, ss).out \in Slices
    BY <1>5, <1>8 DEF P, Uncut, Slices
  <2> QED BY <1>9, <2>1 DEF IsCut
<1> QED BY <1>10

(* Slices none of which is empty.                                           *)
Filled(ss) == ss \in Slices /\ \A i \in DOMAIN ss : SizeOf(ss[i]) > 0

(* retain takes the empty slices away, and no bytes.                        *)
LEMMA NonEmptyFacts ==
  \A ss \in Slices : Filled(NonEmpty(ss)) /\ BytesOf(NonEmpty(ss)) = BytesOf(ss)
<1>1. PICK step : step = [kept \in Slices |-> [s \in SourceSlice |-> Retained(kept, s)]]
  OBVIOUS
<1>2. \A kept \in Slices, s \in SourceSlice : Taken(step, kept, s) = Retained(kept, s)
  BY <1>1 DEF Taken
<1>3. LoopOf(Slices, SourceSlice, step, <<>>)
  <2>1. \A kept \in Slices, s \in SourceSlice : Retained(kept, s) \in Slices
    BY DEF Retained, Slices
  <2>2. <<>> \in Slices
    BY DEF Slices
  <2> QED BY <1>1, <2>1, <2>2 DEF LoopOf
<1>4. /\ Loop(step, <<>>, <<>>) = <<>>
      /\ \A ss \in Slices : Loop(step, <<>>, ss) \in Slices
      /\ \A ss \in Slices, s \in SourceSlice :
           Loop(step, <<>>, Append(ss, s)) = Taken(step, Loop(step, <<>>, ss), s)
  BY <1>3, LoopFacts DEF Slices
<1>5. \A ss : NonEmpty(ss) = Loop(step, <<>>, ss)
  BY <1>1 DEF NonEmpty, Slices
<1> DEFINE P == {ss \in Slices : Filled(NonEmpty(ss)) /\ BytesOf(NonEmpty(ss)) = BytesOf(ss)}
<1>6. <<>> \in P
  <2>1. <<>> \in Slices /\ Filled(<<>>)
    BY DEF Slices, Filled
  <2> QED BY <1>4, <1>5, <2>1
<1>7. ASSUME NEW ss \in Slices, NEW s \in SourceSlice, ss \in P
      PROVE  Append(ss, s) \in P
  <2>1. Append(ss, s) \in Slices
    BY DEF Slices
  <2>2. PICK kept \in Slices : kept = NonEmpty(ss) /\ Filled(kept) /\ BytesOf(kept) = BytesOf(ss)
    BY <1>4, <1>5, <1>7
  <2>3. NonEmpty(Append(ss, s)) = Retained(kept, s)
    BY <1>2, <1>4, <1>5, <2>2
  <2>4. BytesOf(Append(ss, s)) = BytesOf(kept) \o BytesIn(s)
    BY <2>2, BytesFacts
  <2>5. CASE SizeOf(s) > 0
    <3>1. Retained(kept, s) = Append(kept, s) /\ Append(kept, s) \in Slices
      BY <2>5 DEF Retained, Slices
    <3>2. Filled(Append(kept, s))
      <4>1. PICK n \in Nat : n = Len(kept)
        BY DEF Slices
      <4>2. PICK more \in Slices : more = Append(kept, s)
        BY <3>1
      <4>3. DOMAIN more = 1 .. n + 1 /\ more[n + 1] = s /\ \A i \in 1 .. n : more[i] = kept[i]
        BY <4>1, <4>2 DEF Slices
      <4>4. \A i \in 1 .. n : SizeOf(kept[i]) > 0
        BY <2>2, <4>1 DEF Filled, Slices
      <4> QED BY <2>5, <4>1, <4>2, <4>3, <4>4 DEF Filled
    <3>3. BytesOf(Append(kept, s)) = BytesOf(kept) \o BytesIn(s)
      BY BytesFacts
    <3> QED BY <2>1, <2>3, <2>4, <3>1, <3>2, <3>3
  <2>6. CASE ~(SizeOf(s) > 0)
    <3>1. BytesIn(s) = <<>>
      BY <2>6, SizeFacts
    <3>2. BytesOf(kept) \o <<>> = BytesOf(kept)
      BY BytesFacts, NothingJoined
    <3>3. Retained(kept, s) = kept
      BY <2>6 DEF Retained
    <3> QED BY <2>1, <2>2, <2>3, <2>4, <3>1, <3>2, <3>3
  <2> QED BY <2>5, <2>6
<1> HIDE DEF P
<1>8. Slices \subseteq P
  BY <1>6, <1>7, SeqSetInduction DEF Slices
<1> QED BY <1>8 DEF P

(* Where the slices of a file start and end.                                *)
LEMMA Starts ==
  ASSUME NEW ss \in Slices, NEW i \in DOMAIN ss
  PROVE  /\ ss[i] \in SourceSlice /\ SizeOf(ss[i]) \in Nat
         /\ First(ss, i - 1) \in Slices /\ StartOf(ss, i) \in Nat
         /\ First(ss, i) \in Slices /\ First(ss, i) = Append(First(ss, i - 1), ss[i])
         /\ TotalSize(First(ss, i)) = StartOf(ss, i) + SizeOf(ss[i])
<1>1. PICK n \in Nat : n = Len(ss) /\ i \in 1 .. n /\ \A k \in 1 .. n : ss[k] \in SourceSlice
  BY DEF Slices
<1>2. PICK m \in Nat : m + 1 = i /\ i - 1 = m /\ m <= n
  BY <1>1
<1>3. PICK a \in Slices : a = First(ss, m)
  <2>1. ss \in Seq(SourceSlice) /\ m <= Len(ss)
    BY <1>1, <1>2 DEF Slices
  <2>2. First(ss, m) \in Slices
    BY <2>1, FirstAndRest DEF Slices
  <2> QED BY <2>2
<1>4. Len(a) = m /\ \A k \in 1 .. m : a[k] = ss[k]
  BY <1>1, <1>2, <1>3 DEF First, Slices
<1>5. PICK b : b = First(ss, i)
  OBVIOUS
<1>6. b \in Slices /\ Len(b) = m + 1 /\ \A k \in 1 .. m + 1 : b[k] = ss[k]
  BY <1>1, <1>2, <1>5 DEF First, Slices
<1>7. PICK s \in SourceSlice : s = ss[i]
  BY <1>1
<1>8. PICK c \in Slices : c = Append(a, s)
  <2>1. Append(a, s) \in Slices
    BY DEF Slices
  <2> QED BY <2>1
<1>9. Len(c) = m + 1 /\ c[m + 1] = s /\ \A k \in 1 .. m : c[k] = a[k]
  BY <1>4, <1>8 DEF Slices
<1>10. b = c
  <2>1. \A k \in 1 .. m + 1 : b[k] = c[k]
    BY <1>2, <1>4, <1>6, <1>7, <1>9
  <2>2. PICK l \in Nat : l = m + 1
    OBVIOUS
  <2>3. /\ b \in Seq(SourceSlice) /\ c \in Seq(SourceSlice) /\ Len(b) = l /\ Len(c) = l
        /\ \A k \in 1 .. l : b[k] = c[k]
    BY <1>6, <1>8, <1>9, <2>1, <2>2 DEF Slices
  <2> QED BY ONLY <2>2, <2>3, SameElements
<1>11. TotalSize(c) = TotalSize(a) + SizeOf(s)
  BY <1>4, <1>8, TotalFacts
<1>12. StartOf(ss, i) = TotalSize(a)
  BY <1>2, <1>3 DEF StartOf, First
<1>13. TotalSize(a) \in Nat
  BY <1>4, TotalFacts
<1> QED BY <1>2, <1>3, <1>4, <1>5, <1>6, <1>7, <1>8, <1>10, <1>11, <1>12, <1>13, SizeFacts

(* A slice starts where the one before it ends, the first one at 0; the     *)
(* last one ends where the file does.                                       *)
LEMMA StartsInARow ==
  ASSUME NEW ss \in Slices, NEW n \in Nat, n = Len(ss), n > 0
  PROVE  /\ StartOf(ss, 1) = 0
         /\ \A i \in 1 .. n : i > 1 => StartOf(ss, i) = StartOf(ss, i - 1) + SizeOf(ss[i - 1])
         /\ StartOf(ss, n) + SizeOf(ss[n]) = TotalSize(ss)
<1>1. DOMAIN ss = 1 .. n
  BY DEF Slices
<1>2. StartOf(ss, 1) = 0
  <2>1. First(ss, 0) = <<>>
    <3>1. PICK m \in Nat : m = 0
      OBVIOUS
    <3>2. ss \in Seq(SourceSlice) /\ m <= Len(ss)
      BY <3>1 DEF Slices
    <3>3. First(ss, m) \in Seq(SourceSlice) /\ Len(First(ss, m)) = m
      BY <3>2, FirstAndRest
    <3>4. PICK a \in Seq(SourceSlice) : a = First(ss, m) /\ Len(a) = 0
      BY <3>1, <3>3
    <3>5. a = <<>>
      BY <3>4
    <3> QED BY <3>1, <3>4, <3>5
  <2>2. PICK z : z = 1 - 1 /\ z = 0
    OBVIOUS
  <2>3. StartOf(ss, 1) = TotalSize(First(ss, z))
    BY <2>2 DEF StartOf, First
  <2> QED BY <2>1, <2>2, <2>3, TotalFacts
<1>3. ASSUME NEW i \in 1 .. n, i > 1
      PROVE  StartOf(ss, i) = StartOf(ss, i - 1) + SizeOf(ss[i - 1])
  <2>1. PICK j \in DOMAIN ss : j = i - 1
    BY <1>1, <1>3
  <2>2. TotalSize(First(ss, j)) = StartOf(ss, j) + SizeOf(ss[j])
    BY Starts
  <2> QED BY <2>1, <2>2 DEF StartOf, First
<1>4. StartOf(ss, n) + SizeOf(ss[n]) = TotalSize(ss)
  <2>1. PICK j \in DOMAIN ss : j = n
    BY <1>1
  <2>2. TotalSize(First(ss, j)) = StartOf(ss, j) + SizeOf(ss[j])
    BY Starts
  <2>3. First(ss, n) = ss
    <3>1. ss \in Seq(SourceSlice) /\ n <= Len(ss) /\ n >= Len(ss)
      BY DEF Slices
    <3>2. First(ss, n) \in Seq(SourceSlice) /\ First(ss, n) \o Rest(ss, n) = ss
      BY <3>1, FirstAndRest
    <3>3. Rest(ss, n) = <<>>
      BY <3>1, NothingLeft
    <3> QED BY <3>2, <3>3, NothingJoined
  <2> QED BY <2>1, <2>2, <2>3
<1> QED BY <1>2, <1>3, <1>4

(* The slice a write starts in holds the byte at its offset.                *)
LEMMA SliceAtFacts ==
  ASSUME NEW ss, Filled(ss), NEW offset \in Nat, offset < TotalSize(ss),
         NEW at, at = SliceAt(ss, offset)
  PROVE  /\ at \in DOMAIN ss /\ StartOf(ss, at) <= offset
         /\ offset < StartOf(ss, at) + SizeOf(ss[at])
<1>1. ss \in Slices /\ \A i \in DOMAIN ss : SizeOf(ss[i]) > 0
  BY DEF Filled
<1>2. PICK n \in Nat : n = Len(ss) /\ DOMAIN ss = 1 .. n
  BY <1>1 DEF Slices
<1>3. n > 0
  <2>1. n = 0 => ss = <<>>
    BY <1>1, <1>2 DEF Slices
  <2>2. n # 0
    BY <2>1, TotalFacts
  <2> QED BY <2>2
<1>4. /\ StartOf(ss, 1) = 0
      /\ \A i \in 1 .. n : i > 1 => StartOf(ss, i) = StartOf(ss, i - 1) + SizeOf(ss[i - 1])
      /\ StartOf(ss, n) + SizeOf(ss[n]) = TotalSize(ss)
  BY <1>1, <1>2, <1>3, StartsInARow
<1>5. \A i \in 1 .. n : StartOf(ss, i) \in Nat /\ SizeOf(ss[i]) \in Nat /\ SizeOf(ss[i]) > 0
  BY <1>1, <1>2, Starts
<1>6. PICK R : R = {i \in 1 .. n : Reaches(ss, i, offset)}
  OBVIOUS
<1>7. n \in R
  <2>1. StartOf(ss, n) + SizeOf(ss[n]) > offset
    <3>1. PICK end \in Nat : end = TotalSize(ss)
      BY <1>1, TotalFacts
    <3> QED BY <1>4, <3>1
  <2> QED BY <1>3, <1>6, <2>1 DEF Reaches
<1>8. PICK k \in R : \A j \in R : k <= j
  <2>1. R \subseteq Nat /\ R # {}
    BY <1>6, <1>7
  <2> QED BY <2>1, LeastNat
<1>9. k \in DOMAIN ss /\ Reaches(ss, k, offset) /\ \A j \in 1 .. k - 1 : ~Reaches(ss, j, offset)
  <2>1. ASSUME NEW j \in 1 .. k - 1
        PROVE  ~Reaches(ss, j, offset)
    <3>1. j \in 1 .. n /\ ~(k <= j)
      BY <1>2, <1>6, <1>8
    <3> QED BY <1>6, <1>8, <3>1
  <2> QED BY <1>2, <1>6, <1>8, <2>1
<1>10. /\ at \in DOMAIN ss /\ Reaches(ss, at, offset)
       /\ \A j \in 1 .. at - 1 : ~Reaches(ss, j, offset)
  BY <1>9 DEF SliceAt
<1>11. at \in 1 .. n
  BY <1>2, <1>10
<1>12. StartOf(ss, at) <= offset
  <2>1. CASE at = 1
    BY <1>4, <2>1
  <2>2. CASE at > 1
    <3>1. PICK j \in 1 .. n : j = at - 1 /\ j \in 1 .. at - 1
      BY <1>11, <2>2
    <3>2. ~(StartOf(ss, j) + SizeOf(ss[j]) > offset)
      BY <1>10, <3>1 DEF Reaches
    <3>3. StartOf(ss, at) = StartOf(ss, j) + SizeOf(ss[j])
      BY <1>4, <1>11, <2>2, <3>1
    <3> QED BY <1>5, <3>1, <3>2, <3>3
  <2> QED BY <1>11, <2>1, <2>2
<1>13. offset < StartOf(ss, at) + SizeOf(ss[at])
  BY <1>5, <1>10, <1>11 DEF Reaches
<1> QED BY <1>10, <1>12, <1>13

(* One slice.                                                               *)
LEMMA OneSlice ==
  ASSUME NEW s \in SourceSlice
  PROVE  /\ <<s>> \in Slices /\ BytesOf(<<s>>) = BytesIn(s)
         /\ \A ss \in Slices : ss \o <<s>> \in Slices /\ ss \o <<s>> = Append(ss, s)
<1>1. <<s>> \in Slices /\ <<>> \in Slices
  BY DEF Slices
<1>2. ASSUME NEW ss \in Slices
      PROVE  ss \o <<s>> \in Slices /\ ss \o <<s>> = Append(ss, s)
  <2>1. PICK a \in Slices : a = Append(ss, s)
    <3>1. Append(ss, s) \in Slices
      BY DEF Slices
    <3> QED BY <3>1
  <2>2. PICK b \in Slices : b = ss \o <<s>>
    <3>1. ss \o <<s>> \in Slices
      BY <1>1 DEF Slices
    <3> QED BY <3>1
  <2>3. PICK n \in Nat : n = Len(ss)
    BY DEF Slices
  <2>4. PICK l \in Nat : l = n + 1
    OBVIOUS
  <2>5. Len(a) = l /\ Len(b) = l
    BY <2>1, <2>2, <2>3, <2>4 DEF Slices
  <2>6. \A k \in 1 .. l : b[k] = a[k]
    BY <2>1, <2>2, <2>3, <2>4 DEF Slices
  <2>7. a \in Seq(SourceSlice) /\ b \in Seq(SourceSlice)
    BY DEF Slices
  <2> QED BY <2>1, <2>2, <2>5, <2>6, <2>7, SameElements
<1>3. BytesOf(<<s>>) = BytesIn(s)
  <2>1. <<>> \o <<s>> = Append(<<>>, s) /\ <<>> \o <<s>> = <<s>>
    BY <1>1, <1>2, NothingJoined DEF Slices
  <2>2. BytesOf(Append(<<>>, s)) = <<>> \o BytesIn(s)
    BY <1>1, BytesFacts
  <2>3. <<>> \o BytesIn(s) = BytesIn(s)
    BY SizeFacts, NothingJoined
  <2> QED BY <2>1, <2>2, <2>3
<1> QED BY <1>1, <1>2, <1>3

(* What a write puts between the slices before it and those behind.         *)
Between(front, src, size, back) ==
  NonEmpty(front \o << Slice(src, size) >> \o Cut(back, size))

LEMMA Inserted ==
  ASSUME NEW front \in Slices, NEW back \in Slices, NEW src \in Nat, NEW size \in Nat, size > 0
  PROVE  /\ Filled(Between(front, src, size, back))
         /\ BytesOf(Between(front, src, size, back)) = 
              (BytesOf(front) \o Source(src, size)) \o Rest(BytesOf(back), size)
<1>1. PICK s \in SourceSlice : s = Slice(src, size) /\ BytesIn(s) = Source(src, size)
  BY SliceFacts
<1>2. PICK cut \in Slices : cut = Cut(back, size) /\ BytesOf(cut) = Rest(BytesOf(back), size)
  BY CutFacts
<1>3. PICK most \in Slices : most = front \o <<s>> /\ most = Append(front, s)
  BY OneSlice
<1>4. BytesOf(most) = BytesOf(front) \o Source(src, size)
  BY <1>1, <1>3, BytesFacts
<1>5. PICK all \in Slices : all = most \o cut /\ BytesOf(all) = BytesOf(most) \o BytesOf(cut)
  <2>1. most \o cut \in Slices
    BY DEF Slices
  <2>2. BytesOf(most \o cut) = BytesOf(most) \o BytesOf(cut)
    BY BytesJoined
  <2> QED BY <2>1, <2>2
<1>6. Between(front, src, size, back) = NonEmpty(all)
  BY <1>1, <1>2, <1>3, <1>5 DEF Between
<1> QED BY <1>2, <1>4, <1>5, <1>6, NonEmptyFacts

(* Slices parted at an offset.                                              *)
PartedAt(ss, front, back, offset) ==
  /\ front \in Slices /\ back \in Slices
  /\ BytesOf(front) \o BytesOf(back) = BytesOf(ss) /\ TotalSize(front) = offset

(* Parting slices between two of them.                                      *)
LEMMA PartedBetween ==
  ASSUME NEW ss \in Slices, NEW at \in DOMAIN ss
  PROVE  PartedAt(ss, First(ss, at - 1), Rest(ss, at - 1), StartOf(ss, at))
<1>1. PICK m \in Nat : m = at - 1 /\ m <= Len(ss) /\ ss \in Seq(SourceSlice)
  BY DEF Slices
<1>2. PICK a \in Slices, b \in Slices : a = First(ss, m) /\ b = Rest(ss, m) /\ a \o b = ss
  <2>1. First(ss, m) \in Slices /\ Rest(ss, m) \in Slices /\ First(ss, m) \o Rest(ss, m) = ss
    BY <1>1, FirstAndRest DEF Slices
  <2> QED BY <2>1
<1>3. BytesOf(a \o b) = BytesOf(a) \o BytesOf(b)
  BY BytesJoined
<1>4. TotalSize(a) = StartOf(ss, at)
  BY <1>1, <1>2 DEF StartOf, First
<1> QED BY <1>1, <1>2, <1>3, <1>4 DEF PartedAt

(* A slice in two.                                                          *)
Kept(s, kept) == Slice(s.from, kept)

Remaining(s, kept) == [from |-> s.from + kept, to |-> s.to]

LEMMA HalvesOf ==
  ASSUME NEW s \in SourceSlice, NEW kept \in Nat, 0 < kept, kept < SizeOf(s)
  PROVE  /\ Kept(s, kept) \in SourceSlice /\ SizeOf(Kept(s, kept)) = kept
         /\ Remaining(s, kept) \in SourceSlice
         /\ BytesIn(s) = BytesIn(Kept(s, kept)) \o BytesIn(Remaining(s, kept))
<1> DEFINE a == Kept(s, kept)
           b == Remaining(s, kept)
<1>1. PICK f \in Nat, n \in Nat : f = s.from /\ n = SizeOf(s)
  BY SizeFacts
<1>2. kept \in 0 .. n /\ kept <= n /\ n = s.to - f + 1 /\ s.to \in Nat
  BY <1>1, SizeFacts
<1>3. a \in SourceSlice /\ SizeOf(a) = kept /\ BytesIn(a) = Source(f, kept)
  BY <1>1, SliceFacts DEF Kept
<1>4. b.from = f + kept /\ b.to = s.to /\ b \in SourceSlice
  BY <1>1, <1>2 DEF Remaining, SourceSlice
<1>5. SizeOf(b) = n - kept
  BY <1>1, <1>2, <1>4 DEF SizeOf
<1>6. BytesIn(b) = Source(f + kept, n - kept)
  BY <1>4, <1>5 DEF BytesIn
<1>7. PICK whole \in Seq(Nat) : whole = Source(f, n) /\ Len(whole) = n
  BY SourceParts
<1>8. First(whole, kept) = Source(f, kept) /\ Rest(whole, kept) = Source(f + kept, n - kept)
  BY <1>2, <1>7, SourceParts
<1>9. First(whole, kept) \o Rest(whole, kept) = whole
  BY <1>2, <1>7, FirstAndRest
<1>10. BytesIn(s) = whole
  BY <1>1, <1>7 DEF BytesIn
<1> QED BY <1>3, <1>4, <1>6, <1>8, <1>9, <1>10

(* The halves are as large as the slice.                                    *)
LEMMA SplitAsserted ==
  ASSUME NEW ss, Filled(ss), NEW offset \in Nat, offset < TotalSize(ss)
  PROVE  SplitAssert(ss, offset)
<1>1. ss \in Slices
  BY DEF Filled
<1>2. PICK i \in DOMAIN ss : i = SliceAt(ss, offset)
  BY SliceAtFacts
<1>3. PICK start \in Nat, s \in SourceSlice : start = StartOf(ss, i) /\ s = ss[i]
  BY <1>1, Starts
<1>4. start <= offset /\ offset < start + SizeOf(s)
  BY <1>2, <1>3, SliceAtFacts
<1>5. PICK kept \in Nat : kept = offset - start /\ kept < SizeOf(s)
  BY <1>4, SizeFacts
<1>6. CASE kept > 0
  <2>1. PICK a \in SourceSlice, b \in SourceSlice : a = Kept(s, kept) /\ b = Remaining(s, kept)
    BY <1>5, <1>6, HalvesOf
  <2>2. SizeOf(a) = kept /\ BytesIn(s) = BytesIn(a) \o BytesIn(b)
    BY <1>5, <1>6, <2>1, HalvesOf
  <2>3. SizeOf(s) = SizeOf(a) + SizeOf(b)
    <3>1. PICK x \in Seq(Nat), y \in Seq(Nat) : x = BytesIn(a) /\ y = BytesIn(b)
      BY SizeFacts
    <3>2. Len(x \o y) = Len(x) + Len(y)
      OBVIOUS
    <3> QED BY <2>2, <3>1, <3>2, SizeFacts
  <2>4. PICK one \in Slices, two \in Slices : one = <<a>> /\ two = Append(one, b)
    <3>1. <<a>> \in Slices /\ Append(<<a>>, b) \in Slices
      BY OneSlice DEF Slices
    <3> QED BY <3>1
  <2>5. TotalSize(one) = SizeOf(a)
    BY <2>4, OneSlice, SizeIsLength, SizeFacts
  <2>6. TotalSize(two) = SizeOf(a) + SizeOf(b)
    BY <2>4, <2>5, TotalFacts
  <2>7. Halves(s, kept) = two
    BY <2>1, <2>4 DEF Halves, Kept, Remaining
  <2> QED BY <1>2, <1>3, <1>5, <2>3, <2>6, <2>7 DEF SplitAssert
<1>7. CASE kept = 0
  BY <1>2, <1>3, <1>5, <1>7 DEF SplitAssert
<1> QED BY <1>6, <1>7

(* Parting slices within one of them.                                       *)
LEMMA PartedWithin ==
  ASSUME NEW ss \in Slices, NEW at \in DOMAIN ss, NEW kept \in Nat,
         0 < kept, kept < SizeOf(ss[at]),
         NEW parts, parts = Split(ss, at, kept)
  PROVE  PartedAt(ss, First(parts, at), Rest(parts, at), StartOf(ss, at) + kept)
<1>1. PICK n \in Nat : n = Len(ss) /\ at \in 1 .. n /\ ss \in Seq(SourceSlice)
  BY DEF Slices
<1>2. PICK m \in Nat : m = at - 1 /\ m <= n
  BY <1>1
<1>3. PICK s \in SourceSlice : s = ss[at] /\ kept < SizeOf(s)
  BY Starts
<1>4. PICK a, b : a = Kept(s, kept) /\ b = Remaining(s, kept)
  OBVIOUS
<1>5. /\ a \in SourceSlice /\ SizeOf(a) = kept /\ b \in SourceSlice
      /\ BytesIn(s) = BytesIn(a) \o BytesIn(b)
  <2>1. kept \in Nat /\ 0 < kept /\ kept < SizeOf(s)
    BY <1>3
  <2> QED BY ONLY s \in SourceSlice, <1>4, <2>1, HalvesOf
<1>6. PICK p \in Slices : p = First(ss, m) /\ Len(p) = m
  <2>1. First(ss, m) \in Slices /\ Len(First(ss, m)) = m
    BY <1>1, <1>2, FirstAndRest DEF Slices
  <2> QED BY <2>1
<1>7. PICK q \in Slices : q = Rest(ss, at) /\ First(ss, at) \o q = ss
  <2>1. at \in Nat /\ at <= Len(ss)
    BY <1>1
  <2>2. Rest(ss, at) \in Slices /\ First(ss, at) \o Rest(ss, at) = ss
    BY <1>1, <2>1, FirstAndRest DEF Slices
  <2> QED BY <2>2
<1>8. PICK front \in Slices : front = p \o <<a>> /\ front = Append(p, a) /\ Len(front) = at
  <2>1. p \o <<a>> \in Slices /\ p \o <<a>> = Append(p, a)
    BY <1>5, OneSlice
  <2>2. Len(Append(p, a)) = at
    BY <1>1, <1>2, <1>6 DEF Slices
  <2> QED BY <2>1, <2>2
<1>9. PICK one \in Slices : one = <<b>> /\ BytesOf(one) = BytesIn(b)
  BY <1>5, OneSlice
<1>10. PICK back \in Slices : back = one \o q
  <2>1. one \o q \in Slices
    BY DEF Slices
  <2> QED BY <2>1
<1>11. parts = front \o back
  <2>1. PICK two \in Slices : two = <<a>> /\ two \o one = Append(two, b)
    BY <1>5, <1>9, OneSlice
  <2>2. << a, b >> = two \o one
    BY <1>5, <2>1 DEF Slices
  <2>3. parts = (p \o (two \o one)) \o q
    <3>1. parts = (p \o << a, b >>) \o q
      BY <1>2, <1>3, <1>4, <1>6, <1>7 DEF Split, Halves, Kept, Remaining, First, Rest
    <3> QED BY <2>2, <3>1
  <2>4. /\ p \in Seq(SourceSlice) /\ two \in Seq(SourceSlice) /\ one \in Seq(SourceSlice)
        /\ front \in Seq(SourceSlice) /\ q \in Seq(SourceSlice)
    BY DEF Slices
  <2>5. (p \o two) \o one = p \o (two \o one)
    <3>1. p \in Seq(SourceSlice) /\ two \in Seq(SourceSlice) /\ one \in Seq(SourceSlice)
      BY <2>4
    <3>2. InARow(p, two, one)
      BY ONLY <3>1, JoinedInARow
    <3> QED BY <3>2 DEF InARow
  <2>6. (front \o one) \o q = front \o (one \o q)
    <3>1. front \in Seq(SourceSlice) /\ one \in Seq(SourceSlice) /\ q \in Seq(SourceSlice)
      BY <2>4
    <3>2. InARow(front, one, q)
      BY ONLY <3>1, JoinedInARow
    <3> QED BY <3>2 DEF InARow
  <2> QED BY <1>8, <1>10, <2>1, <2>3, <2>5, <2>6
<1>12. First(parts, at) = front /\ Rest(parts, at) = back
  <2>1. front \in Seq(SourceSlice) /\ back \in Seq(SourceSlice) /\ at = Len(front)
    BY <1>8 DEF Slices
  <2> QED BY ONLY <1>11, <2>1, Parted
<1>13. TotalSize(front) = StartOf(ss, at) + kept
  <2>1. TotalSize(p) = StartOf(ss, at)
    BY <1>2, <1>6 DEF StartOf, First
  <2> QED BY <1>5, <1>8, <2>1, TotalFacts
<1>14. BytesOf(front) \o BytesOf(back) = BytesOf(ss)
  <2>1. PICK x, y, z, w \in Seq(Nat) :
          x = BytesOf(p) /\ y = BytesIn(a) /\ z = BytesIn(b) /\ w = BytesOf(q)
    BY <1>5, BytesFacts, SizeFacts
  <2>2. BytesOf(front) = x \o y
    BY <1>5, <1>8, <2>1, BytesFacts
  <2>3. BytesOf(back) = z \o w
    BY <1>9, <1>10, <2>1, BytesJoined
  <2>4. BytesOf(ss) = (x \o (y \o z)) \o w
    <3>1. First(ss, at) \in Slices /\ First(ss, at) = Append(p, s)
      BY <1>2, <1>3, <1>6, Starts
    <3>2. BytesOf(First(ss, at)) = x \o (y \o z)
      BY <1>3, <1>5, <2>1, <3>1, BytesFacts
    <3>3. BytesOf(ss) = BytesOf(First(ss, at)) \o BytesOf(q)
      BY <1>7, <3>1, BytesJoined
    <3> QED BY <2>1, <3>2, <3>3
  <2>5. (x \o (y \o z)) \o w = (x \o y) \o (z \o w)
    <3>1. PICK v \in Seq(Nat) : v = x \o y
      <4>1. x \o y \in Seq(Nat)
        OBVIOUS
      <4> QED BY <4>1
    <3>2. (x \o y) \o z = x \o (y \o z)
      <4>1. InARow(x, y, z)
        BY ONLY x \in Seq(Nat), y \in Seq(Nat), z \in Seq(Nat), JoinedInARow
      <4> QED BY <4>1 DEF InARow
    <3>3. (v \o z) \o w = v \o (z \o w)
      <4>1. InARow(v, z, w)
        BY ONLY v \in Seq(Nat), z \in Seq(Nat), w \in Seq(Nat), JoinedInARow
      <4> QED BY <4>1 DEF InARow
    <3> QED BY <3>1, <3>2, <3>3
  <2> QED BY <2>2, <2>3, <2>4, <2>5
<1> QED BY <1>12, <1>13, <1>14 DEF PartedAt

(* A write within the file, byte for byte.                                  *)
LEMMA OverwriteFacts ==
  ASSUME NEW ss, Filled(ss), NEW src \in Nat, NEW offset \in Nat, offset < TotalSize(ss),
         NEW size \in Nat, size > 0
  PROVE  /\ Filled(Overwrite(ss, src, offset, size))
         /\ BytesOf(Overwrite(ss, src, offset, size)) =
              (First(BytesOf(ss), offset) \o Source(src, size)) \o Rest(BytesOf(ss), offset + size)
<1>0. PICK new : new = Overwrite(ss, src, offset, size)
  OBVIOUS
<1>1. ss \in Slices
  BY DEF Filled
<1>2. PICK i \in DOMAIN ss : i = SliceAt(ss, offset)
  BY SliceAtFacts
<1>3. PICK start \in Nat : start = StartOf(ss, i)
  BY <1>1, Starts
<1>4. start <= offset /\ offset < start + SizeOf(ss[i])
  BY <1>2, <1>3, SliceAtFacts
<1>5. PICK front, back :
        PartedAt(ss, front, back, offset) /\ new = Between(front, src, size, back)
  <2>1. CASE start = offset
    <3>1. PartedAt(ss, First(ss, i - 1), Rest(ss, i - 1), offset)
      BY <1>1, <1>3, <2>1, PartedBetween
    <3>2. i - 1 + 1 = i
      BY <1>1 DEF Slices
    <3>3. new = Between(First(ss, i - 1), src, size, Rest(ss, i - 1))
      BY <1>0, <1>2, <1>3, <2>1, <3>2 DEF Overwrite, Between, First, Rest
    <3> QED BY <3>1, <3>3
  <2>2. CASE start # offset
    <3>1. PICK kept \in Nat : kept = offset - start /\ 0 < kept /\ kept < SizeOf(ss[i])
      BY <1>1, <1>4, <2>2, Starts
    <3>2. PICK parts : parts = Split(ss, i, kept)
      OBVIOUS
    <3>3. start + kept = offset
      BY <3>1
    <3>4. PartedAt(ss, First(parts, i), Rest(parts, i), offset)
      BY <1>1, <1>3, <3>1, <3>2, <3>3, PartedWithin
    <3>5. new = Between(First(parts, i), src, size, Rest(parts, i))
      <4>1. PICK at : at = i + 1
        OBVIOUS
      <4>2. parts = Split(ss, i, offset - start)
        BY <3>1, <3>2
      <4>3. new = Between(SubSeq(parts, 1, at - 1), src, size, SubSeq(parts, at, Len(parts)))
        BY <1>0, <1>2, <1>3, <2>2, <4>1, <4>2 DEF Overwrite, Between
      <4>4. at - 1 = i
        BY <1>1, <4>1 DEF Slices
      <4> QED BY <4>1, <4>3, <4>4 DEF First, Rest
    <3> QED BY <3>4, <3>5
  <2> QED BY <2>1, <2>2
<1>6. front \in Slices /\ back \in Slices /\ TotalSize(front) = offset
  BY <1>5 DEF PartedAt
<1>7. PICK f, b \in Seq(Nat) : f = BytesOf(front) /\ b = BytesOf(back) /\ f \o b = BytesOf(ss)
  BY <1>5, <1>6, BytesFacts DEF PartedAt
<1>8. Len(f) = offset
  BY <1>6, <1>7, SizeIsLength
<1>9. Filled(new) /\ BytesOf(new) = (f \o Source(src, size)) \o Rest(b, size)
  <2>1. /\ Filled(Between(front, src, size, back))
        /\ BytesOf(Between(front, src, size, back)) =
             (BytesOf(front) \o Source(src, size)) \o Rest(BytesOf(back), size)
    BY <1>6, Inserted
  <2> QED BY <1>5, <1>7, <2>1
<1>10. First(f \o b, offset) = f
  BY <1>8, Parted
<1>11. Rest(f \o b, offset + size) = Rest(b, size)
  <2>1. PICK n \in Nat : n = offset + size /\ n = Len(f) + size
    BY <1>8
  <2>2. f \in Seq(Nat) /\ b \in Seq(Nat) /\ size \in Nat
    OBVIOUS
  <2>3. Rest(f \o b, n) = Rest(b, size)
    BY ONLY n \in Nat, <2>1, <2>2, PartedBehind
  <2> QED BY <2>1, <2>3
<1> QED BY <1>0, <1>7, <1>9, <1>10, <1>11

(***************************************************************************)
(* A read.                                                                  *)
(***************************************************************************)
(* The bytes that have been read, and how many; before the first one, where *)
(* the next slice starts.                                                   *)
HasRead(acc, ss, offset, size) ==
  /\ TotalSize(ss) > offset
  /\ acc.read_size <= TotalSize(ss) - offset /\ acc.read_size <= size
  /\ acc.read_size = size \/ acc.read_size = TotalSize(ss) - offset
  /\ BytesOf(acc.content) = First(Rest(BytesOf(ss), offset), acc.read_size)

HasFound(acc, ss, offset) ==
  /\ TotalSize(ss) <= offset /\ acc.current = TotalSize(ss)
  /\ acc.content = <<>> /\ acc.read_size = 0

IsRead(acc, ss, offset, size) ==
  /\ acc \in Reading(offset)
  /\ acc.reading => HasRead(acc, ss, offset, size)
  /\ ~acc.reading => HasFound(acc, ss, offset)

(* An iteration once the first byte has been read.                          *)
LEMMA ReadOn ==
  ASSUME NEW offset \in Nat, NEW size \in Nat, NEW acc \in Reading(offset),
         NEW ss \in Slices, NEW s \in SourceSlice,
         acc.reading, HasRead(acc, ss, offset, size)
  PROVE  /\ ReadStep(acc, s, offset, size) \in Reading(offset)
         /\ ReadStep(acc, s, offset, size).reading
         /\ HasRead(ReadStep(acc, s, offset, size), Append(ss, s), offset, size)
<1>1. PICK b \in Seq(Nat), c \in Seq(Nat) : b = BytesOf(ss) /\ c = BytesIn(s)
  BY BytesFacts, SizeFacts
<1>2. PICK N \in Nat, n \in Nat : N = TotalSize(ss) /\ n = SizeOf(s)
  BY TotalFacts, SizeFacts
<1>3. N = Len(b) /\ n = Len(c)
  BY <1>1, <1>2, SizeIsLength, SizeFacts
<1>4. TotalSize(Append(ss, s)) = N + n /\ BytesOf(Append(ss, s)) = b \o c
  BY <1>1, <1>2, TotalFacts, BytesFacts
<1>5. PICK read \in Nat, content \in Slices : read = acc.read_size /\ content = acc.content
  BY DEF Reading, Slices
<1>6. PICK R \in Seq(Nat) : R = Rest(b, offset) /\ Len(R) = N - offset
  <2>1. offset <= Len(b)
    BY <1>2, <1>3 DEF HasRead
  <2> QED BY <1>3, <2>1, FirstAndRest
<1>7. PICK l \in Nat : l = N - offset /\ l = Len(R)
  BY <1>2, <1>6 DEF HasRead
<1>8. /\ N > offset /\ read <= l /\ read <= size /\ (read = size \/ read = l)
      /\ BytesOf(content) = First(R, read)
  BY <1>1, <1>2, <1>5, <1>6, <1>7 DEF HasRead
<1>9. Rest(b \o c, offset) = R \o c
  <2>1. offset <= Len(b)
    BY <1>3, <1>8
  <2> QED BY <1>6, <2>1, PartedBefore
<1>10. PICK next : next = ReadStep(acc, s, offset, size)
  OBVIOUS
<1>11. CASE read >= size
  <2>1. next = [acc EXCEPT !.end_of_file = FALSE]
    BY <1>5, <1>10, <1>11 DEF ReadStep
  <2>2. next \in Reading(offset) /\ next.reading /\ next.read_size = read /\ next.content = content
    BY <1>5, <2>1 DEF Reading
  <2>3. First(R \o c, read) = First(R, read)
    <3>1. read <= Len(R)
      BY <1>7, <1>8
    <3> QED BY <3>1, PartedBefore
  <2>4. N + n > offset /\ read <= N + n - offset /\ read <= size /\ read = size
    BY <1>7, <1>8, <1>11
  <2> QED BY <1>4, <1>8, <1>9, <1>10, <2>2, <2>3, <2>4 DEF HasRead
<1>12. CASE read < size
  <2>1. PICK rest \in Nat : rest = size - read
    BY <1>12
  <2>2. PICK k \in Nat : /\ k = (IF n > rest THEN rest ELSE n)
                         /\ k <= n /\ k <= rest /\ (k = n \/ k = rest)
    <3>1. CASE n > rest
      <4>1. rest = (IF n > rest THEN rest ELSE n) /\ rest <= n /\ rest <= rest
        BY <3>1
      <4> QED BY <4>1
    <3>2. CASE n <= rest
      <4>1. n = (IF n > rest THEN rest ELSE n) /\ n <= n
        BY <3>2
      <4> QED BY <3>2, <4>1
    <3> QED BY <3>1, <3>2
  <2>3. next = [acc EXCEPT !.content = WriteBack(@, s.from, k), !.read_size = @ + k]
    BY <1>2, <1>5, <1>10, <1>12, <2>1, <2>2 DEF ReadStep
  <2>4. PICK f \in Nat : f = s.from
    BY SizeFacts
  <2>5. PICK more \in Slices : /\ more = WriteBack(content, f, k)
                               /\ BytesOf(more) = BytesOf(content) \o Source(f, k)
    BY BackWritten
  <2>6. next \in Reading(offset) /\ next.reading /\ next.read_size = read + k /\ next.content = more
    <3>1. next = [acc EXCEPT !.content = more, !.read_size = read + k]
      BY <1>5, <2>3, <2>4, <2>5
    <3>2. more \in Seq(SourceSlice) /\ read + k \in Nat
      BY DEF Slices
    <3> QED BY <3>1, <3>2 DEF Reading
  <2>7. read = l
    BY <1>8, <1>12
  <2>8. BytesOf(content) = R
    <3>1. First(R, l) = R
      <4>1. l <= Len(R) /\ l >= Len(R)
        BY <1>7
      <4>2. First(R, l) \in Seq(Nat) /\ First(R, l) \o Rest(R, l) = R /\ Rest(R, l) = <<>>
        BY <4>1, FirstAndRest, NothingLeft
      <4> QED BY <4>2, NothingJoined
    <3> QED BY <1>8, <2>7, <3>1
  <2>9. Source(f, k) = First(c, k)
    <3>1. c = Source(f, n) /\ k \in 0 .. n
      BY <1>1, <1>2, <2>2, <2>4 DEF BytesIn
    <3> QED BY <3>1, SourceParts
  <2>10. First(R \o c, read + k) = R \o First(c, k)
    <3>1. PICK m \in Nat : m = read + k
      OBVIOUS
    <3>2. m = Len(R) + k /\ k <= Len(c)
      BY <1>3, <1>7, <2>2, <2>7, <3>1
    <3>3. First(R \o c, m) = R \o First(c, k)
      BY <3>2, PartedBehind
    <3> QED BY <3>1, <3>3
  <2>11. /\ N + n > offset /\ read + k <= N + n - offset /\ read + k <= size
         /\ read + k = size \/ read + k = N + n - offset
    <3>1. /\ N > offset /\ read = N - offset /\ k <= n /\ k <= size - read
          /\ (k = n \/ k = size - read)
      BY <1>7, <1>8, <2>1, <2>2, <2>7
    <3> QED BY ONLY <3>1, N \in Nat, n \in Nat, k \in Nat, read \in Nat, size \in Nat,
                    offset \in Nat
  <2>12. PICK m \in Nat : m = read + k
    OBVIOUS
  <2>13. PICK total : total = TotalSize(Append(ss, s)) /\ total = N + n
    BY <1>4
  <2>14. BytesOf(next.content) = First(Rest(BytesOf(Append(ss, s)), offset), m)
    BY <1>4, <1>9, <2>5, <2>6, <2>8, <2>9, <2>10, <2>12
  <2>15. /\ total > offset /\ m <= total - offset /\ m <= size
         /\ (m = size \/ m = total - offset)
    BY <2>11, <2>12, <2>13
  <2>16. next.read_size = m
    BY <2>6, <2>12
  <2>17. HasRead(next, Append(ss, s), offset, size)
    BY ONLY <2>13, <2>14, <2>15, <2>16 DEF HasRead
  <2> QED BY <1>10, <2>6, <2>17
<1> QED BY <1>11, <1>12

(* An iteration before that.                                                *)
LEMMA SearchOn ==
  ASSUME NEW offset \in Nat, NEW size \in Nat, NEW acc \in Reading(offset),
         NEW ss \in Slices, NEW s \in SourceSlice,
         ~acc.reading, HasFound(acc, ss, offset)
  PROVE  IsRead(ReadStep(acc, s, offset, size), Append(ss, s), offset, size)
<1>1. PICK b \in Seq(Nat), c \in Seq(Nat) : b = BytesOf(ss) /\ c = BytesIn(s)
  BY BytesFacts, SizeFacts
<1>2. PICK N \in Nat, n \in Nat : N = TotalSize(ss) /\ n = SizeOf(s)
  BY TotalFacts, SizeFacts
<1>3. N = Len(b) /\ n = Len(c)
  BY <1>1, <1>2, SizeIsLength, SizeFacts
<1>4. TotalSize(Append(ss, s)) = N + n /\ BytesOf(Append(ss, s)) = b \o c
  BY <1>1, <1>2, TotalFacts, BytesFacts
<1>5. N <= offset /\ acc.current = N /\ acc.content = <<>> /\ acc.read_size = 0
  BY <1>2 DEF HasFound
<1>6. PICK next : next = ReadStep(acc, s, offset, size)
  OBVIOUS
<1>7. CASE N + n <= offset
  <2>1. next = [acc EXCEPT !.current = @ + n]
    BY <1>2, <1>5, <1>6, <1>7 DEF ReadStep
  <2>2. /\ next \in Reading(offset) /\ ~next.reading /\ next.current = N + n
        /\ next.content = <<>> /\ next.read_size = 0
    <3>1. next = [acc EXCEPT !.current = N + n] /\ N + n \in Nat
      BY <1>5, <2>1
    <3> QED BY <1>5, <1>7, <3>1 DEF Reading
  <2> QED BY <1>4, <1>6, <1>7, <2>2 DEF IsRead, HasFound
<1>8. CASE N + n > offset
  <2>1. PICK skip \in Nat : skip = offset - N /\ skip <= n
    BY <1>5, <1>8
  <2>2. PICK rest \in Nat : rest = n - skip
    BY <2>1
  <2>3. PICK k \in Nat : /\ k = (IF rest > size THEN size ELSE rest)
                         /\ k <= rest /\ k <= size /\ (k = rest \/ k = size)
    <3>1. CASE rest > size
      <4>1. size = (IF rest > size THEN size ELSE rest) /\ size <= rest /\ size <= size
        BY <3>1
      <4> QED BY <4>1
    <3>2. CASE rest <= size
      <4>1. rest = (IF rest > size THEN size ELSE rest) /\ rest <= rest
        BY <3>2
      <4> QED BY <3>2, <4>1
    <3> QED BY <3>1, <3>2
  <2>4. PICK f \in Nat : f = s.from
    BY SizeFacts
  <2>5. PICK g \in Nat : g = f + skip
    OBVIOUS
  <2>6. next = [acc EXCEPT !.reading = TRUE, !.read_size = k,
                           !.content = WriteBack(@, g, k)]
    BY <1>2, <1>5, <1>6, <1>8, <2>1, <2>2, <2>3, <2>4, <2>5 DEF ReadStep
  <2>7. PICK none \in Slices : none = <<>> /\ BytesOf(none) = <<>>
    <3>1. <<>> \in Slices
      BY DEF Slices
    <3> QED BY <3>1, BytesFacts
  <2>8. PICK more \in Slices : /\ more = WriteBack(none, g, k)
                               /\ BytesOf(more) = <<>> \o Source(g, k)
    <3>1. /\ WriteBack(none, g, k) \in Slices
          /\ BytesOf(WriteBack(none, g, k)) = BytesOf(none) \o Source(g, k)
      BY BackWritten
    <3> QED BY <2>7, <3>1
  <2>9. next \in Reading(offset) /\ next.reading /\ next.read_size = k /\ next.content = more
    BY <1>5, <2>6, <2>7, <2>8 DEF Reading, Slices
  <2>10. BytesOf(more) = Source(g, k)
    <3>1. Source(g, k) \in Seq(Nat)
      BY SourceParts
    <3> QED BY <2>8, <3>1, NothingJoined
  <2>11. Rest(b \o c, offset) = Source(g, rest)
    <3>1. offset = Len(b) + skip
      BY <1>3, <1>5, <2>1
    <3>2. Rest(b \o c, offset) = Rest(c, skip)
      BY <3>1, PartedBehind
    <3>3. c = Source(f, n) /\ skip \in 0 .. n
      BY <1>1, <1>2, <2>1, <2>4 DEF BytesIn
    <3>4. Rest(c, skip) = Source(f + skip, n - skip)
      BY <3>3, SourceParts
    <3> QED BY <2>2, <2>5, <3>2, <3>4
  <2>12. First(Source(g, rest), k) = Source(g, k)
    <3>1. k \in 0 .. rest
      BY <2>3
    <3> QED BY <3>1, SourceParts
  <2>13. k <= N + n - offset /\ k <= size /\ (k = size \/ k = N + n - offset)
    BY <1>5, <2>1, <2>2, <2>3
  <2>14. HasRead(next, Append(ss, s), offset, size)
    BY <1>4, <1>8, <2>9, <2>10, <2>11, <2>12, <2>13 DEF HasRead
  <2> QED BY <1>6, <2>9, <2>14 DEF IsRead
<1> QED BY <1>7, <1>8

(* No iteration computes anything that is not a natural number.             *)
LEMMA ReadsOn ==
  ASSUME NEW offset \in Nat, NEW size \in Nat, NEW acc \in Reading(offset),
         NEW s \in SourceSlice
  PROVE  ReadStep(acc, s, offset, size) \in Reading(offset)
<1>1. PICK n \in Nat, f \in Nat : n = SizeOf(s) /\ f = s.from
  BY SizeFacts
<1>2. PICK read \in Nat, current \in Nat, content \in Slices :
        read = acc.read_size /\ current = acc.current /\ content = acc.content
  BY DEF Reading, Slices
<1>3. PICK next : next = ReadStep(acc, s, offset, size)
  OBVIOUS
<1>4. ASSUME NEW from \in Nat, NEW k \in Nat
      PROVE  WriteBack(content, from, k) \in Seq(SourceSlice)
  BY BackWritten DEF Slices
<1>5. CASE acc.reading /\ read >= size
  <2>1. next = [acc EXCEPT !.end_of_file = FALSE]
    BY <1>2, <1>3, <1>5 DEF ReadStep
  <2> QED BY <1>3, <2>1 DEF Reading
<1>6. CASE acc.reading /\ read < size
  <2>1. PICK rest \in Nat : rest = size - read
    BY <1>6
  <2>2. PICK k \in Nat : k = (IF n > rest THEN rest ELSE n)
    OBVIOUS
  <2>3. PICK more \in Seq(SourceSlice) : more = WriteBack(content, f, k)
    BY <1>4
  <2>4. next = [acc EXCEPT !.content = more, !.read_size = read + k]
    BY <1>1, <1>2, <1>3, <1>6, <2>1, <2>2, <2>3 DEF ReadStep
  <2>5. read + k \in Nat
    OBVIOUS
  <2> QED BY <1>3, <1>6, <2>4, <2>5 DEF Reading
<1>7. CASE ~acc.reading /\ current + n > offset
  <2>1. current <= offset
    BY <1>2, <1>7 DEF Reading
  <2>2. PICK skip \in Nat : skip = offset - current /\ skip <= n
    BY <1>7, <2>1
  <2>3. PICK rest \in Nat : rest = n - skip
    BY <2>2
  <2>4. PICK k \in Nat : k = (IF rest > size THEN size ELSE rest)
    OBVIOUS
  <2>5. PICK g \in Nat : g = f + skip
    OBVIOUS
  <2>6. PICK more \in Seq(SourceSlice) : more = WriteBack(content, g, k)
    BY <1>4
  <2>7. next = [acc EXCEPT !.reading = TRUE, !.read_size = k, !.content = more]
    BY <1>1, <1>2, <1>3, <1>7, <2>2, <2>3, <2>4, <2>5, <2>6 DEF ReadStep
  <2> QED BY <1>3, <2>7 DEF Reading
<1>8. CASE ~acc.reading /\ current + n <= offset
  <2>1. next = [acc EXCEPT !.current = current + n]
    BY <1>1, <1>2, <1>3, <1>8 DEF ReadStep
  <2> QED BY <1>3, <1>8, <2>1 DEF Reading
<1> QED BY <1>5, <1>6, <1>7, <1>8

(* The loop of a read.                                                      *)
LEMMA ReadLoop ==
  ASSUME NEW offset \in Nat, NEW size \in Nat
  PROVE  \A ss \in Slices : IsRead(ReadSlices(ss, offset, size), ss, offset, size)
<1>1. PICK step :
        step = [acc \in Reading(offset) |-> [s \in SourceSlice |-> ReadStep(acc, s, offset, size)]]
  OBVIOUS
<1>2. \A acc \in Reading(offset), s \in SourceSlice :
        Taken(step, acc, s) = ReadStep(acc, s, offset, size)
  BY <1>1 DEF Taken
<1>3. NothingRead \in Reading(offset)
  <2>1. <<>> \in Seq(SourceSlice)
    OBVIOUS
  <2> QED BY <2>1 DEF NothingRead, Reading
<1>4. LoopOf(Reading(offset), SourceSlice, step, NothingRead)
  <2>1. \A acc \in Reading(offset), s \in SourceSlice :
          ReadStep(acc, s, offset, size) \in Reading(offset)
    BY ReadsOn
  <2> QED BY <1>1, <1>3, <2>1 DEF LoopOf
<1>5. /\ Loop(step, NothingRead, <<>>) = NothingRead
      /\ \A ss \in Slices : Loop(step, NothingRead, ss) \in Reading(offset)
      /\ \A ss \in Slices, s \in SourceSlice :
           Loop(step, NothingRead, Append(ss, s)) = Taken(step, Loop(step, NothingRead, ss), s)
  BY <1>4, LoopFacts DEF Slices
<1>6. \A ss : ReadSlices(ss, offset, size) = Loop(step, NothingRead, ss)
  BY <1>1 DEF ReadSlices
<1> DEFINE P == {ss \in Slices : IsRead(ReadSlices(ss, offset, size), ss, offset, size)}
<1>7. <<>> \in P
  <2>1. <<>> \in Slices
    BY DEF Slices
  <2>2. IsRead(NothingRead, <<>>, offset, size)
    <3>1. /\ ~NothingRead.reading /\ NothingRead.current = 0 /\ NothingRead.content = <<>>
          /\ NothingRead.read_size = 0
      BY DEF NothingRead
    <3> QED BY <1>3, <3>1, TotalFacts DEF IsRead, HasFound
  <2> QED BY <1>5, <1>6, <2>1, <2>2
<1>8. ASSUME NEW ss \in Slices, NEW s \in SourceSlice, ss \in P
      PROVE  Append(ss, s) \in P
  <2>1. Append(ss, s) \in Slices
    BY DEF Slices
  <2>2. PICK acc \in Reading(offset) :
          acc = ReadSlices(ss, offset, size) /\ IsRead(acc, ss, offset, size)
    BY <1>5, <1>6, <1>8
  <2>3. ReadSlices(Append(ss, s), offset, size) = ReadStep(acc, s, offset, size)
    BY <1>2, <1>5, <1>6, <2>2
  <2>4. IsRead(ReadStep(acc, s, offset, size), Append(ss, s), offset, size)
    <3>1. CASE acc.reading
      <4>1. HasRead(acc, ss, offset, size)
        BY <2>2, <3>1 DEF IsRead
      <4> QED BY <3>1, <4>1, ReadOn DEF IsRead
    <3>2. CASE ~acc.reading
      <4>1. HasFound(acc, ss, offset)
        BY <2>2, <3>2 DEF IsRead
      <4> QED BY <3>2, <4>1, SearchOn
    <3> QED BY <3>1, <3>2
  <2> QED BY <2>1, <2>3, <2>4
<1> HIDE DEF P
<1>9. Slices \subseteq P
  BY <1>7, <1>8, SeqSetInduction DEF Slices
<1> QED BY <1>9 DEF P

(* A part of a sequence.                                                    *)
Part(b, o, k) == SubSeq(b, o + 1, o + k)

LEMMA PartFacts ==
  ASSUME NEW b \in Seq(Nat), NEW o \in Nat, NEW k \in Nat, NEW n \in Nat, n = Len(b), o + k <= n
  PROVE  /\ Part(b, o, k) \in Seq(Nat) /\ Len(Part(b, o, k)) = k
         /\ \A i \in 1 .. k : Part(b, o, k)[i] = b[o + i]
<1>0. PICK a : a = SubSeq(b, o + 1, o + k)
  OBVIOUS
<1>1. a \in Seq(Nat) /\ Len(a) = k
  BY <1>0
<1>2. \A i \in 1 .. k : a[i] = b[o + i]
  BY <1>0
<1> QED BY <1>0, <1>1, <1>2 DEF Part

LEMMA PartOf ==
  ASSUME NEW b \in Seq(Nat), NEW o \in Nat, NEW k \in Nat, NEW n \in Nat, n = Len(b), o + k <= n
  PROVE  First(Rest(b, o), k) = Part(b, o, k)
<1>1. PICK m \in Nat : n = o + m /\ k <= m
  <2>1. n - o \in Nat /\ n = o + (n - o) /\ k <= n - o
    OBVIOUS
  <2> QED BY <2>1
<1>2. PICK r : r = Rest(b, o) /\ r = Part(b, o, m)
  BY <1>1 DEF Rest, Part
<1>3. r \in Seq(Nat) /\ Len(r) = m /\ \A i \in 1 .. m : r[i] = b[o + i]
  <2>1. o + m <= n
    BY <1>1
  <2>2. /\ Part(b, o, m) \in Seq(Nat) /\ Len(Part(b, o, m)) = m
        /\ \A i \in 1 .. m : Part(b, o, m)[i] = b[o + i]
    BY <2>1, PartFacts
  <2> QED BY <1>2, <2>2
<1>4. PICK z \in Nat : z = 0
  OBVIOUS
<1>5. PICK p : p = First(r, k) /\ p = Part(r, z, k)
  <2>1. z + 1 = 1 /\ z + k = k
    BY <1>4
  <2> QED BY <2>1 DEF First, Part
<1>6. p \in Seq(Nat) /\ Len(p) = k /\ \A i \in 1 .. k : p[i] = r[z + i]
  <2>1. r \in Seq(Nat) /\ z + k <= m /\ m = Len(r)
    BY <1>1, <1>3, <1>4
  <2>2. /\ Part(r, z, k) \in Seq(Nat) /\ Len(Part(r, z, k)) = k
        /\ \A i \in 1 .. k : Part(r, z, k)[i] = r[z + i]
    BY <2>1, PartFacts
  <2> QED BY <1>5, <2>2
<1>7. PICK q : q = Part(b, o, k)
  OBVIOUS
<1>8. q \in Seq(Nat) /\ Len(q) = k /\ \A i \in 1 .. k : q[i] = b[o + i]
  BY <1>7, PartFacts
<1>9. ASSUME NEW i \in 1 .. k
      PROVE  p[i] = q[i]
  <2>1. i \in 1 .. m /\ z + i = i
    BY <1>1, <1>4
  <2>2. p[i] = r[z + i] /\ r[i] = b[o + i] /\ q[i] = b[o + i]
    BY <1>3, <1>6, <1>8, <2>1
  <2> QED BY <2>1, <2>2
<1>10. p = q
  BY <1>6, <1>8, <1>9, SameElements
<1> QED BY <1>2, <1>5, <1>7, <1>10

(***************************************************************************)
(* What each call does to the bytes.                                        *)
(***************************************************************************)
(* A file that is written over from an offset on.                           *)
WrittenOver(b, offset, data) ==
  SubSeq(b, 1, offset) \o data \o SubSeq(b, offset + Len(data) + 1, Len(b))

(* A write at the end of the file.                                          *)
LEMMA WrittenAtEnd ==
  ASSUME NEW ss, Filled(ss), NEW src \in Nat, NEW size \in Nat
  PROVE  /\ Filled(WriteBack(ss, src, size))
         /\ BytesOf(WriteBack(ss, src, size)) =
              WrittenOver(BytesOf(ss), TotalSize(ss), Source(src, size))
<1>1. ss \in Slices
  BY DEF Filled
<1>2. PICK b \in Seq(Nat), n \in Nat : b = BytesOf(ss) /\ n = TotalSize(ss) /\ n = Len(b)
  BY <1>1, SizeIsLength
<1>3. PICK data \in Seq(Nat) : data = Source(src, size) /\ Len(data) = size
  BY SourceParts
<1>4. BytesOf(WriteBack(ss, src, size)) = b \o data
  BY <1>1, <1>2, <1>3, BackWritten
<1>5. WrittenOver(b, n, data) = b \o data
  <2>1. First(b, n) = b
    <3>1. n <= Len(b) /\ n >= Len(b)
      BY <1>2
    <3>2. First(b, n) \in Seq(Nat) /\ First(b, n) \o Rest(b, n) = b
      BY <3>1, FirstAndRest
    <3>3. Rest(b, n) = <<>>
      BY <3>1, NothingLeft
    <3> QED BY <3>2, <3>3, NothingJoined
  <2>2. PICK m \in Nat : m = n + size /\ m >= Len(b)
    BY <1>2
  <2>3. Rest(b, m) = <<>>
    BY <2>2, NothingLeft
  <2>4. WrittenOver(b, n, data) = (b \o data) \o <<>>
    BY <1>3, <2>1, <2>2, <2>3 DEF WrittenOver, First, Rest
  <2>5. b \o data \in Seq(Nat)
    OBVIOUS
  <2> QED BY <2>4, <2>5, NothingJoined
<1>6. Filled(WriteBack(ss, src, size))
  <2>1. CASE size = 0
    BY <2>1 DEF WriteBack
  <2>2. CASE size > 0
    <3>1. PICK s \in SourceSlice : s = Slice(src, size) /\ SizeOf(s) = size
      BY <2>2, SliceFacts
    <3>2. PICK more \in Slices : more = WriteBack(ss, src, size)
      <4>1. WriteBack(ss, src, size) \in Slices
        BY <1>1, BackWritten
      <4> QED BY <4>1
    <3>3. PICK l \in Nat : l = Len(ss)
      BY <1>1 DEF Slices
    <3>4. more = Append(ss, s)
      BY <2>2, <3>1, <3>2 DEF WriteBack
    <3>5. DOMAIN more = 1 .. l + 1 /\ more[l + 1] = s /\ \A i \in 1 .. l : more[i] = ss[i]
      BY <1>1, <3>3, <3>4 DEF Slices
    <3>6. \A i \in 1 .. l : SizeOf(ss[i]) > 0
      BY <1>1, <3>3 DEF Filled, Slices
    <3>7. ASSUME NEW i \in DOMAIN more
          PROVE  SizeOf(more[i]) > 0
      <4>1. i = l + 1 \/ i \in 1 .. l
        BY <3>5
      <4> QED BY <2>2, <3>1, <3>5, <3>6, <4>1
    <3> QED BY <3>2, <3>7 DEF Filled
  <2> QED BY <2>1, <2>2
<1> QED BY <1>2, <1>3, <1>4, <1>5, <1>6

(* A write before it.                                                       *)
WrittenInside(ss, src, offset, size) ==
  IF size > 0 THEN Overwrite(ss, src, offset, size) ELSE ss

LEMMA WrittenWithin ==
  ASSUME NEW ss, Filled(ss), NEW src \in Nat, NEW size \in Nat,
         NEW offset \in Nat, offset < TotalSize(ss)
  PROVE  /\ Filled(WrittenInside(ss, src, offset, size))
         /\ BytesOf(WrittenInside(ss, src, offset, size)) =
              WrittenOver(BytesOf(ss), offset, Source(src, size))
         /\ WriteAsserts(ss, WrittenInside(ss, src, offset, size), offset, size)
<1>1. ss \in Slices
  BY DEF Filled
<1>2. PICK b \in Seq(Nat), n \in Nat : b = BytesOf(ss) /\ n = TotalSize(ss) /\ n = Len(b)
  BY <1>1, SizeIsLength
<1>3. PICK data \in Seq(Nat) : data = Source(src, size) /\ Len(data) = size
  BY SourceParts
<1>4. PICK end \in Nat : end = offset + size
  OBVIOUS
<1>5. offset <= Len(b)
  BY <1>2
<1>6. PICK new : new = WrittenInside(ss, src, offset, size)
  OBVIOUS
<1>7. Filled(new) /\ BytesOf(new) = (First(b, offset) \o data) \o Rest(b, end)
  <2>1. CASE size > 0
    <3>1. new = Overwrite(ss, src, offset, size)
      BY <1>6, <2>1 DEF WrittenInside
    <3>2. /\ Filled(new)
          /\ BytesOf(new) = (First(BytesOf(ss), offset) \o Source(src, size))
                               \o Rest(BytesOf(ss), offset + size)
      BY <2>1, <3>1, OverwriteFacts
    <3> QED BY <1>2, <1>3, <1>4, <3>2
  <2>2. CASE size = 0
    <3>1. new = ss
      BY <1>6, <2>2 DEF WrittenInside
    <3>2. data = <<>> /\ end = offset
      BY <1>3, <1>4, <2>2, SourceParts
    <3>3. First(b, offset) \in Seq(Nat) /\ First(b, offset) \o Rest(b, offset) = b
      BY <1>5, FirstAndRest
    <3>4. First(b, offset) \o <<>> = First(b, offset)
      BY <3>3, NothingJoined
    <3> QED BY <1>2, <3>1, <3>2, <3>3, <3>4
  <2> QED BY <2>1, <2>2
<1>8. (First(b, offset) \o data) \o Rest(b, end) = WrittenOver(b, offset, data)
  BY <1>3, <1>4 DEF WrittenOver, First, Rest
<1>9. TotalSize(new) = IF end > n THEN end ELSE n
  <2>1. new \in Slices
    BY <1>7 DEF Filled
  <2>2. TotalSize(new) = Len((First(b, offset) \o data) \o Rest(b, end))
    BY <1>7, <2>1, SizeIsLength
  <2>3. PICK f \in Seq(Nat) : f = First(b, offset) /\ Len(f) = offset
    BY <1>5, FirstAndRest
  <2>4. f \o data \in Seq(Nat) /\ Len(f \o data) = end
    <3>1. f \o data \in Seq(Nat) /\ Len(f \o data) = Len(f) + Len(data)
      OBVIOUS
    <3> QED BY <1>3, <1>4, <2>3, <3>1
  <2>5. CASE end <= n
    <3>1. end <= Len(b)
      BY <1>2, <2>5
    <3>2. Rest(b, end) \in Seq(Nat) /\ Len(Rest(b, end)) = Len(b) - end
      BY <3>1, FirstAndRest
    <3>3. PICK r \in Seq(Nat) : r = Rest(b, end) /\ Len(r) = n - end
      BY <1>2, <3>2
    <3>4. PICK g \in Seq(Nat) : g = f \o data /\ Len(g) = end
      BY <2>4
    <3>5. Len(g \o r) = Len(g) + Len(r)
      OBVIOUS
    <3>6. TotalSize(new) = end + (n - end)
      BY <2>2, <2>3, <3>3, <3>4, <3>5
    <3>7. end + (n - end) = n /\ ~(end > n)
      BY <2>5
    <3> QED BY <3>6, <3>7
  <2>6. CASE end > n
    <3>1. end >= Len(b)
      BY <1>2, <2>6
    <3>2. Rest(b, end) = <<>>
      BY <3>1, NothingLeft
    <3>3. (f \o data) \o <<>> = f \o data
      BY <2>4, NothingJoined
    <3> QED BY <2>2, <2>3, <2>6, <2>4, <3>2, <3>3
  <2> QED BY <2>5, <2>6
<1>10. WriteAsserts(ss, new, offset, size)
  <2>1. SplitAssert(ss, offset)
    BY SplitAsserted
  <2> QED BY <1>2, <1>4, <1>7, <1>9, <2>1 DEF WriteAsserts, Filled
<1> QED BY <1>2, <1>3, <1>6, <1>7, <1>8, <1>10

(* A read.                                                                  *)
LEMMA ReadPart ==
  ASSUME NEW ss \in Slices, NEW offset \in Nat, NEW size \in Nat, offset <= TotalSize(ss)
  PROVE  /\ ReadAssert(ReadSlices(ss, offset, size))
         /\ BytesOf(ReadSlices(ss, offset, size).content) =
              SubSeq(BytesOf(ss), offset + 1,
                     IF offset + size < Len(BytesOf(ss)) THEN offset + size ELSE Len(BytesOf(ss)))
<1>1. PICK b \in Seq(Nat), n \in Nat : b = BytesOf(ss) /\ n = TotalSize(ss) /\ n = Len(b)
  BY SizeIsLength
<1>2. PICK acc : acc = ReadSlices(ss, offset, size)
  OBVIOUS
<1>3. IsRead(acc, ss, offset, size)
  BY <1>2, ReadLoop
<1>4. PICK read \in Nat, content \in Slices : read = acc.read_size /\ content = acc.content
  BY <1>3 DEF IsRead, Reading, Slices
<1>5. PICK until : until = IF offset + size < n THEN offset + size ELSE n
  OBVIOUS
<1>6. BytesOf(content) = SubSeq(b, offset + 1, until) /\ Len(BytesOf(content)) = read
  <2>1. CASE acc.reading
    <3>1. /\ n > offset /\ read <= n - offset /\ read <= size /\ (read = size \/ read = n - offset)
          /\ BytesOf(content) = First(Rest(b, offset), read)
      BY <1>1, <1>3, <1>4, <2>1 DEF IsRead, HasRead
    <3>2. offset + read <= n /\ offset + read = until
      BY <1>5, <3>1
    <3>3. First(Rest(b, offset), read) = Part(b, offset, read)
      BY <1>1, <3>2, PartOf
    <3>4. Len(Part(b, offset, read)) = read
      BY <1>1, <3>2, PartFacts
    <3> QED BY <3>1, <3>2, <3>3, <3>4 DEF Part
  <2>2. CASE ~acc.reading
    <3>1. n <= offset /\ content = <<>> /\ read = 0
      BY <1>1, <1>3, <1>4, <2>2 DEF IsRead, HasFound
    <3>2. offset = n /\ until = n
      BY <1>1, <1>5, <3>1
    <3>3. PICK z \in Nat : z = 0 /\ n + z <= n /\ n + z = n
      OBVIOUS
    <3>4. PICK p : p = Part(b, n, z)
      OBVIOUS
    <3>5. p \in Seq(Nat) /\ Len(p) = z
      BY <1>1, <3>3, <3>4, PartFacts
    <3>6. p = <<>>
      BY <3>3, <3>5
    <3> QED BY <3>1, <3>2, <3>3, <3>4, <3>6, BytesFacts DEF Part
  <2> QED BY <2>1, <2>2
<1>7. TotalSize(content) = read
  BY <1>6, SizeIsLength
<1> QED BY <1>1, <1>2, <1>4, <1>5, <1>6, <1>7 DEF ReadAssert

(***************************************************************************)
(* Every step of Content is one of ByteFile.                                *)
(***************************************************************************)
(* No slice of the file is empty, whatever has been written.                *)
ContentInv == Filled(slices)

LEMMA ContentInitRefines == ContentInit => ContentInv /\ AbstractFile!Init
<1>1. ContentInit => Filled(slices)
  BY DEF ContentInit, Filled, Slices
<1>2. BytesOf(<<>>) = <<>>
  BY BytesFacts
<1> QED BY <1>1, <1>2 DEF ContentInit, ContentInv, AbstractFile!Init

LEMMA WriteAtEndRefines ==
  ASSUME ContentInv, NEW src \in Nat, NEW offset \in Nat, NEW size \in Nat,
         WriteAtEnd(src, offset, size)
  PROVE  ContentInv' /\ AbstractFile!Write(src, offset, size)
<1>1. Filled(slices) /\ slices \in Slices
  BY DEF ContentInv, Filled
<1>2. slices' = WriteBack(slices, src, size) /\ offset = TotalSize(slices)
  BY DEF WriteAtEnd
<1>3. Filled(slices') /\ BytesOf(slices') = WrittenOver(BytesOf(slices), offset, Source(src, size))
  BY <1>1, <1>2, WrittenAtEnd
<1>4. Len(BytesOf(slices)) = offset
  BY <1>1, <1>2, SizeIsLength
<1>5. reply' = [call |-> <<"write", src, offset, size>>, err |-> "Ok", content |-> <<>>]
  BY DEF WriteAtEnd, WriteReply
<1>6. [call |-> reply'.call, err |-> reply'.err, data |-> BytesOf(reply'.content)] =
        [call |-> <<"write", src, offset, size>>, err |-> "Ok", data |-> <<>>]
  BY <1>5, BytesFacts
<1> QED BY <1>3, <1>4, <1>6 DEF ContentInv, AbstractFile!Write, AbstractFile!Overwritten,
           AbstractFile!Source, Source, WrittenOver

LEMMA WriteInsideRefines ==
  ASSUME ContentInv, NEW src \in Nat, NEW offset \in Nat, NEW size \in Nat,
         WriteInside(src, offset, size)
  PROVE  ContentInv' /\ AbstractFile!Write(src, offset, size)
<1>1. Filled(slices) /\ slices \in Slices
  BY DEF ContentInv, Filled
<1>2. offset < TotalSize(slices) /\ slices' = WrittenInside(slices, src, offset, size)
  BY DEF WriteInside, WrittenInside
<1>3. /\ Filled(slices') /\ WriteAsserts(slices, slices', offset, size)
      /\ BytesOf(slices') = WrittenOver(BytesOf(slices), offset, Source(src, size))
  BY <1>1, <1>2, WrittenWithin
<1>4. offset <= Len(BytesOf(slices))
  BY <1>1, <1>2, SizeIsLength
<1>5. reply' = [call |-> <<"write", src, offset, size>>, err |-> "Ok", content |-> <<>>]
  BY <1>3 DEF WriteInside, WriteReply
<1>6. [call |-> reply'.call, err |-> reply'.err, data |-> BytesOf(reply'.content)] =
        [call |-> <<"write", src, offset, size>>, err |-> "Ok", data |-> <<>>]
  BY <1>5, BytesFacts
<1> QED BY <1>3, <1>4, <1>6 DEF ContentInv, AbstractFile!Write, AbstractFile!Overwritten,
           AbstractFile!Source, Source, WrittenOver

LEMMA WriteBadOffsetRefines ==
  ASSUME ContentInv, NEW src \in Nat, NEW offset \in Nat, NEW size \in Nat,
         WriteBadOffset(src, offset, size)
  PROVE  ContentInv' /\ AbstractFile!WriteRefused(src, offset, size)
<1>1. slices \in Slices /\ slices' = slices /\ offset > TotalSize(slices)
  BY DEF ContentInv, Filled, WriteBadOffset
<1>2. offset > Len(BytesOf(slices))
  BY <1>1, SizeIsLength
<1>3. reply' = [call |-> <<"write", src, offset, size>>, err |-> "BadOffset", content |-> <<>>]
  BY DEF WriteBadOffset, WriteReply
<1>4. [call |-> reply'.call, err |-> reply'.err, data |-> BytesOf(reply'.content)] =
        [call |-> <<"write", src, offset, size>>, err |-> "BadOffset", data |-> <<>>]
  BY <1>3, BytesFacts
<1> QED BY <1>1, <1>2, <1>4 DEF ContentInv, AbstractFile!WriteRefused

LEMMA ReadWithinRefines ==
  ASSUME ContentInv, NEW offset \in Nat, NEW size \in Nat, ReadWithin(offset, size)
  PROVE  ContentInv' /\ AbstractFile!Read(offset, size)
<1>1. slices \in Slices /\ slices' = slices /\ offset <= TotalSize(slices)
  BY DEF ContentInv, Filled, ReadWithin
<1>2. offset <= Len(BytesOf(slices))
  BY <1>1, SizeIsLength
<1>3. PICK data : data = BytesOf(ReadSlices(slices, offset, size).content)
  OBVIOUS
<1>4. ReadAssert(ReadSlices(slices, offset, size))
  BY <1>1, ReadPart
<1>5. data = SubSeq(BytesOf(slices), offset + 1, AbstractFile!Until(offset, size))
  BY <1>1, <1>3, ReadPart DEF AbstractFile!Until
<1>6. reply' = [call |-> <<"read", offset, size>>, err |-> "Ok",
                content |-> ReadSlices(slices, offset, size).content]
  BY <1>4 DEF ReadWithin, ReadReply
<1>7. [call |-> reply'.call, err |-> reply'.err, data |-> BytesOf(reply'.content)] =
        [call |-> <<"read", offset, size>>, err |-> "Ok", data |-> data]
  BY <1>3, <1>6
<1> QED BY <1>1, <1>2, <1>5, <1>7 DEF ContentInv, AbstractFile!Read

LEMMA ReadBadOffsetRefines ==
  ASSUME ContentInv, NEW offset \in Nat, NEW size \in Nat, ReadBadOffset(offset, size)
  PROVE  ContentInv' /\ AbstractFile!ReadRefused(offset, size)
<1>1. slices \in Slices /\ slices' = slices /\ offset > TotalSize(slices)
  BY DEF ContentInv, Filled, ReadBadOffset
<1>2. offset > Len(BytesOf(slices))
  BY <1>1, SizeIsLength
<1>3. reply' = [call |-> <<"read", offset, size>>, err |-> "BadOffset", content |-> <<>>]
  BY DEF ReadBadOffset, ReadReply
<1>4. [call |-> reply'.call, err |-> reply'.err, data |-> BytesOf(reply'.content)] =
        [call |-> <<"read", offset, size>>, err |-> "BadOffset", data |-> <<>>]
  BY <1>3, BytesFacts
<1> QED BY <1>1, <1>2, <1>4 DEF ContentInv, AbstractFile!ReadRefused

(* A step of the slices is one of the bytes, or none.                       *)
LEMMA ContentStepRefines ==
  ContentInv /\ [ContentNext]_content_vars => ContentInv' /\ [AbstractFile!Next]_(AbstractFile!vars)
<1> SUFFICES ASSUME ContentInv, [ContentNext]_content_vars
             PROVE  ContentInv' /\ [AbstractFile!Next]_(AbstractFile!vars)
  OBVIOUS
<1>1. CASE ContentNext
  <2>1. PICK offset \in Offsets, size \in Lengths :
          \/ ReadWithin(offset, size) \/ ReadBadOffset(offset, size)
          \/ \E src \in SourceOffsets :
               \/ WriteAtEnd(src, offset, size)
               \/ WriteBadOffset(src, offset, size)
               \/ WriteInside(src, offset, size)
    BY <1>1 DEF ContentNext
  <2>2. offset \in Nat /\ size \in Nat /\ SourceOffsets \subseteq Nat
    BY ContentAssumption
  <2>3. CASE ReadWithin(offset, size)
    <3>1. ContentInv' /\ AbstractFile!Read(offset, size)
      BY <2>2, <2>3, ReadWithinRefines
    <3> QED BY <3>1 DEF AbstractFile!Next
  <2>4. CASE ReadBadOffset(offset, size)
    <3>1. ContentInv' /\ AbstractFile!ReadRefused(offset, size)
      BY <2>2, <2>4, ReadBadOffsetRefines
    <3> QED BY <3>1 DEF AbstractFile!Next
  <2>5. ASSUME NEW src \in SourceOffsets, WriteAtEnd(src, offset, size)
        PROVE  ContentInv' /\ AbstractFile!Next
    <3>1. ContentInv' /\ AbstractFile!Write(src, offset, size)
      BY <2>2, <2>5, WriteAtEndRefines
    <3> QED BY <3>1 DEF AbstractFile!Next
  <2>6. ASSUME NEW src \in SourceOffsets, WriteBadOffset(src, offset, size)
        PROVE  ContentInv' /\ AbstractFile!Next
    <3>1. ContentInv' /\ AbstractFile!WriteRefused(src, offset, size)
      BY <2>2, <2>6, WriteBadOffsetRefines
    <3> QED BY <3>1 DEF AbstractFile!Next
  <2>7. ASSUME NEW src \in SourceOffsets, WriteInside(src, offset, size)
        PROVE  ContentInv' /\ AbstractFile!Next
    <3>1. ContentInv' /\ AbstractFile!Write(src, offset, size)
      BY <2>2, <2>7, WriteInsideRefines
    <3> QED BY <3>1 DEF AbstractFile!Next
  <2> QED BY <2>1, <2>3, <2>4, <2>5, <2>6, <2>7
<1>2. CASE UNCHANGED content_vars
  BY <1>2 DEF content_vars, ContentInv, AbstractFile!vars
<1> QED BY <1>1, <1>2

(* Slices are a sequence of bytes, for any offsets, lengths and source:     *)
(* what is read is what was written, and no assertion of write or read      *)
(* fails (content.rs:48-196).                                               *)
THEOREM SlicesImplementBytes == ContentSpec => ImplementsByteFile
<1>1. ContentInit => ContentInv /\ AbstractFile!Init
  BY ContentInitRefines
<1>2. ContentInv /\ [ContentNext]_content_vars =>
        ContentInv' /\ [AbstractFile!Next]_(AbstractFile!vars)
  BY ContentStepRefines
<1> QED BY <1>1, <1>2, PTL DEF ContentSpec, ImplementsByteFile, AbstractFile!Spec

(* No slice is ever empty, which the assertion at the end of write says     *)
(* (content.rs:142-147) and the search for the slice of an offset relies on *)
(* (content.rs:86-92).                                                      *)
THEOREM NoSliceIsEmpty == ContentSpec => []ContentInv
<1> QED BY ContentInitRefines, ContentStepRefines, PTL DEF ContentSpec

=============================================================================
