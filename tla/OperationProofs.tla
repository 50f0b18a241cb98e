--------------------------- MODULE OperationProofs ---------------------------
(***************************************************************************)
(* Lemmas about path resolution and the operations of AbstractFS, for any   *)
(* names and any stack.  First about resolution: it never looks an index up *)
(* outside its vector, and where it succeeds the node it finds exists and   *)
(* is of the kind that was asked for.  It is a recursion over the stack     *)
(* frames left, so its equation and the fact itself are proved by induction *)
(* on their number.                                                         *)
(*                                                                         *)
(* Then about the operations: what each keeps true of a tree, that a rename *)
(* which is not refused moves one entry, and that one which is refused      *)
(* changes nothing.  rename resolves the parent of the old name a second    *)
(* time after it has made the new entry (fs.rs:224), so both rest on that   *)
(* resolution finding what the first one found, whatever the new entry has  *)
(* replaced.                                                                *)
(*                                                                         *)
(* Then about replays: an operation that fails leaves the tree as it was,   *)
(* one that succeeds records what would have done the same, so that the     *)
(* recording of any tree the operations make rebuilds that tree.            *)
(*                                                                         *)
(* Last about trees in which a link is mentioned by later links only: with  *)
(* a stack deep enough for all targets no resolution overflows it or ends   *)
(* in a loop.                                                               *)
(***************************************************************************)
EXTENDS FsInvariants, WellFoundedInduction, TLAPS

(***************************************************************************)
(* Induction over the natural numbers with a set in the place of a          *)
(* predicate, and the existence of functions defined by recursion on a      *)
(* natural number.                                                          *)
(***************************************************************************)
(* A non-empty set of natural numbers has a least element.                  *)
LEMMA LeastNat ==
  ASSUME NEW T, T \subseteq Nat, T # {}
  PROVE  \E n \in T : \A m \in T : n <= m
<1>1. PICK R : R = OpToRel(<, Nat)
  OBVIOUS
<1>2. IsWellFoundedOn(R, Nat)
  BY <1>1, NatLessThanWellFounded
<1>3. \A y, z \in Nat : y < z => <<y, z>> \in R
  BY <1>1 DEF OpToRel
<1>4. PICK n \in T : \A m \in T : ~ (<<m, n>> \in R)
  BY <1>2, WFMin
<1>5. ASSUME NEW m \in T
      PROVE  n <= m
  <2>1. ~ (m < n)
    BY <1>3, <1>4
  <2> QED BY <2>1
<1> QED BY <1>5

(* Induction: a set that holds 0 and the successors of its members holds    *)
(* every natural number.                                                    *)
LEMMA NatSetInduction ==
  ASSUME NEW T, 0 \in T, \A n \in Nat : n \in T => n + 1 \in T
  PROVE  Nat \subseteq T
<1> SUFFICES ASSUME Nat \ T # {}
             PROVE  FALSE
  OBVIOUS
<1>1. PICK n \in Nat \ T : \A m \in Nat \ T : n <= m
  BY LeastNat
<1>2. n # 0 /\ n - 1 \in Nat
  BY <1>1
<1>3. n - 1 \in T
  BY <1>1, <1>2
<1> QED BY <1>1, <1>2, <1>3

(* The sequence a, g[a], g[g[a]], ... up to its n-th element.               *)
Iterates(a, g, S, n) ==
  {f \in [0 .. n -> S] : f[0] = a /\ \A i \in 0 .. n - 1 : f[i + 1] = g[f[i]]}

(* There is such a sequence for every n.                                    *)
LEMMA IteratesExist ==
  ASSUME NEW S, NEW a \in S, NEW g \in [S -> S], NEW n \in Nat
  PROVE  Iterates(a, g, S, n) # {}
<1> DEFINE T == {k \in Nat : Iterates(a, g, S, k) # {}}
<1>1. 0 \in T
  <2>1. [i \in 0 .. 0 |-> a] \in Iterates(a, g, S, 0)
    BY DEF Iterates
  <2> QED BY <2>1
<1>2. ASSUME NEW k \in Nat, k \in T
      PROVE  k + 1 \in T
  <2>1. PICK f \in [0 .. k -> S] : f[0] = a /\ \A i \in 0 .. k - 1 : f[i + 1] = g[f[i]]
    BY <1>2 DEF Iterates
  <2> DEFINE h == [i \in 0 .. k + 1 |-> IF i = k + 1 THEN g[f[k]] ELSE f[i]]
  <2>2. h \in [0 .. k + 1 -> S] /\ h[0] = a
    BY <2>1
  <2>3. ASSUME NEW i \in 0 .. k
        PROVE  h[i + 1] = g[h[i]]
    <3>1. CASE i = k
      BY <3>1, <2>1
    <3>2. CASE i \in 0 .. k - 1
      BY <3>2, <2>1
    <3> QED BY <3>1, <3>2
  <2>4. h \in Iterates(a, g, S, k + 1)
    <3> HIDE DEF h
    <3> QED BY <2>2, <2>3 DEF Iterates
  <2> QED BY <2>4
<1> HIDE DEF T
<1>3. Nat \subseteq T
  BY <1>1, <1>2, NatSetInduction
<1> QED BY <1>3 DEF T

(* Two such sequences are equal as far as both go.                          *)
LEMMA IteratesAgree ==
  ASSUME NEW S, NEW a \in S, NEW g \in [S -> S],
         NEW n \in Nat, NEW m \in Nat,
         NEW f \in Iterates(a, g, S, n), NEW h \in Iterates(a, g, S, m)
  PROVE  \A i \in Nat : i <= n /\ i <= m => f[i] = h[i]
<1> DEFINE T == {i \in Nat : i <= n /\ i <= m => f[i] = h[i]}
<1>1. 0 \in T
  BY DEF Iterates
<1>2. ASSUME NEW k \in Nat, k \in T
      PROVE  k + 1 \in T
  <2> SUFFICES ASSUME k + 1 <= n, k + 1 <= m
               PROVE  f[k + 1] = h[k + 1]
    OBVIOUS
  <2>1. k \in 0 .. n - 1 /\ k \in 0 .. m - 1 /\ f[k] = h[k]
    BY <1>2
  <2> QED BY <2>1 DEF Iterates
<1> HIDE DEF T
<1>3. Nat \subseteq T
  BY <1>1, <1>2, NatSetInduction
<1> QED BY <1>3 DEF T

(* The infinite sequence a, g[a], g[g[a]], ...                              *)
LEMMA RecursionOverNat ==
  ASSUME NEW S, NEW a \in S, NEW g \in [S -> S]
  PROVE  \E f \in [Nat -> S] : f[0] = a /\ \A n \in Nat : f[n + 1] = g[f[n]]
<1> DEFINE upTo(n) == CHOOSE f : f \in Iterates(a, g, S, n)
           f == [n \in Nat |-> upTo(n)[n]]
<1>1. ASSUME NEW n \in Nat
      PROVE  upTo(n) \in Iterates(a, g, S, n)
  BY IteratesExist
<1> HIDE DEF upTo
<1>2. f \in [Nat -> S]
  BY <1>1 DEF Iterates
<1>3. f[0] = a
  BY <1>1 DEF Iterates
<1>4. ASSUME NEW n \in Nat
      PROVE  f[n + 1] = g[f[n]]
  <2>1. upTo(n + 1) \in Iterates(a, g, S, n + 1) /\ upTo(n) \in Iterates(a, g, S, n)
    BY <1>1
  <2>2. upTo(n + 1)[n + 1] = g[upTo(n + 1)[n]]
    BY <2>1 DEF Iterates
  <2>3. upTo(n + 1)[n] = upTo(n)[n]
    BY <2>1, IteratesAgree
  <2> QED BY <2>2, <2>3
<1> QED BY <1>2, <1>3, <1>4

(***************************************************************************)
(* Path resolution.                                                         *)
(***************************************************************************)

ResolveErrors ==
  {"NotADir", "NotAFile", "NotFound", "LoopExists", "NameAlreadyExists", "StackOverflow"}

Result == [err : ResolveErrors \cup {Ok}, node : Node \cup {Absent}, dirs : SUBSET Nat]

(* Resolutions that have not hit an index outside its vector ("Panic" is no *)
(* ResolveError) and that end, if they succeed, at a node that exists, and  *)
(* at none otherwise.                                                       *)
Sound(s) ==
  {r \in Result : IF r.err = Ok THEN r.node \in Node /\ NodeAllocated(s, r.node)
                  ELSE r.node = Absent}

Tree(s) == s \in FS /\ EntriesAllocated(s)

IsDirOf(s, r) == r.err = Ok => r.node.kind = "Dir" /\ r.node.idx \in DOMAIN s.dirs

(* An error is a sound result.                                              *)
LEMMA UnresolvedSound ==
  ASSUME NEW s, NEW e \in ResolveErrors
  PROVE  Unresolved(e) \in Sound(s) /\ IsDirOf(s, Unresolved(e))
<1>1. e # Ok
  BY DEF ResolveErrors, Ok
<1>2. Unresolved(e) \in Result /\ Unresolved(e).err = e /\ Unresolved(e).node = Absent
  BY DEF Unresolved, Result
<1> QED BY <1>1, <1>2 DEF Sound, IsDirOf

(* Recording the directories traversed keeps a result sound.                *)
LEMMA ViaSound ==
  ASSUME NEW s, NEW dirs \in SUBSET Nat, NEW r \in Sound(s)
  PROVE  Via(dirs, r) \in Sound(s) /\ (IsDirOf(s, r) => IsDirOf(s, Via(dirs, r)))
BY DEF Via, Sound, Result, IsDirOf

(* resolve_dir returns a directory that exists, or an error.                *)
LEMMA AsDirSound ==
  ASSUME NEW s, NEW r \in Sound(s)
  PROVE  AsDir(s, r) \in Sound(s) /\ IsDirOf(s, AsDir(s, r))
<1>1. CASE r.err # Ok
  BY <1>1 DEF AsDir, IsDirOf
<1>2. CASE r.err = Ok /\ r.node.kind # "Dir"
  <2>1. AsDir(s, r) = Unresolved("NotADir")
    BY <1>2 DEF AsDir
  <2> QED BY <2>1, UnresolvedSound DEF ResolveErrors
<1>3. CASE r.err = Ok /\ r.node.kind = "Dir"
  <2>1. r.node.idx \in DOMAIN s.dirs
    BY <1>3 DEF Sound, NodeAllocated
  <2> QED BY <1>3, <2>1 DEF AsDir, IsDirOf
<1> QED BY <1>1, <1>2, <1>3

(* The entries of an existing directory refer to existing nodes.            *)
LEMMA EntryFacts ==
  ASSUME NEW s, Tree(s), NEW d \in DOMAIN s.dirs, NEW n \in Keys
  PROVE  /\ s.dirs[d][n] \in Node \cup {Absent}
         /\ NodeAllocated(s, s.dirs[d][n])
         /\ d \in Nat
<1>1. s.dirs \in Seq(Dir)
  BY DEF Tree, FS
<1>2. s.dirs[d] \in Dir /\ d \in Nat
  BY <1>1
<1> QED BY <1>2 DEF Tree, EntriesAllocated, Dir

(* The target of a symlink is a path.                                       *)
LEMMA SymlinkFacts ==
  ASSUME NEW s, Tree(s), NEW i \in DOMAIN s.symlinks
  PROVE  s.symlinks[i] \in PathName
<1>1. s.symlinks \in Seq(PathName)
  BY DEF Tree, FS
<1> QED BY <1>1

(* Splitting a path gives a path and a name.                                *)
LEMMA PathFacts ==
  ASSUME NEW path \in PathName
  PROVE  /\ ParentOf(path) \in PathName
         /\ NameOf(path) \in Keys
         /\ ~IsRoot(path) => NameOf(path) \in Names
<1>1. CASE IsRoot(path)
  BY <1>1 DEF ParentOf, NameOf, Keys, PathName, Root
<1>2. CASE ~IsRoot(path)
  <2>1. path \in Seq(Names) /\ Len(path) > 0
    BY <1>2 DEF PathName, IsRoot, Root
  <2>2. path[Len(path)] \in Names
    BY <2>1
  <2>3. SubSeq(path, 1, Len(path) - 1) \in Seq(Names)
    BY <2>1
  <2> QED BY <1>2, <2>2, <2>3 DEF ParentOf, NameOf, Keys, PathName
<1> QED BY <1>1, <1>2

(* Entering the parent of a path, through symlinks, ends at a directory.    *)
LEMMA EnterSound ==
  ASSUME NEW s, Tree(s), NEW below, NEW r \in Sound(s),
         \A q \in Query : below[q] \in Sound(s)
  PROVE  Enter(s, below, r) \in Sound(s) /\ IsDirOf(s, Enter(s, below, r))
<1>1. CASE r.err # Ok \/ r.node.kind = "Dir"
  <2>1. Enter(s, below, r) = AsDir(s, r)
    BY <1>1 DEF Enter
  <2> QED BY <2>1, AsDirSound
<1>2. CASE r.err = Ok /\ r.node.kind = "File"
  <2>1. Enter(s, below, r) = Unresolved("NotADir")
    BY <1>2 DEF Enter
  <2> QED BY <2>1, UnresolvedSound DEF ResolveErrors
<1>3. CASE r.err = Ok /\ r.node.kind = "Symlink"
  <2> DEFINE target == below[<<s.symlinks[r.node.idx], TRUE, {}>>]
  <2>1. r.node.idx \in DOMAIN s.symlinks /\ r.dirs \in SUBSET Nat
    BY <1>3 DEF Sound, NodeAllocated, Result
  <2>2. target \in Sound(s)
    BY <2>1, SymlinkFacts DEF Query
  <2>3. Enter(s, below, r) = Via(r.dirs, AsDir(s, target))
    BY <1>3, <2>1 DEF Enter
  <2> HIDE DEF target
  <2> QED BY <2>1, <2>2, <2>3, AsDirSound, ViaSound
<1> QED BY <1>1, <1>2, <1>3 DEF Sound, Node

(* Looking a name up in the parent gives an existing node, or an error.     *)
LEMMA ChildSound ==
  ASSUME NEW s, Tree(s), NEW below, NEW r \in Sound(s), NEW name \in Keys,
         \A q \in Query : below[q] \in Sound(s)
  PROVE  Child(s, below, r, name) \in Sound(s)
<1> DEFINE in == Enter(s, below, r)
<1>1. in \in Sound(s) /\ IsDirOf(s, in)
  BY EnterSound
<1>2. Child(s, below, r, name) =
        IF in.err # Ok THEN in
        ELSE IF ~NameExists(s, in.node.idx, name) THEN Unresolved("NotFound")
        ELSE Resolved(s.dirs[in.node.idx][name], in.dirs \cup {in.node.idx})
  BY DEF Child, LookUp
<1> HIDE DEF in
<1>3. CASE in.err # Ok
  BY <1>1, <1>2, <1>3
<1>4. CASE in.err = Ok /\ ~NameExists(s, in.node.idx, name)
  BY <1>2, <1>4, UnresolvedSound DEF ResolveErrors
<1>5. CASE in.err = Ok /\ NameExists(s, in.node.idx, name)
  <2> DEFINE node == s.dirs[in.node.idx][name]
             dirs == in.dirs \cup {in.node.idx}
  <2>1. Child(s, below, r, name) = Resolved(node, dirs)
    BY <1>2, <1>5
  <2>2. in.node.idx \in DOMAIN s.dirs /\ in.dirs \in SUBSET Nat
    BY <1>1, <1>5 DEF IsDirOf, Sound, Result
  <2>3. node \in Node /\ NodeAllocated(s, node) /\ dirs \in SUBSET Nat
    BY <2>2, <1>5, EntryFacts DEF NameExists
  <2> HIDE DEF node, dirs
  <2>4. /\ Resolved(node, dirs) \in Result
        /\ Resolved(node, dirs).err = Ok /\ Resolved(node, dirs).node = node
    BY <2>3 DEF Resolved, Result
  <2> QED BY <2>1, <2>3, <2>4 DEF Sound
<1> QED BY <1>3, <1>4, <1>5

(* Following a symlink in the basename gives an existing node, or an error. *)
LEMMA FollowSound ==
  ASSUME NEW s, Tree(s), NEW below, NEW r \in Sound(s), NEW visited \in SUBSET Nat,
         r.err = Ok, r.node.kind = "Symlink",
         \A q \in Query : below[q] \in Sound(s)
  PROVE  Follow(s, below, r, visited) \in Sound(s)
<1>1. r.node.idx \in DOMAIN s.symlinks /\ r.node.idx \in Nat /\ r.dirs \in SUBSET Nat
  BY DEF Sound, NodeAllocated, Result, Node
<1> DEFINE target == below[<<s.symlinks[r.node.idx], TRUE, visited \cup {r.node.idx}>>]
<1>2. target \in Sound(s)
  BY <1>1, SymlinkFacts DEF Query
<1>3. Follow(s, below, r, visited) =
        IF r.node.idx \in visited THEN Unresolved("LoopExists") ELSE Via(r.dirs, target)
  BY <1>1 DEF Follow
<1> HIDE DEF target
<1>4. Unresolved("LoopExists") \in Sound(s)
  BY UnresolvedSound DEF ResolveErrors
<1> QED BY <1>1, <1>2, <1>3, <1>4, ViaSound

(* One level of resolve_node_rec is sound when the levels below are.        *)
LEMMA ResolveNodeRecSound ==
  ASSUME NEW s, Tree(s), NEW below,
         \A q \in Query : below[q] \in Sound(s),
         NEW path \in PathName, NEW follow \in BOOLEAN, NEW visited \in SUBSET Nat
  PROVE  ResolveNodeRec(s, below, path, follow, visited) \in Sound(s)
<1>1. CASE IsRoot(path)
  <2>1. ResolveNodeRec(s, below, path, follow, visited) = Resolved(DirNode(RootIndex), {})
    BY <1>1 DEF ResolveNodeRec
  <2>2. DirNode(RootIndex) \in Node /\ NodeAllocated(s, DirNode(RootIndex))
    BY DEF DirNode, Node, NodeAllocated, Tree, EntriesAllocated, RootIndex
  <2> QED BY <2>1, <2>2 DEF Resolved, Sound, Result
<1>2. CASE ~IsRoot(path)
  <2> DEFINE before == below[<<ParentOf(path), FALSE, {}>>]
             last   == Child(s, below, before, NameOf(path))
  <2>1. before \in Sound(s)
    BY PathFacts DEF Query
  <2>2. last \in Sound(s)
    <3> HIDE DEF before
    <3> QED BY <2>1, PathFacts, ChildSound
  <2>3. ResolveNodeRec(s, below, path, follow, visited) =
          IF last.err = Ok /\ last.node.kind = "Symlink" /\ follow
          THEN Follow(s, below, last, visited) ELSE last
    BY <1>2 DEF ResolveNodeRec, FollowLast
  <2> HIDE DEF last
  <2> QED BY <2>2, <2>3, FollowSound
<1> QED BY <1>1, <1>2

(* One more stack frame: the answers to all queries, given those of fewer   *)
(* frames.                                                                  *)
FrameAnswers(s, below, depth) ==
  [q \in Query |-> IF depth = 0 THEN Unresolved("StackOverflow")
                   ELSE ResolveNodeRec(s, below, q[1], q[2], q[3])]

(* So are its answers to all queries, at the depth above those below.       *)
LEMMA AnswersSound ==
  ASSUME NEW s, Tree(s), NEW depth \in Nat, NEW below,
         depth # 0 => below \in [Query -> Sound(s)]
  PROVE  FrameAnswers(s, below, depth) \in [Query -> Sound(s)]
<1> SUFFICES ASSUME NEW q \in Query
             PROVE  (IF depth = 0 THEN Unresolved("StackOverflow")
                     ELSE ResolveNodeRec(s, below, q[1], q[2], q[3])) \in Sound(s)
  BY DEF FrameAnswers
<1>1. CASE depth = 0
  BY <1>1, UnresolvedSound DEF ResolveErrors
<1>2. CASE depth # 0
  <2>1. q[1] \in PathName /\ q[2] \in BOOLEAN /\ q[3] \in SUBSET Nat
    BY DEF Query
  <2>2. \A p \in Query : below[p] \in Sound(s)
    BY <1>2
  <2> QED BY <1>2, <2>1, <2>2, ResolveNodeRecSound
<1> QED BY <1>1, <1>2

(* The recursive function Walk satisfies the equation that defines it.      *)
LEMMA WalkEquation ==
  ASSUME NEW s, Tree(s)
  PROVE  Walk(s) = [depth \in Nat |-> FrameAnswers(s, Walk(s)[depth - 1], depth)]
<1> DEFINE S == [Query -> Sound(s)]
           a == FrameAnswers(s, <<>>, 0)
           g == [w \in S |-> FrameAnswers(s, w, 1)]
           Recurs(f) == f = [depth \in Nat |-> FrameAnswers(s, f[depth - 1], depth)]
<1>1. a \in S /\ g \in [S -> S]
  BY AnswersSound
<1>2. PICK f \in [Nat -> S] : f[0] = a /\ \A n \in Nat : f[n + 1] = g[f[n]]
  <2> HIDE DEF S, a, g
  <2> QED BY <1>1, RecursionOverNat
<1>3. ASSUME NEW depth \in Nat
      PROVE  f[depth] = FrameAnswers(s, f[depth - 1], depth)
  <2>1. CASE depth = 0
    BY <1>2, <2>1 DEF FrameAnswers
  <2>2. CASE depth # 0
    <3>1. PICK n \in Nat : depth = n + 1 /\ depth - 1 = n
      <4>1. depth - 1 \in Nat /\ depth = (depth - 1) + 1
        BY <2>2
      <4> QED BY <4>1
    <3>2. f[n] \in S /\ f[n + 1] = g[f[n]]
      <4> HIDE DEF S, g
      <4> QED BY <1>2
    <3>3. g[f[n]] = FrameAnswers(s, f[n], 1)
      <4> HIDE DEF S
      <4> QED BY <3>2
    <3>4. FrameAnswers(s, f[n], 1) = FrameAnswers(s, f[n], depth)
      BY <2>2 DEF FrameAnswers
    <3> QED BY <3>1, <3>2, <3>3, <3>4
  <2> QED BY <2>1, <2>2
<1>4. Recurs(f)
  <2> HIDE DEF S
  <2> QED BY <1>2, <1>3
<1>5. Walk(s) = CHOOSE h : Recurs(h)
  BY DEF Walk, FrameAnswers
<1> HIDE DEF Recurs
<1>6. Recurs(Walk(s))
  BY <1>4, <1>5
<1> QED BY <1>6 DEF Recurs

(* Resolution is sound at every depth of the stack.                         *)
LEMMA WalkSound ==
  ASSUME NEW s, Tree(s), NEW depth \in Nat
  PROVE  Walk(s)[depth] \in [Query -> Sound(s)]
<1> DEFINE T == {n \in Nat : Walk(s)[n] \in [Query -> Sound(s)]}
<1>1. \A n \in Nat : Walk(s)[n] = FrameAnswers(s, Walk(s)[n - 1], n)
  BY WalkEquation
<1>2. 0 \in T
  BY <1>1, AnswersSound
<1>3. ASSUME NEW n \in Nat, n \in T
      PROVE  n + 1 \in T
  <2>1. Walk(s)[n] \in [Query -> Sound(s)] /\ Walk(s)[n + 1] = FrameAnswers(s, Walk(s)[n], n + 1)
    BY <1>1, <1>3
  <2>2. FrameAnswers(s, Walk(s)[n], n + 1) \in [Query -> Sound(s)]
    BY <2>1, AnswersSound
  <2> QED BY <2>1, <2>2
<1> HIDE DEF T
<1>4. Nat \subseteq T
  BY <1>2, <1>3, NatSetInduction
<1> QED BY <1>4 DEF T

(* resolve_node, resolve_dir and resolve_file find nodes that exist, of the *)
(* kind they promise, and never look an index up outside its vector.        *)
LEMMA ResolveNodeSound ==
  ASSUME NEW s, Tree(s), NEW path \in PathName, NEW follow \in BOOLEAN
  PROVE  ResolveNode(s, path, follow) \in Sound(s)
<1>1. <<path, follow, {}>> \in Query
  BY DEF Query
<1> QED BY <1>1, WalkSound, StackDepthAssumption DEF ResolveNode

(* resolve_dir finds a directory that exists (fs.rs:483).                   *)
LEMMA ResolveDirSound ==
  ASSUME NEW s, Tree(s), NEW path \in PathName
  PROVE  ResolveDir(s, path) \in Sound(s) /\ IsDirOf(s, ResolveDir(s, path))
BY ResolveNodeSound, AsDirSound DEF ResolveDir

(* resolve_file finds a file that exists (fs.rs:476).                       *)
LEMMA ResolveFileSound ==
  ASSUME NEW s, Tree(s), NEW path \in PathName
  PROVE  /\ ResolveFile(s, path) \in Sound(s)
         /\ ResolveFile(s, path).err = Ok =>
               /\ ResolveFile(s, path).node.kind = "File"
               /\ ResolveFile(s, path).node.idx \in DOMAIN s.files
<1> DEFINE r == ResolveNode(s, path, TRUE)
<1>1. r \in Sound(s)
  BY ResolveNodeSound
<1>2. ResolveFile(s, path) =
        IF r.err = Ok /\ r.node.kind # "File" THEN Unresolved("NotAFile") ELSE r
  BY DEF ResolveFile, AsFile
<1> HIDE DEF r
<1>3. CASE r.err = Ok /\ r.node.kind # "File"
  <2>1. Unresolved("NotAFile") \in Sound(s) /\ Unresolved("NotAFile").err # Ok
    BY UnresolvedSound DEF ResolveErrors, Unresolved, Ok
  <2> QED BY <1>2, <1>3, <2>1
<1>4. CASE ~(r.err = Ok /\ r.node.kind # "File")
  BY <1>1, <1>2, <1>4 DEF Sound, NodeAllocated
<1> QED BY <1>3, <1>4

(***************************************************************************)
(* One step of a resolution.                                                *)
(***************************************************************************)
(* What a path resolves to with depth stack frames.                         *)
WalkAnswer(s, depth, path, follow, visited) == Walk(s)[depth][<<path, follow, visited>>]

(* The same when a symlink in its basename is followed.                     *)
Followed(s, depth, path, visited) == WalkAnswer(s, depth, path, TRUE, visited)

(* The same when it is not, on the way to a longer path.                    *)
OnTheWay(s, depth, path) == WalkAnswer(s, depth, path, FALSE, {})

(* The symlinks visited once symlink i is followed.                         *)
Seen(visited, i) == visited \cup {i}

(* The directory in which the last name of a path is looked up.             *)
Entered(s, depth, path) ==
  Enter(s, Walk(s)[depth], WalkAnswer(s, depth, ParentOf(path), FALSE, {}))

(* Answers are sound.                                                       *)
LEMMA AnswerSound ==
  ASSUME NEW s, Tree(s), NEW depth \in Nat, NEW path \in PathName,
         NEW follow \in BOOLEAN, NEW visited \in SUBSET Nat
  PROVE  WalkAnswer(s, depth, path, follow, visited) \in Sound(s)
<1>1. <<path, follow, visited>> \in Query
  BY DEF Query
<1> QED BY <1>1, WalkSound DEF WalkAnswer

(* The directory a path's last name is looked up in exists.                 *)
LEMMA EnteredSound ==
  ASSUME NEW s, Tree(s), NEW depth \in Nat, NEW path \in PathName
  PROVE  Entered(s, depth, path) \in Sound(s) /\ IsDirOf(s, Entered(s, depth, path))
<1>1. WalkAnswer(s, depth, ParentOf(path), FALSE, {}) \in Sound(s)
  BY AnswerSound, PathFacts
<1>2. \A q \in Query : Walk(s)[depth][q] \in Sound(s)
  BY WalkSound
<1> QED BY <1>1, <1>2, EnterSound DEF Entered

(* Without a stack there is no answer.                                      *)
LEMMA AnswerNoStack ==
  ASSUME NEW s, Tree(s), NEW path \in PathName, NEW follow \in BOOLEAN,
         NEW visited \in SUBSET Nat
  PROVE  WalkAnswer(s, 0, path, follow, visited) = Unresolved("StackOverflow")
<1>1. <<path, follow, visited>> \in Query
  BY DEF Query
<1>2. Walk(s)[0] = FrameAnswers(s, Walk(s)[0 - 1], 0)
  BY WalkEquation
<1> QED BY <1>1, <1>2 DEF WalkAnswer, FrameAnswers

(* With one, a path is resolved segment by segment.                         *)
LEMMA AnswerStep ==
  ASSUME NEW s, Tree(s), NEW depth \in Nat, NEW path \in PathName,
         NEW follow \in BOOLEAN, NEW visited \in SUBSET Nat
  PROVE  /\ IsRoot(path) =>
              WalkAnswer(s, depth + 1, path, follow, visited) = Resolved(DirNode(RootIndex), {})
         /\ ~IsRoot(path) =>
              WalkAnswer(s, depth + 1, path, follow, visited) =
                FollowLast(s, Walk(s)[depth],
                           LookUp(s, Entered(s, depth, path), NameOf(path)), follow, visited)
<1> DEFINE q == <<path, follow, visited>>
<1>1. q \in Query
  BY DEF Query
<1>2. Walk(s)[depth + 1] = FrameAnswers(s, Walk(s)[depth], depth + 1)
  <2>1. depth + 1 \in Nat /\ (depth + 1) - 1 = depth
    OBVIOUS
  <2> QED BY <2>1, WalkEquation
<1>3. FrameAnswers(s, Walk(s)[depth], depth + 1)[q] =
        ResolveNodeRec(s, Walk(s)[depth], path, follow, visited)
  <2>1. depth + 1 # 0
    OBVIOUS
  <2> QED BY <1>1, <2>1 DEF FrameAnswers
<1> QED BY <1>2, <1>3 DEF WalkAnswer, ResolveNodeRec, Entered, Child

(* resolve_dir succeeds exactly on directories that exist.                  *)
LEMMA AsDirOk ==
  ASSUME NEW s, NEW r
  PROVE  /\ AsDir(s, r).err = Ok <=>
              r.err = Ok /\ r.node.kind = "Dir" /\ r.node.idx \in DOMAIN s.dirs
         /\ AsDir(s, r).err = Ok => AsDir(s, r) = r
         /\ r.err # Ok => AsDir(s, r) = r
<1>1. Unresolved("NotADir").err # Ok /\ Unresolved("Panic").err # Ok
  BY DEF Unresolved, Ok
<1> QED BY <1>1 DEF AsDir

(* A symlink that resolution finds exists, and its target is a path.        *)
LEMMA LinkFacts ==
  ASSUME NEW s, Tree(s), NEW r \in Sound(s), r.err = Ok, r.node.kind = "Symlink"
  PROVE  /\ r.node.idx \in DOMAIN s.symlinks /\ r.node.idx \in Nat
         /\ s.symlinks[r.node.idx] \in PathName
         /\ \A visited \in SUBSET Nat : Seen(visited, r.node.idx) \in SUBSET Nat
<1>1. r.node.idx \in DOMAIN s.symlinks /\ r.node.idx \in Nat
  BY DEF Sound, NodeAllocated, Node, Result
<1> QED BY <1>1, SymlinkFacts DEF Seen

(* Any other node ends the resolution.                                      *)
LEMMA NotFollowed ==
  ASSUME NEW s, NEW below, NEW r, NEW follow, NEW visited,
         ~(r.err = Ok /\ r.node.kind = "Symlink" /\ follow)
  PROVE  FollowLast(s, below, r, follow, visited) = r
BY DEF FollowLast

(***************************************************************************)
(* What the depth of the stack, the symlinks visited and the following of   *)
(* the last symlink change.                                                 *)
(***************************************************************************)
Fits(r) == r.err # "StackOverflow"

(* One more stack frame than depth changes no answer that depth had room    *)
(* for.                                                                     *)
Enough(s, depth) ==
  \A path \in PathName, follow \in BOOLEAN, visited \in SUBSET Nat :
    Fits(WalkAnswer(s, depth, path, follow, visited))
      => WalkAnswer(s, depth + 1, path, follow, visited) = WalkAnswer(s, depth, path, follow, visited)

(* Neither does it change the directory entered,                            *)
LEMMA EnteredEnough ==
  ASSUME NEW s, Tree(s), NEW depth \in Nat, Enough(s, depth), NEW path \in PathName,
         Fits(Entered(s, depth, path))
  PROVE  Entered(s, depth + 1, path) = Entered(s, depth, path)
<1> DEFINE parent == ParentOf(path)
<1>1. PICK up : up = WalkAnswer(s, depth, parent, FALSE, {})
  OBVIOUS
<1>2. up \in Sound(s) /\ parent \in PathName
  BY <1>1, AnswerSound, PathFacts
<1>3. Entered(s, depth, path) = Enter(s, Walk(s)[depth], up)
  BY <1>1 DEF Entered
<1>4. Fits(up)
  <2>1. ~Fits(up) => Enter(s, Walk(s)[depth], up) = up
    BY DEF Enter, AsDir, Fits, Ok
  <2> QED BY <1>3, <2>1
<1>5. WalkAnswer(s, depth + 1, parent, FALSE, {}) = up
  BY <1>1, <1>2, <1>4 DEF Enough
<1>6. Entered(s, depth + 1, path) = Enter(s, Walk(s)[depth + 1], up)
  BY <1>5 DEF Entered
<1>7. CASE up.err # Ok \/ up.node.kind # "Symlink"
  BY <1>2, <1>3, <1>6, <1>7 DEF Enter, Sound, Node
<1>8. CASE up.err = Ok /\ up.node.kind = "Symlink"
  <2>1. PICK target : target = s.symlinks[up.node.idx]
    OBVIOUS
  <2>2. target \in PathName /\ up.node.idx \in DOMAIN s.symlinks
    BY <1>2, <1>8, <2>1, LinkFacts
  <2>3. ASSUME NEW n
        PROVE  Enter(s, Walk(s)[n], up) = Via(up.dirs, AsDir(s, WalkAnswer(s, n, target, TRUE, {})))
    BY <1>8, <2>1, <2>2 DEF Enter, WalkAnswer
  <2>4. Fits(WalkAnswer(s, depth, target, TRUE, {}))
    <3>1. \A r : ~Fits(r) => ~Fits(Via(up.dirs, AsDir(s, r)))
      BY DEF AsDir, Via, Fits, Ok
    <3> QED BY <1>3, <2>3, <3>1
  <2>5. WalkAnswer(s, depth + 1, target, TRUE, {}) = WalkAnswer(s, depth, target, TRUE, {})
    BY <2>2, <2>4 DEF Enough
  <2> QED BY <1>3, <1>6, <2>3, <2>5
<1> QED BY <1>7, <1>8

(* nor where a symlink in the basename leads;                               *)
LEMMA FollowEnough ==
  ASSUME NEW s, Tree(s), NEW depth \in Nat, Enough(s, depth), NEW r \in Sound(s),
         NEW follow \in BOOLEAN, NEW visited \in SUBSET Nat,
         Fits(FollowLast(s, Walk(s)[depth], r, follow, visited))
  PROVE  FollowLast(s, Walk(s)[depth + 1], r, follow, visited)
           = FollowLast(s, Walk(s)[depth], r, follow, visited)
<1>1. CASE r.err = Ok /\ r.node.kind = "Symlink" /\ follow
  <2>1. \A n : FollowLast(s, Walk(s)[n], r, follow, visited) = Follow(s, Walk(s)[n], r, visited)
    BY <1>1 DEF FollowLast
  <2>2. PICK target : target = s.symlinks[r.node.idx]
    OBVIOUS
  <2>3. PICK seen : seen = Seen(visited, r.node.idx)
    OBVIOUS
  <2>4. target \in PathName /\ seen \in SUBSET Nat /\ r.node.idx \in DOMAIN s.symlinks
    BY <1>1, <2>2, <2>3, LinkFacts
  <2>5. ASSUME NEW n \in Nat
        PROVE  Follow(s, Walk(s)[n], r, visited) =
                 IF r.node.idx \in visited THEN Unresolved("LoopExists")
                 ELSE Via(r.dirs, WalkAnswer(s, n, target, TRUE, seen))
    BY <2>2, <2>3, <2>4 DEF Follow, WalkAnswer, Seen
  <2>6. CASE r.node.idx \in visited
    BY <2>1, <2>5, <2>6
  <2>7. CASE r.node.idx \notin visited
    <3>1. Fits(WalkAnswer(s, depth, target, TRUE, seen))
      <4>1. Fits(Via(r.dirs, WalkAnswer(s, depth, target, TRUE, seen)))
        BY <2>1, <2>5, <2>7, Zenon
      <4> QED BY <4>1 DEF Fits, Via
    <3>2. WalkAnswer(s, depth + 1, target, TRUE, seen) = WalkAnswer(s, depth, target, TRUE, seen)
      BY <2>4, <3>1 DEF Enough
    <3>3. depth + 1 \in Nat
      OBVIOUS
    <3> QED BY <2>1, <2>5, <2>7, <3>2, <3>3, Zenon
  <2> QED BY <2>6, <2>7
<1>2. CASE ~(r.err = Ok /\ r.node.kind = "Symlink" /\ follow)
  BY <1>2, NotFollowed
<1> QED BY <1>1, <1>2

(* so, by induction, a stack deep enough is deep enough with one more.      *)
LEMMA OneMoreFrame ==
  ASSUME NEW s, Tree(s), NEW depth \in Nat
  PROVE  Enough(s, depth)
<1> DEFINE T == {n \in Nat : Enough(s, n)}
<1>1. 0 \in T
  <2>1. ~Fits(Unresolved("StackOverflow"))
    BY DEF Fits, Unresolved
  <2> QED BY <2>1, AnswerNoStack DEF Enough
<1>2. ASSUME NEW n \in Nat, n \in T
      PROVE  n + 1 \in T
  <2> SUFFICES ASSUME NEW p \in PathName, NEW f \in BOOLEAN, NEW v \in SUBSET Nat,
                      Fits(WalkAnswer(s, n + 1, p, f, v))
               PROVE  WalkAnswer(s, (n + 1) + 1, p, f, v) = WalkAnswer(s, n + 1, p, f, v)
    BY DEF Enough
  <2>1. CASE IsRoot(p)
    BY <2>1, AnswerStep
  <2>2. CASE ~IsRoot(p)
    <3>1. PICK in : in = Entered(s, n, p)
      OBVIOUS
    <3>2. PICK last : last = LookUp(s, in, NameOf(p))
      OBVIOUS
    <3>3. WalkAnswer(s, n + 1, p, f, v) = FollowLast(s, Walk(s)[n], last, f, v)
      BY <2>2, <3>1, <3>2, AnswerStep
    <3>4. Fits(last)
      <4>1. ~Fits(last) => FollowLast(s, Walk(s)[n], last, f, v) = last
        BY DEF FollowLast, Fits, Ok
      <4> QED BY <3>3, <4>1
    <3>5. Fits(in)
      <4>1. ~Fits(in) => LookUp(s, in, NameOf(p)) = in
        BY DEF LookUp, Fits, Ok
      <4> QED BY <3>2, <3>4, <4>1
    <3>6. Entered(s, n + 1, p) = in
      BY <1>2, <3>1, <3>5, EnteredEnough
    <3>7. WalkAnswer(s, (n + 1) + 1, p, f, v) = FollowLast(s, Walk(s)[n + 1], last, f, v)
      BY <2>2, <3>2, <3>6, AnswerStep
    <3>8. last \in Sound(s)
      <4>1. last = Child(s, Walk(s)[n], WalkAnswer(s, n, ParentOf(p), FALSE, {}), NameOf(p))
        BY <3>1, <3>2 DEF Entered, Child
      <4>2. \A q \in Query : Walk(s)[n][q] \in Sound(s)
        BY WalkSound
      <4>3. WalkAnswer(s, n, ParentOf(p), FALSE, {}) \in Sound(s) /\ NameOf(p) \in Keys
        BY AnswerSound, PathFacts
      <4> QED BY <4>1, <4>2, <4>3, ChildSound
    <3> QED BY <1>2, <3>3, <3>7, <3>8, FollowEnough
  <2> QED BY <2>1, <2>2
<1> HIDE DEF T
<1>3. Nat \subseteq T
  BY <1>1, <1>2, NatSetInduction
<1> QED BY <1>3 DEF T

(* Nor do more of them.                                                     *)
LEMMA MoreFrames ==
  ASSUME NEW s, Tree(s), NEW depth \in Nat, NEW more \in Nat, depth <= more,
         NEW path \in PathName, NEW follow \in BOOLEAN, NEW visited \in SUBSET Nat,
         Fits(WalkAnswer(s, depth, path, follow, visited))
  PROVE  WalkAnswer(s, more, path, follow, visited) = WalkAnswer(s, depth, path, follow, visited)
<1> DEFINE r == WalkAnswer(s, depth, path, follow, visited)
           T == {n \in Nat : n >= depth => WalkAnswer(s, n, path, follow, visited) = r}
<1>1. 0 \in T
  <2>1. 0 >= depth => depth = 0
    OBVIOUS
  <2> QED BY <2>1
<1>2. ASSUME NEW n \in Nat, n \in T
      PROVE  n + 1 \in T
  <2> SUFFICES ASSUME n + 1 >= depth
               PROVE  WalkAnswer(s, n + 1, path, follow, visited) = r
    OBVIOUS
  <2>1. CASE n + 1 = depth
    BY <2>1
  <2>2. CASE n >= depth
    <3>1. WalkAnswer(s, n, path, follow, visited) = r
      BY <1>2, <2>2
    <3> QED BY <3>1, OneMoreFrame DEF Enough
  <2> QED BY <2>1, <2>2
<1> HIDE DEF T
<1>3. Nat \subseteq T
  BY <1>1, <1>2, NatSetInduction
<1> QED BY <1>3 DEF T

(***************************************************************************)
(* Resolutions that succeed.                                                *)
(***************************************************************************)
(* The node found under the last name of a path, and the directories passed *)
(* to find it.                                                              *)
Looked(s, depth, path) ==
  s.dirs[Entered(s, depth, path).node.idx][NameOf(path)]

Passed(s, depth, path) ==
  Entered(s, depth, path).dirs \cup {Entered(s, depth, path).node.idx}

Found(s, depth, path) == Entered(s, depth, path).err = Ok /\ Looked(s, depth, path) # Absent

(* The answer for the target of the symlink found.                          *)
Beyond(s, depth, path, visited) ==
  Followed(s, depth, s.symlinks[Looked(s, depth, path).idx],
           Seen(visited, Looked(s, depth, path).idx))

(* What is found exists.                                                    *)
LEMMA FoundFacts ==
  ASSUME NEW s, Tree(s), NEW depth \in Nat, NEW path \in PathName, Found(s, depth, path)
  PROVE  /\ Looked(s, depth, path) \in Node /\ NodeAllocated(s, Looked(s, depth, path))
         /\ Entered(s, depth, path).node.kind = "Dir"
         /\ Entered(s, depth, path).node.idx \in DOMAIN s.dirs
         /\ Passed(s, depth, path) \in SUBSET Nat
<1>1. PICK in : in = Entered(s, depth, path)
  OBVIOUS
<1>2. in \in Sound(s) /\ in.err = Ok /\ in.node.kind = "Dir" /\ in.node.idx \in DOMAIN s.dirs
  BY <1>1, EnteredSound DEF Found, IsDirOf
<1>3. NameOf(path) \in Keys
  BY PathFacts
<1>4. /\ s.dirs[in.node.idx][NameOf(path)] \in Node \cup {Absent}
      /\ NodeAllocated(s, s.dirs[in.node.idx][NameOf(path)])
      /\ in.node.idx \in Nat
  BY <1>2, <1>3, EntryFacts
<1>5. in.dirs \in SUBSET Nat
  BY <1>2 DEF Sound, Result
<1> QED BY <1>1, <1>2, <1>4, <1>5 DEF Found, Looked, Passed

(* A symlink that is found has a target.                                    *)
LEMMA FoundLink ==
  ASSUME NEW s, Tree(s), NEW depth \in Nat, NEW path \in PathName, Found(s, depth, path),
         Looked(s, depth, path).kind = "Symlink"
  PROVE  /\ Looked(s, depth, path).idx \in DOMAIN s.symlinks
         /\ Looked(s, depth, path).idx \in Nat
         /\ s.symlinks[Looked(s, depth, path).idx] \in PathName
         /\ \A visited \in SUBSET Nat :
              /\ Seen(visited, Looked(s, depth, path).idx) \in SUBSET Nat
              /\ Beyond(s, depth, path, visited) \in Sound(s)
<1>1. PICK node : node = Looked(s, depth, path)
  OBVIOUS
<1>2. node \in Node /\ node.kind = "Symlink" /\ node.idx \in DOMAIN s.symlinks /\ node.idx \in Nat
  BY <1>1, FoundFacts DEF NodeAllocated, Node
<1>3. s.symlinks[node.idx] \in PathName
  BY <1>2, SymlinkFacts
<1>4. ASSUME NEW visited \in SUBSET Nat
      PROVE  /\ Seen(visited, node.idx) \in SUBSET Nat
             /\ Followed(s, depth, s.symlinks[node.idx], Seen(visited, node.idx)) \in Sound(s)
  <2>1. Seen(visited, node.idx) \in SUBSET Nat
    BY <1>2 DEF Seen
  <2> QED BY <1>3, <2>1, AnswerSound DEF Followed
<1> QED BY <1>1, <1>2, <1>3, <1>4 DEF Beyond

(* The answer in terms of what is found.                                    *)
LEMMA AnswerFound ==
  ASSUME NEW s, Tree(s), NEW depth \in Nat, NEW path \in PathName, ~IsRoot(path),
         NEW follow \in BOOLEAN, NEW visited \in SUBSET Nat, Found(s, depth, path)
  PROVE  LET node == Looked(s, depth, path)
             r    == WalkAnswer(s, depth + 1, path, follow, visited)
         IN  /\ ~(node.kind = "Symlink" /\ follow) => r = Resolved(node, Passed(s, depth, path))
             /\ node.kind = "Symlink" /\ follow =>
                  /\ node.idx \notin visited =>
                       r = Via(Passed(s, depth, path), Beyond(s, depth, path, visited))
                  /\ node.idx \in visited => r.err # Ok
<1> DEFINE last == Resolved(Looked(s, depth, path), Passed(s, depth, path))
<1>1. LookUp(s, Entered(s, depth, path), NameOf(path)) = last
  BY DEF LookUp, NameExists, Found, Looked, Passed
<1>2. WalkAnswer(s, depth + 1, path, follow, visited) =
        FollowLast(s, Walk(s)[depth], last, follow, visited)
  BY <1>1, AnswerStep
<1>3. last.err = Ok /\ last.node = Looked(s, depth, path) /\ last.dirs = Passed(s, depth, path)
  BY DEF Resolved
<1> HIDE DEF last
<1>4. CASE ~(Looked(s, depth, path).kind = "Symlink" /\ follow)
  <2>1. FollowLast(s, Walk(s)[depth], last, follow, visited) = last
    BY <1>3, <1>4 DEF FollowLast
  <2> QED BY <1>2, <1>4, <2>1 DEF last
<1>5. CASE Looked(s, depth, path).kind = "Symlink" /\ follow
  <2>1. WalkAnswer(s, depth + 1, path, follow, visited) = Follow(s, Walk(s)[depth], last, visited)
    BY <1>2, <1>3, <1>5 DEF FollowLast
  <2>2. last.node.idx \in DOMAIN s.symlinks
    BY <1>3, <1>5, FoundLink
  <2>3. Follow(s, Walk(s)[depth], last, visited) =
          IF last.node.idx \in visited THEN Unresolved("LoopExists")
          ELSE Via(Passed(s, depth, path), Beyond(s, depth, path, visited))
    BY <1>3, <2>2 DEF Follow, WalkAnswer, Seen, Beyond, Followed
  <2>4. Unresolved("LoopExists").err # Ok
    BY DEF Unresolved, Ok
  <2> QED BY <1>3, <1>5, <2>1, <2>3, <2>4
<1> QED BY <1>4, <1>5

(* A resolution succeeds on the root, or on what it finds.                  *)
LEMMA OkFound ==
  ASSUME NEW s, Tree(s), NEW depth \in Nat, NEW path \in PathName, ~IsRoot(path),
         NEW follow \in BOOLEAN, NEW visited \in SUBSET Nat,
         WalkAnswer(s, depth + 1, path, follow, visited).err = Ok
  PROVE  /\ Found(s, depth, path)
         /\ Looked(s, depth, path).kind = "Symlink" /\ follow =>
              /\ Looked(s, depth, path).idx \notin visited
              /\ Beyond(s, depth, path, visited).err = Ok
<1>1. Found(s, depth, path)
  <2> SUFFICES ASSUME ~Found(s, depth, path)
               PROVE  WalkAnswer(s, depth + 1, path, follow, visited).err # Ok
    OBVIOUS
  <2>1. LookUp(s, Entered(s, depth, path), NameOf(path)).err # Ok
    BY DEF LookUp, NameExists, Unresolved, Ok, Found, Looked
  <2> QED BY <2>1, AnswerStep DEF FollowLast
<1>2. ASSUME Looked(s, depth, path).kind = "Symlink", follow
      PROVE  /\ Looked(s, depth, path).idx \notin visited
             /\ Beyond(s, depth, path, visited).err = Ok
  <2>1. Looked(s, depth, path).idx \notin visited
    BY <1>1, <1>2, AnswerFound
  <2>2. WalkAnswer(s, depth + 1, path, follow, visited) =
          Via(Passed(s, depth, path), Beyond(s, depth, path, visited))
    BY <1>1, <1>2, <2>1, AnswerFound
  <2> QED BY <2>1, <2>2 DEF Via
<1> QED BY <1>1, <1>2

(* Where fewer symlinks have been visited, a resolution succeeds as well.   *)
LEMMA FewerVisited ==
  ASSUME NEW s, Tree(s), NEW depth \in Nat
  PROVE  \A path \in PathName, follow \in BOOLEAN, visited \in SUBSET Nat :
           \A less \in SUBSET visited :
             WalkAnswer(s, depth, path, follow, visited).err = Ok =>
               WalkAnswer(s, depth, path, follow, less) = WalkAnswer(s, depth, path, follow, visited)
<1> DEFINE P(n) == \A path \in PathName, follow \in BOOLEAN, visited \in SUBSET Nat :
                     \A less \in SUBSET visited :
                       WalkAnswer(s, n, path, follow, visited).err = Ok =>
                         WalkAnswer(s, n, path, follow, less) = WalkAnswer(s, n, path, follow, visited)
           T == {n \in Nat : P(n)}
<1>1. 0 \in T
  <2>1. Unresolved("StackOverflow").err # Ok
    BY DEF Unresolved, Ok
  <2> QED BY <2>1, AnswerNoStack
<1>2. ASSUME NEW n \in Nat, n \in T
      PROVE  n + 1 \in T
  <2> SUFFICES ASSUME NEW p \in PathName, NEW f \in BOOLEAN, NEW v \in SUBSET Nat,
                      NEW u \in SUBSET v, WalkAnswer(s, n + 1, p, f, v).err = Ok
               PROVE  WalkAnswer(s, n + 1, p, f, u) = WalkAnswer(s, n + 1, p, f, v)
    OBVIOUS
  <2>0. u \in SUBSET Nat /\ v \in SUBSET Nat
    OBVIOUS
  <2>1. CASE IsRoot(p)
    BY <2>0, <2>1, AnswerStep
  <2>2. CASE ~IsRoot(p)
    <3>1. Found(s, n, p)
      BY <2>2, OkFound
    <3>2. CASE ~(Looked(s, n, p).kind = "Symlink" /\ f)
      BY <2>0, <2>2, <3>1, <3>2, AnswerFound
    <3>3. CASE Looked(s, n, p).kind = "Symlink" /\ f
      <4>1. Looked(s, n, p).idx \notin v /\ Beyond(s, n, p, v).err = Ok
        BY <2>2, <3>3, OkFound
      <4>2. Looked(s, n, p).idx \notin u
        BY <4>1
      <4>3. WalkAnswer(s, n + 1, p, f, v) = Via(Passed(s, n, p), Beyond(s, n, p, v))
        <5>1. Looked(s, n, p).idx \notin v
          BY <4>1
        <5> HIDE DEF T
        <5> QED BY <2>0, <2>2, <3>1, <3>3, <5>1, AnswerFound, Zenon
      <4>9. WalkAnswer(s, n + 1, p, f, u) = Via(Passed(s, n, p), Beyond(s, n, p, u))
        BY <2>0, <2>2, <3>1, <3>3, <4>2, AnswerFound
      <4>4. PICK target, sv, su : /\ target = s.symlinks[Looked(s, n, p).idx]
                                  /\ sv = Seen(v, Looked(s, n, p).idx)
                                  /\ su = Seen(u, Looked(s, n, p).idx)
        OBVIOUS
      <4>5. target \in PathName /\ sv \in SUBSET Nat
        BY <3>1, <3>3, <4>4, FoundLink
      <4>6. su \in SUBSET sv
        BY <4>4 DEF Seen
      <4>7. WalkAnswer(s, n, target, TRUE, su) = WalkAnswer(s, n, target, TRUE, sv)
        BY <1>2, <4>1, <4>4, <4>5, <4>6 DEF Beyond, Followed
      <4>8. Beyond(s, n, p, u) = Beyond(s, n, p, v)
        BY <4>4, <4>7 DEF Beyond, Followed
      <4> QED BY <4>3, <4>8, <4>9
    <3> QED BY <3>2, <3>3
  <2> QED BY <2>1, <2>2
<1> HIDE DEF T
<1>3. Nat \subseteq T
  BY <1>1, <1>2, NatSetInduction
<1> QED BY <1>3 DEF T

(* What is resolved with the last symlink followed is not a symlink.        *)
LEMMA FollowedIsNoLink ==
  ASSUME NEW s, Tree(s), NEW depth \in Nat
  PROVE  \A path \in PathName, visited \in SUBSET Nat :
           Followed(s, depth, path, visited).err = Ok =>
             Followed(s, depth, path, visited).node.kind # "Symlink"
<1> DEFINE P(n) == \A path \in PathName, visited \in SUBSET Nat :
                     Followed(s, n, path, visited).err = Ok =>
                       Followed(s, n, path, visited).node.kind # "Symlink"
           T == {n \in Nat : P(n)}
<1>1. 0 \in T
  <2>1. Unresolved("StackOverflow").err # Ok
    BY DEF Unresolved, Ok
  <2> QED BY <2>1, AnswerNoStack DEF Followed
<1>2. ASSUME NEW n \in Nat, n \in T
      PROVE  n + 1 \in T
  <2> SUFFICES ASSUME NEW p \in PathName, NEW v \in SUBSET Nat,
                      Followed(s, n + 1, p, v).err = Ok
               PROVE  Followed(s, n + 1, p, v).node.kind # "Symlink"
    OBVIOUS
  <2>1. CASE IsRoot(p)
    <3>1. Followed(s, n + 1, p, v) = Resolved(DirNode(RootIndex), {})
      BY <2>1, AnswerStep DEF Followed
    <3> QED BY <3>1 DEF Resolved, DirNode
  <2>2. CASE ~IsRoot(p)
    <3>1. Found(s, n, p)
      BY <2>2, OkFound DEF Followed
    <3>2. CASE Looked(s, n, p).kind # "Symlink"
      <4>1. Followed(s, n + 1, p, v) = Resolved(Looked(s, n, p), Passed(s, n, p))
        BY <2>2, <3>1, <3>2, AnswerFound DEF Followed
      <4> QED BY <3>2, <4>1 DEF Resolved
    <3>3. CASE Looked(s, n, p).kind = "Symlink"
      <4>1. Looked(s, n, p).idx \notin v /\ Beyond(s, n, p, v).err = Ok
        BY <2>2, <3>3, OkFound DEF Followed
      <4>2. Followed(s, n + 1, p, v) = Via(Passed(s, n, p), Beyond(s, n, p, v))
        BY <2>2, <3>1, <3>3, <4>1, AnswerFound DEF Followed
      <4>3. Beyond(s, n, p, v).node.kind # "Symlink"
        <5>1. PICK target, sv : /\ target = s.symlinks[Looked(s, n, p).idx]
                                /\ sv = Seen(v, Looked(s, n, p).idx)
          OBVIOUS
        <5>2. target \in PathName /\ sv \in SUBSET Nat
          BY <3>1, <3>3, <5>1, FoundLink
        <5> QED BY <1>2, <4>1, <5>1, <5>2 DEF Beyond
      <4> QED BY <4>2, <4>3 DEF Via
    <3> QED BY <3>2, <3>3
  <2> QED BY <2>1, <2>2
<1> HIDE DEF T
<1>3. Nat \subseteq T
  BY <1>1, <1>2, NatSetInduction
<1> QED BY <1>3 DEF T

(* The target of symlink y is resolved with fewer stack frames than depth.  *)
ResolvedBelow(s, y, depth) ==
  \E m \in Nat, visited \in SUBSET Nat :
    m < depth /\ Followed(s, m, s.symlinks[y], visited).err = Ok

(* A symlink that has been visited, too, changes a resolution only if the   *)
(* resolution follows it.                                                   *)
OnlyThrough(s, y, depth) ==
  \A path \in PathName, follow \in BOOLEAN, visited \in SUBSET Nat :
    WalkAnswer(s, depth, path, follow, visited).err = Ok =>
      \/ WalkAnswer(s, depth, path, follow, Seen(visited, y))
           = WalkAnswer(s, depth, path, follow, visited)
      \/ ResolvedBelow(s, y, depth)

(* By induction on the stack frames.                                        *)
LEMMA OneMoreVisited ==
  ASSUME NEW s, Tree(s), NEW y \in Nat, NEW depth \in Nat
  PROVE  OnlyThrough(s, y, depth)
<1> DEFINE T == {n \in Nat : OnlyThrough(s, y, n)}
<1>1. 0 \in T
  <2>1. Unresolved("StackOverflow").err # Ok
    BY DEF Unresolved, Ok
  <2> QED BY <2>1, AnswerNoStack DEF OnlyThrough
<1>2. ASSUME NEW n \in Nat, OnlyThrough(s, y, n)
      PROVE  OnlyThrough(s, y, n + 1)
  <2> SUFFICES ASSUME NEW p \in PathName, NEW f \in BOOLEAN, NEW v \in SUBSET Nat,
                      WalkAnswer(s, n + 1, p, f, v).err = Ok, ~ResolvedBelow(s, y, n + 1)
               PROVE  WalkAnswer(s, n + 1, p, f, Seen(v, y)) = WalkAnswer(s, n + 1, p, f, v)
    BY DEF OnlyThrough
  <2>0. Seen(v, y) \in SUBSET Nat /\ v \in SUBSET Nat
    BY DEF Seen
  <2>1. CASE IsRoot(p)
    BY <2>0, <2>1, AnswerStep
  <2>2. CASE ~IsRoot(p)
    <3>1. Found(s, n, p)
      BY <2>2, OkFound
    <3>2. CASE ~(Looked(s, n, p).kind = "Symlink" /\ f)
      BY <2>0, <2>2, <3>1, <3>2, AnswerFound
    <3>3. CASE Looked(s, n, p).kind = "Symlink" /\ f
      <4>1. PICK i, target : i = Looked(s, n, p).idx /\ target = s.symlinks[i]
        OBVIOUS
      <4>2. target \in PathName /\ Seen(v, i) \in SUBSET Nat /\ i \in Nat
        BY <3>1, <3>3, <4>1, FoundLink
      <4>3. i \notin v /\ Followed(s, n, target, Seen(v, i)).err = Ok
        <5>1. Looked(s, n, p).idx \notin v /\ Beyond(s, n, p, v).err = Ok
          BY <2>2, <3>3, OkFound
        <5> QED BY <4>1, <5>1 DEF Beyond
      <4>4. ~ResolvedBelow(s, y, n)
        BY DEF ResolvedBelow
      <4>5. i # y
        BY <4>1, <4>2, <4>3 DEF ResolvedBelow
      <4>6. i \notin Seen(v, y) /\ Seen(Seen(v, y), i) = Seen(Seen(v, i), y)
        BY <4>3, <4>5 DEF Seen
      <4>7. Followed(s, n, target, Seen(Seen(v, i), y)) = Followed(s, n, target, Seen(v, i))
        BY <1>2, <4>2, <4>3, <4>4 DEF OnlyThrough, Followed
      <4>8. Beyond(s, n, p, Seen(v, y)) = Beyond(s, n, p, v)
        BY <4>1, <4>6, <4>7 DEF Beyond
      <4>9. Looked(s, n, p).idx \notin v /\ Looked(s, n, p).idx \notin Seen(v, y)
        BY <4>1, <4>3, <4>6
      <4>10. WalkAnswer(s, n + 1, p, f, v) = Via(Passed(s, n, p), Beyond(s, n, p, v))
        BY <2>0, <2>2, <3>1, <3>3, <4>9, AnswerFound, Zenon
      <4>11. WalkAnswer(s, n + 1, p, f, Seen(v, y)) = Via(Passed(s, n, p), Beyond(s, n, p, Seen(v, y)))
        BY <2>0, <2>2, <3>1, <3>3, <4>9, AnswerFound, Zenon
      <4> QED BY <4>8, <4>10, <4>11
    <3> QED BY <3>2, <3>3
  <2> QED BY <2>1, <2>2
<1>3. ASSUME NEW n \in Nat, n \in T
      PROVE  n + 1 \in T
  BY <1>2, <1>3
<1> HIDE DEF T
<1>4. Nat \subseteq T
  BY <1>1, <1>3, NatSetInduction
<1> QED BY <1>4 DEF T

(* So the target of a symlink is resolved no differently from the symlink   *)
(* itself: if it led back to the symlink, a shorter resolution would not.   *)
LEMMA LinkOnce ==
  ASSUME NEW s, Tree(s), NEW y \in DOMAIN s.symlinks, y \in Nat, NEW depth \in Nat,
         Followed(s, depth, s.symlinks[y], {}).err = Ok
  PROVE  Followed(s, depth, s.symlinks[y], Seen({}, y)) = Followed(s, depth, s.symlinks[y], {})
<1> DEFINE M == {m \in Nat : \E v \in SUBSET Nat : Followed(s, m, s.symlinks[y], v).err = Ok}
<1>0. {} \in SUBSET Nat /\ Seen({}, y) \in SUBSET Nat /\ s.symlinks[y] \in PathName
  BY SymlinkFacts DEF Seen
<1>1. depth \in M
  BY <1>0
<1>2. PICK m \in M : \A k \in M : m <= k
  <2>1. M \subseteq Nat /\ M # {}
    BY <1>1
  <2> HIDE DEF M
  <2> QED BY <2>1, LeastNat
<1>3. PICK v \in SUBSET Nat : Followed(s, m, s.symlinks[y], v).err = Ok
  OBVIOUS
<1>4. m \in Nat /\ m <= depth
  BY <1>1, <1>2
<1>5. Followed(s, m, s.symlinks[y], {}).err = Ok
  <2>1. {} \in SUBSET v
    OBVIOUS
  <2> QED BY <1>0, <1>3, <1>4, <2>1, FewerVisited DEF Followed
<1>6. ~ResolvedBelow(s, y, m)
  BY <1>2, <1>4 DEF ResolvedBelow
<1>7. Followed(s, m, s.symlinks[y], Seen({}, y)) = Followed(s, m, s.symlinks[y], {})
  <2>1. OnlyThrough(s, y, m)
    BY <1>4, OneMoreVisited
  <2> QED BY <1>0, <1>5, <1>6, <2>1 DEF OnlyThrough, Followed
<1>8. Fits(Followed(s, m, s.symlinks[y], {}))
  BY <1>5 DEF Fits, Ok
<1>9. ASSUME NEW u \in SUBSET Nat, Fits(Followed(s, m, s.symlinks[y], u))
      PROVE  Followed(s, depth, s.symlinks[y], u) = Followed(s, m, s.symlinks[y], u)
  BY <1>0, <1>4, <1>9, MoreFrames DEF Followed
<1> QED BY <1>0, <1>7, <1>8, <1>9

(***************************************************************************)
(* The directory a path's last name is looked up in is the one resolve_dir  *)
(* finds for its parent.                                                    *)
(***************************************************************************)
(* The fields of a result.                                                  *)
LEMMA ResultFields ==
  /\ \A node, dirs : /\ Resolved(node, dirs).err = Ok /\ Resolved(node, dirs).node = node
                     /\ Resolved(node, dirs).dirs = dirs
  /\ \A dirs, r : /\ Via(dirs, r).err = r.err /\ Via(dirs, r).node = r.node
                  /\ Via(dirs, r).dirs = dirs \cup r.dirs
BY DEF Resolved, Via

(* The parent, resolved on the way to the child.                            *)
LEMMA ParentOnTheWay ==
  ASSUME NEW s, Tree(s), NEW depth \in Nat, NEW path \in PathName, ~IsRoot(path),
         Found(s, depth, path), NEW up, up = OnTheWay(s, depth, path), Fits(up)
  PROVE  /\ up = Resolved(Looked(s, depth, path), Passed(s, depth, path))
         /\ Looked(s, depth, path).kind # "Symlink" =>
              Enter(s, Walk(s)[depth], up) = AsDir(s, up)
         /\ Looked(s, depth, path).kind = "Symlink" =>
              Enter(s, Walk(s)[depth], up) =
                Via(Passed(s, depth, path),
                    AsDir(s, Followed(s, depth, s.symlinks[Looked(s, depth, path).idx], {})))
<1>1. OnTheWay(s, depth + 1, path) = up
  BY OneMoreFrame DEF Enough, OnTheWay
<1>2. up = Resolved(Looked(s, depth, path), Passed(s, depth, path))
  BY <1>1, AnswerFound DEF OnTheWay
<1>3. up.err = Ok /\ up.node = Looked(s, depth, path) /\ up.dirs = Passed(s, depth, path)
  BY <1>2, ResultFields
<1>4. Looked(s, depth, path).kind \in {"Dir", "File", "Symlink"}
  BY FoundFacts DEF Node
<1>5. CASE Looked(s, depth, path).kind # "Symlink"
  BY <1>2, <1>3, <1>4, <1>5 DEF Enter, AsDir
<1>6. CASE Looked(s, depth, path).kind = "Symlink"
  <2>1. Looked(s, depth, path).idx \in DOMAIN s.symlinks
    BY <1>6, FoundLink
  <2> QED BY <1>2, <1>3, <1>6, <2>1 DEF Enter, Followed, WalkAnswer
<1> QED BY <1>5, <1>6

(* What resolve_dir finds with one frame more.                              *)
Dir1(s, depth, path) == AsDir(s, Followed(s, depth + 1, path, {}))

(* The root needs no entering.                                              *)
LEMMA EnterRoot ==
  ASSUME NEW s, Tree(s), NEW depth \in Nat, NEW path \in PathName, IsRoot(path),
         NEW up, up = OnTheWay(s, depth, path), Fits(up)
  PROVE  Enter(s, Walk(s)[depth], up) = Dir1(s, depth, path)
<1>1. /\ OnTheWay(s, depth + 1, path) = Resolved(DirNode(RootIndex), {})
      /\ Followed(s, depth + 1, path, {}) = Resolved(DirNode(RootIndex), {})
  BY AnswerStep DEF Followed, OnTheWay
<1>2. up = Resolved(DirNode(RootIndex), {})
  BY <1>1, OneMoreFrame DEF Enough, OnTheWay
<1>3. up.node.kind = "Dir"
  BY <1>2, ResultFields DEF DirNode
<1> QED BY <1>1, <1>2, <1>3 DEF Enter, Dir1

(* Nor does any other directory: with room on the stack, the directory      *)
(* entered for a child is the one resolve_dir finds.                        *)
LEMMA EnterIsResolve ==
  ASSUME NEW s, Tree(s), NEW depth \in Nat, NEW path \in PathName,
         NEW up, up = OnTheWay(s, depth, path),
         NEW in, in = Enter(s, Walk(s)[depth], up), Fits(in),
         in.err = Ok \/ Dir1(s, depth, path).err = Ok
  PROVE  Dir1(s, depth, path) = in
<1>1. Fits(up)
  <2>1. ~Fits(up) => in = up
    BY DEF Enter, AsDir, Fits, Ok
  <2> QED BY <2>1
<1>2. CASE IsRoot(path)
  BY <1>1, <1>2, EnterRoot
<1>3. CASE ~IsRoot(path)
  <2>1. Found(s, depth, path)
    <3>1. CASE in.err = Ok
      <4>1. up.err = Ok
        <5>1. up.err # Ok => in = up
          BY DEF Enter, AsDir
        <5> QED BY <3>1, <5>1
      <4>2. OnTheWay(s, depth + 1, path) = up
        BY <1>1, OneMoreFrame DEF Enough, OnTheWay
      <4>3. {} \in SUBSET Nat /\ FALSE \in BOOLEAN
        OBVIOUS
      <4>4. OnTheWay(s, depth + 1, path).err = Ok
        BY <4>1, <4>2
      <4> QED BY <1>3, <4>3, <4>4, OkFound, Zenon DEF OnTheWay
    <3>2. CASE Dir1(s, depth, path).err = Ok
      <4>1. Followed(s, depth + 1, path, {}).err = Ok
        BY <3>2, AsDirOk DEF Dir1
      <4>2. {} \in SUBSET Nat /\ TRUE \in BOOLEAN
        OBVIOUS
      <4>3. WalkAnswer(s, depth + 1, path, TRUE, {}).err = Ok
        BY <4>1 DEF Followed
      <4> QED BY <1>3, <4>2, <4>3, OkFound, Zenon
    <3> QED BY <3>1, <3>2
  <2>2. CASE Looked(s, depth, path).kind # "Symlink"
    <3>1. in = AsDir(s, up) /\ up = Resolved(Looked(s, depth, path), Passed(s, depth, path))
      BY <1>1, <1>3, <2>1, <2>2, ParentOnTheWay
    <3>2. Followed(s, depth + 1, path, {}) = Resolved(Looked(s, depth, path), Passed(s, depth, path))
      BY <1>3, <2>1, <2>2, AnswerFound DEF Followed
    <3> QED BY <3>1, <3>2 DEF Dir1
  <2>3. CASE Looked(s, depth, path).kind = "Symlink"
    <3>1. PICK y : y = Looked(s, depth, path).idx
      OBVIOUS
    <3>2. PICK passed : passed = Passed(s, depth, path)
      OBVIOUS
    <3>3. y \in DOMAIN s.symlinks /\ y \in Nat /\ s.symlinks[y] \in PathName
      BY <2>1, <2>3, <3>1, FoundLink
    <3>4. PICK direct : direct = Followed(s, depth, s.symlinks[y], {})
      OBVIOUS
    <3>5. PICK linked : linked = Followed(s, depth, s.symlinks[y], Seen({}, y))
      OBVIOUS
    <3>6. in = Via(passed, AsDir(s, direct))
      <4>1. in = Via(Passed(s, depth, path),
                     AsDir(s, Followed(s, depth, s.symlinks[Looked(s, depth, path).idx], {})))
        BY <1>1, <1>3, <2>1, <2>3, ParentOnTheWay
      <4> QED BY <3>1, <3>2, <3>4, <4>1
    <3>7. Followed(s, depth + 1, path, {}) = Via(passed, linked)
      BY <1>3, <2>1, <2>3, <3>1, <3>2, <3>5, AnswerFound DEF Beyond, Followed
    <3>8. linked = direct /\ direct.err = Ok /\ direct.node.kind = "Dir"
            /\ direct.node.idx \in DOMAIN s.dirs
      <4>1. CASE in.err = Ok
        <5>1. AsDir(s, direct).err = Ok
          BY <3>6, <4>1, ResultFields
        <5>2. direct.err = Ok /\ direct.node.kind = "Dir" /\ direct.node.idx \in DOMAIN s.dirs
          BY <5>1, AsDirOk
        <5> QED BY <3>3, <3>4, <3>5, <5>2, LinkOnce
      <4>2. CASE Dir1(s, depth, path).err = Ok
        <5>1. Dir1(s, depth, path) = AsDir(s, Via(passed, linked))
          BY <3>7 DEF Dir1
        <5>2. /\ Via(passed, linked).err = Ok /\ Via(passed, linked).node.kind = "Dir"
              /\ Via(passed, linked).node.idx \in DOMAIN s.dirs
          BY <4>2, <5>1, AsDirOk
        <5>3. linked.err = Ok /\ linked.node.kind = "Dir" /\ linked.node.idx \in DOMAIN s.dirs
          BY <5>2 DEF Via
        <5>4. Seen({}, y) \in SUBSET Nat /\ {} \in SUBSET Seen({}, y)
          BY <3>3 DEF Seen
        <5>5. direct = linked
          BY <3>3, <3>4, <3>5, <5>3, <5>4, FewerVisited DEF Followed
        <5> QED BY <5>3, <5>5
      <4> QED BY <4>1, <4>2
    <3>9. AsDir(s, direct) = direct /\ AsDir(s, Via(passed, direct)) = Via(passed, direct)
      BY <3>8 DEF AsDir, Via
    <3> QED BY <3>6, <3>7, <3>8, <3>9 DEF Dir1
  <2> QED BY <2>2, <2>3
<1> QED BY <1>2, <1>3

(* resolve_dir, and the resolution of a node, in terms of answers.          *)
LEMMA ResolveAnswers ==
  ASSUME NEW s, NEW path
  PROVE  /\ \A follow : ResolveNode(s, path, follow) = WalkAnswer(s, StackDepth, path, follow, {})
         /\ ResolveDir(s, path) = AsDir(s, Followed(s, StackDepth, path, {}))
BY DEF ResolveNode, ResolveDir, WalkAnswer, Followed

(***************************************************************************)
(* Every resolution starts at the root.                                     *)
(***************************************************************************)
(* The directory entered is the parent found, or where its symlink leads.   *)
LEMMA EnteredCases ==
  ASSUME NEW s, Tree(s), NEW depth \in Nat, NEW path \in PathName,
         NEW in, in = Entered(s, depth, path), in.err = Ok,
         NEW up, up = OnTheWay(s, depth, ParentOf(path))
  PROVE  /\ up \in Sound(s) /\ up.err = Ok
         /\ \/ up.node.kind = "Dir" /\ in = up
            \/ \E direct : /\ up.node.kind = "Symlink" /\ s.symlinks[up.node.idx] \in PathName
                           /\ direct = Followed(s, depth, s.symlinks[up.node.idx], {})
                           /\ direct.err = Ok
                           /\ in = Via(up.dirs, direct)
<1>1. up \in Sound(s)
  BY AnswerSound, PathFacts DEF OnTheWay
<1>2. in = Enter(s, Walk(s)[depth], up)
  BY DEF Entered, OnTheWay
<1>3. up.err = Ok
  <2>1. up.err # Ok => in = up
    BY <1>2 DEF Enter, AsDir
  <2> QED BY <2>1
<1>4. up.node.kind \in {"Dir", "Symlink"}
  <2>1. up.node.kind = "File" => in.err # Ok
    BY <1>2, <1>3 DEF Enter, Unresolved, Ok
  <2> QED BY <1>1, <1>3, <2>1 DEF Sound, Node
<1>5. CASE up.node.kind = "Dir"
  <2>1. in = AsDir(s, up)
    BY <1>2, <1>5 DEF Enter
  <2> QED BY <1>1, <1>3, <1>5, <2>1, AsDirOk
<1>6. CASE up.node.kind = "Symlink"
  <2>1. up.node.idx \in DOMAIN s.symlinks /\ s.symlinks[up.node.idx] \in PathName
    BY <1>1, <1>3, <1>6, LinkFacts
  <2>2. PICK direct : direct = Followed(s, depth, s.symlinks[up.node.idx], {})
    OBVIOUS
  <2>3. in = Via(up.dirs, AsDir(s, direct))
    BY <1>2, <1>3, <1>6, <2>1, <2>2 DEF Enter, Followed, WalkAnswer
  <2>4. AsDir(s, direct).err = Ok
    BY <2>3, ResultFields
  <2>5. direct.err = Ok /\ AsDir(s, direct) = direct
    BY <2>4, AsDirOk
  <2> QED BY <1>1, <1>3, <1>6, <2>1, <2>2, <2>3, <2>5
<1> QED BY <1>4, <1>5, <1>6

(* A resolution went through the root, or ended there.                      *)
StartsAtRoot(r) == RootIndex \in r.dirs \/ r.node = DirNode(RootIndex)

(* By induction on the stack frames.                                        *)
LEMMA AnswersStartAtRoot ==
  ASSUME NEW s, Tree(s), NEW depth \in Nat
  PROVE  \A path \in PathName, follow \in BOOLEAN, visited \in SUBSET Nat :
           WalkAnswer(s, depth, path, follow, visited).err = Ok =>
             StartsAtRoot(WalkAnswer(s, depth, path, follow, visited))
<1> DEFINE P(n) == \A path \in PathName, follow \in BOOLEAN, visited \in SUBSET Nat :
                     WalkAnswer(s, n, path, follow, visited).err = Ok =>
                       StartsAtRoot(WalkAnswer(s, n, path, follow, visited))
           T == {n \in Nat : P(n)}
<1>1. 0 \in T
  <2>1. Unresolved("StackOverflow").err # Ok
    BY DEF Unresolved, Ok
  <2> QED BY <2>1, AnswerNoStack
<1>2. ASSUME NEW n \in Nat, P(n)
      PROVE  P(n + 1)
  <2> SUFFICES ASSUME NEW p \in PathName, NEW f \in BOOLEAN, NEW v \in SUBSET Nat,
                      WalkAnswer(s, n + 1, p, f, v).err = Ok
               PROVE  StartsAtRoot(WalkAnswer(s, n + 1, p, f, v))
    OBVIOUS
  <2>1. CASE IsRoot(p)
    <3>1. WalkAnswer(s, n + 1, p, f, v) = Resolved(DirNode(RootIndex), {})
      BY <2>1, AnswerStep
    <3> QED BY <3>1, ResultFields DEF StartsAtRoot
  <2>2. CASE ~IsRoot(p)
    <3>1. Found(s, n, p)
      BY <2>2, OkFound
    <3>2. PICK in : in = Entered(s, n, p)
      OBVIOUS
    <3>3. StartsAtRoot(in)
      <4>1. PICK up : up = OnTheWay(s, n, ParentOf(p))
        OBVIOUS
      <4>2. ParentOf(p) \in PathName /\ {} \in SUBSET Nat /\ in.err = Ok
        BY <3>1, <3>2, PathFacts DEF Found
      <4>3. up.err = Ok
        BY <3>2, <4>1, <4>2, EnteredCases
      <4>4. StartsAtRoot(up)
        BY <1>2, <4>1, <4>2, <4>3 DEF OnTheWay
      <4>5. CASE in = up
        BY <4>4, <4>5
      <4>6. CASE in # up
        <5>1. PICK direct : /\ s.symlinks[up.node.idx] \in PathName
                            /\ direct = Followed(s, n, s.symlinks[up.node.idx], {})
                            /\ direct.err = Ok
                            /\ in = Via(up.dirs, direct)
          BY <3>2, <4>1, <4>2, <4>6, EnteredCases
        <5>2. StartsAtRoot(direct)
          BY <1>2, <4>2, <5>1 DEF Followed
        <5> QED BY <5>1, <5>2, ResultFields DEF StartsAtRoot
      <4> QED BY <4>5, <4>6
    <3>4. RootIndex \in Passed(s, n, p)
      BY <3>2, <3>3 DEF Passed, StartsAtRoot, DirNode
    <3>5. CASE ~(Looked(s, n, p).kind = "Symlink" /\ f)
      <4>1. WalkAnswer(s, n + 1, p, f, v) = Resolved(Looked(s, n, p), Passed(s, n, p))
        BY <2>2, <3>1, <3>5, AnswerFound
      <4> QED BY <3>4, <4>1, ResultFields DEF StartsAtRoot
    <3>6. CASE Looked(s, n, p).kind = "Symlink" /\ f
      <4>1. Looked(s, n, p).idx \notin v
        BY <2>2, <3>6, OkFound
      <4>2. WalkAnswer(s, n + 1, p, f, v) = Via(Passed(s, n, p), Beyond(s, n, p, v))
        BY <2>2, <3>1, <3>6, <4>1, AnswerFound
      <4> QED BY <3>4, <4>2, ResultFields DEF StartsAtRoot
    <3> QED BY <3>5, <3>6
  <2> QED BY <2>1, <2>2
<1>3. ASSUME NEW n \in Nat, n \in T
      PROVE  n + 1 \in T
  BY <1>2, <1>3
<1> HIDE DEF T
<1>4. Nat \subseteq T
  BY <1>1, <1>3, NatSetInduction
<1> QED BY <1>4 DEF T

(* Where any other path resolves, the root is not empty.                    *)
LEMMA RootNotEmpty ==
  ASSUME NEW s, Tree(s), NEW depth \in Nat
  PROVE  \A path \in PathName : ~IsRoot(path) /\ Found(s, depth, path) => ~IsEmptyDir(s, RootIndex)
<1> DEFINE P(n) == \A path \in PathName :
                     ~IsRoot(path) /\ Found(s, n, path) => ~IsEmptyDir(s, RootIndex)
           T == {n \in Nat : P(n)}
<1>0. ASSUME NEW n \in Nat, NEW p \in PathName, ~IsRoot(p), Found(s, n, p)
      PROVE  /\ n # 0
             /\ OnTheWay(s, n, ParentOf(p)).err = Ok
             /\ IsRoot(ParentOf(p)) => ~IsEmptyDir(s, RootIndex)
  <2>1. PICK up : up = OnTheWay(s, n, ParentOf(p))
    OBVIOUS
  <2>2. PICK in : in = Entered(s, n, p)
    OBVIOUS
  <2>3. up.err = Ok /\ ParentOf(p) \in PathName /\ {} \in SUBSET Nat /\ in.err = Ok
          /\ (up.node.kind = "Symlink" \/ in = up)
    <3>1. in.err = Ok
      BY <1>0, <2>2 DEF Found
    <3> QED BY <2>1, <2>2, <3>1, EnteredCases, PathFacts
  <2>4. n # 0
    <3>1. Unresolved("StackOverflow").err # Ok
      BY DEF Unresolved, Ok
    <3> QED BY <2>1, <2>3, <3>1, AnswerNoStack DEF OnTheWay
  <2>5. ASSUME IsRoot(ParentOf(p))
        PROVE  ~IsEmptyDir(s, RootIndex)
    <3>1. PICK m \in Nat : n = m + 1
      <4>1. n - 1 \in Nat /\ n = (n - 1) + 1
        BY <2>4
      <4> QED BY <4>1
    <3>2. up = Resolved(DirNode(RootIndex), {})
      BY <2>1, <2>3, <2>5, <3>1, AnswerStep DEF OnTheWay
    <3>3. up.node.kind = "Dir" /\ up.node.idx = RootIndex
      BY <3>2, ResultFields DEF DirNode
    <3>4. s.dirs[RootIndex][NameOf(p)] # Absent
      BY <1>0, <2>2, <2>3, <3>3 DEF Found, Looked
    <3>5. NameOf(p) \in Keys
      BY PathFacts
    <3> QED BY <3>4, <3>5 DEF IsEmptyDir, EmptyDir
  <2> QED BY <2>1, <2>3, <2>4, <2>5
<1>1. 0 \in T
  BY <1>0
<1>2. ASSUME NEW n \in Nat, P(n)
      PROVE  P(n + 1)
  <2> SUFFICES ASSUME NEW p \in PathName, ~IsRoot(p), Found(s, n + 1, p), ~IsRoot(ParentOf(p))
               PROVE  ~IsEmptyDir(s, RootIndex)
    <3>1. n + 1 \in Nat
      OBVIOUS
    <3> QED BY <1>0, <3>1
  <2>1. n + 1 \in Nat /\ {} \in SUBSET Nat
    OBVIOUS
  <2>2. OnTheWay(s, n + 1, ParentOf(p)).err = Ok /\ ParentOf(p) \in PathName
    BY <1>0, <2>1, PathFacts
  <2>3. Found(s, n, ParentOf(p))
    BY <2>1, <2>2, OkFound DEF OnTheWay
  <2> QED BY <1>2, <2>2, <2>3
<1>3. ASSUME NEW n \in Nat, n \in T
      PROVE  n + 1 \in T
  BY <1>2, <1>3
<1> HIDE DEF T
<1>4. Nat \subseteq T
  BY <1>1, <1>3, NatSetInduction
<1> QED BY <1>4 DEF T

(***************************************************************************)
(* The inductive invariant, of a tree; an outcome is good when the call has *)
(* not panicked and leaves a tree with the invariant behind.                *)
(***************************************************************************)
Consistent(s) == Tree(s) /\ FilesKnowTheirDescriptors(s) /\ OffsetsWithinFiles(s)

Good(out) == out.err # "Panic" /\ Consistent(out.fs)

(***************************************************************************)
(* One field of the tree replaced.                                          *)
(***************************************************************************)
(* The fields of a tree.                                                    *)
LEMMA FieldsOf ==
  ASSUME NEW s \in FS
  PROVE  /\ s.dirs \in Seq(Dir) /\ s.files \in Seq(File) /\ s.symlinks \in Seq(PathName)
         /\ s.descriptors \in Seq(FileDescriptor) /\ s.recording \in Seq(Operation)
BY DEF FS

(* Replacing the directories leaves the other fields alone.                 *)
LEMMA WithDirs ==
  ASSUME NEW s \in FS, NEW dirs \in Seq(Dir)
  PROVE  LET t == [s EXCEPT !.dirs = dirs]
         IN  /\ t \in FS /\ t.dirs = dirs
             /\ t.files = s.files /\ t.symlinks = s.symlinks
             /\ t.descriptors = s.descriptors /\ t.recording = s.recording
BY DEF FS

(* Replacing the files leaves the other fields alone.                       *)
LEMMA WithFiles ==
  ASSUME NEW s \in FS, NEW files \in Seq(File)
  PROVE  LET t == [s EXCEPT !.files = files]
         IN  /\ t \in FS /\ t.files = files
             /\ t.dirs = s.dirs /\ t.symlinks = s.symlinks
             /\ t.descriptors = s.descriptors /\ t.recording = s.recording
BY DEF FS

(* Replacing the symlinks leaves the other fields alone.                    *)
LEMMA WithSymlinks ==
  ASSUME NEW s \in FS, NEW symlinks \in Seq(PathName)
  PROVE  LET t == [s EXCEPT !.symlinks = symlinks]
         IN  /\ t \in FS /\ t.symlinks = symlinks
             /\ t.dirs = s.dirs /\ t.files = s.files
             /\ t.descriptors = s.descriptors /\ t.recording = s.recording
BY DEF FS

(* Replacing the descriptors leaves the other fields alone.                 *)
LEMMA WithDescriptors ==
  ASSUME NEW s \in FS, NEW descriptors \in Seq(FileDescriptor)
  PROVE  LET t == [s EXCEPT !.descriptors = descriptors]
         IN  /\ t \in FS /\ t.descriptors = descriptors
             /\ t.dirs = s.dirs /\ t.files = s.files
             /\ t.symlinks = s.symlinks /\ t.recording = s.recording
BY DEF FS

(* Replacing the recording leaves the other fields alone.                   *)
LEMMA WithRecording ==
  ASSUME NEW s \in FS, NEW recording \in Seq(Operation)
  PROVE  LET t == [s EXCEPT !.recording = recording]
         IN  /\ t \in FS /\ t.recording = recording
             /\ t.dirs = s.dirs /\ t.files = s.files
             /\ t.symlinks = s.symlinks /\ t.descriptors = s.descriptors
BY DEF FS

(* The invariant reads the fields only.                                     *)
LEMMA SameFields ==
  ASSUME NEW s, NEW t \in FS, Consistent(s),
         t.dirs = s.dirs, t.files = s.files, t.symlinks = s.symlinks,
         t.descriptors = s.descriptors
  PROVE  Consistent(t)
BY DEF Consistent, Tree, EntriesAllocated, NodeAllocated, FilesKnowTheirDescriptors,
       OffsetsWithinFiles

(***************************************************************************)
(* Outcomes.                                                                *)
(***************************************************************************)
(* A call that returns an error and changes nothing is good.                *)
LEMMA FailedGood ==
  ASSUME NEW s, Consistent(s), NEW e, e # "Panic"
  PROVE  Good(Failed(s, e))
BY DEF Good, Failed

(* Recording an operation keeps the invariant.                              *)
LEMMA DoneGood ==
  ASSUME NEW s, Consistent(s), NEW op \in Operation
  PROVE  Good(Done(s, op))
<1>1. s \in FS
  BY DEF Consistent, Tree
<1> DEFINE t == [s EXCEPT !.recording = Append(@, op)]
<1>2. Append(s.recording, op) \in Seq(Operation)
  BY <1>1, FieldsOf
<1>3. /\ t \in FS
      /\ t.dirs = s.dirs /\ t.files = s.files
      /\ t.symlinks = s.symlinks /\ t.descriptors = s.descriptors
  BY <1>1, <1>2, WithRecording
<1>4. Consistent(t)
  <2> HIDE DEF t
  <2> QED BY <1>3, SameFields
<1> QED BY <1>4 DEF Good, Done, Ok

(***************************************************************************)
(* Entries of directories and new nodes.                                    *)
(***************************************************************************)
(* An entry may be set to any node that exists, or cleared.                 *)
LEMMA SetEntry ==
  ASSUME NEW s, Consistent(s), NEW d \in DOMAIN s.dirs, NEW name \in Keys,
         NEW node \in Node \cup {Absent}, NodeAllocated(s, node)
  PROVE  Consistent([s EXCEPT !.dirs[d][name] = node])
<1> DEFINE dirs == [s.dirs EXCEPT ![d][name] = node]
           t    == [s EXCEPT !.dirs = dirs]
<1>1. s \in FS /\ s.dirs \in Seq(Dir) /\ EntriesAllocated(s)
  BY FieldsOf DEF Consistent, Tree
<1>2. s.dirs[d] \in Dir /\ [s.dirs[d] EXCEPT ![name] = node] \in Dir
  BY <1>1 DEF Dir
<1>3. dirs \in Seq(Dir) /\ DOMAIN dirs = DOMAIN s.dirs
  BY <1>1, <1>2
<1>4. ASSUME NEW c \in DOMAIN dirs, NEW n \in Keys
      PROVE  dirs[c][n] = node \/ dirs[c][n] = s.dirs[c][n]
  <2>1. CASE c = d
    BY <1>1, <1>2, <2>1 DEF Dir
  <2>2. CASE c # d
    BY <1>1, <1>3, <2>2
  <2> QED BY <2>1, <2>2
<1> HIDE DEF dirs
<1>5. /\ t \in FS /\ t.dirs = dirs
      /\ t.files = s.files /\ t.symlinks = s.symlinks /\ t.descriptors = s.descriptors
  BY <1>1, <1>3, WithDirs
<1> HIDE DEF t
<1>6. EntriesAllocated(t)
  BY <1>1, <1>3, <1>4, <1>5 DEF EntriesAllocated, NodeAllocated
<1>7. Consistent(t)
  BY <1>5, <1>6 DEF Consistent, Tree, FilesKnowTheirDescriptors, OffsetsWithinFiles
<1>8. [s EXCEPT !.dirs[d][name] = node] = t
  BY DEF t, dirs
<1> QED BY <1>7, <1>8

(* Deleting an entry keeps the invariant.                                   *)
LEMMA DeleteGood ==
  ASSUME NEW s, Consistent(s), NEW d \in DOMAIN s.dirs, NEW name \in Keys,
         NEW op \in Operation
  PROVE  Good(Done(Delete(s, d, name), op))
<1>1. NodeAllocated(s, Absent)
  BY DEF NodeAllocated, Absent
<1>2. Consistent(Delete(s, d, name))
  BY <1>1, SetEntry DEF Delete
<1> QED BY <1>2, DoneGood

(* Inserting an existing node keeps the invariant.                          *)
LEMMA InsertGood ==
  ASSUME NEW s, Consistent(s), NEW d \in DOMAIN s.dirs, NEW name \in Keys,
         NEW node \in Node, NodeAllocated(s, node), NEW op \in Operation
  PROVE  Consistent(Insert(s, d, name, node)) /\ Good(Done(Insert(s, d, name, node), op))
<1>1. Consistent(Insert(s, d, name, node))
  BY SetEntry DEF Insert
<1> QED BY <1>1, DoneGood

(* A directory pushed to the vector has the index the code computes for it. *)
LEMMA NewDir ==
  ASSUME NEW s, Consistent(s)
  PROVE  LET grown == [s EXCEPT !.dirs = Append(@, EmptyDir)]
         IN  /\ Consistent(grown)
             /\ DOMAIN s.dirs \subseteq DOMAIN grown.dirs
             /\ DirNode(NextIndex(s.dirs)) \in Node
             /\ NodeAllocated(grown, DirNode(NextIndex(s.dirs)))
<1> DEFINE dirs  == Append(s.dirs, EmptyDir)
           grown == [s EXCEPT !.dirs = dirs]
<1>1. s \in FS /\ s.dirs \in Seq(Dir) /\ EntriesAllocated(s)
  BY FieldsOf DEF Consistent, Tree
<1>2. EmptyDir \in Dir
  BY DEF EmptyDir, Dir
<1>3. /\ dirs \in Seq(Dir) /\ DOMAIN s.dirs \subseteq DOMAIN dirs
      /\ NextIndex(s.dirs) \in DOMAIN dirs /\ NextIndex(s.dirs) \in Nat
  BY <1>1, <1>2 DEF NextIndex
<1>4. ASSUME NEW d \in DOMAIN dirs, NEW n \in Keys
      PROVE  dirs[d][n] = Absent \/ (d \in DOMAIN s.dirs /\ dirs[d][n] = s.dirs[d][n])
  <2>1. CASE d = Len(s.dirs) + 1
    BY <1>1, <1>2, <2>1 DEF EmptyDir
  <2>2. CASE d # Len(s.dirs) + 1
    BY <1>1, <1>2, <2>2
  <2> QED BY <2>1, <2>2
<1> HIDE DEF dirs
<1>5. /\ grown \in FS /\ grown.dirs = dirs /\ grown.files = s.files
      /\ grown.symlinks = s.symlinks /\ grown.descriptors = s.descriptors
  BY <1>1, <1>3, WithDirs
<1> HIDE DEF grown
<1>6. EntriesAllocated(grown)
  <2>1. NodeAllocated(grown, Absent)
    BY DEF NodeAllocated, Absent
  <2> QED BY <1>1, <1>3, <1>4, <1>5, <2>1 DEF EntriesAllocated, NodeAllocated
<1>7. Consistent(grown)
  BY <1>5, <1>6 DEF Consistent, Tree, FilesKnowTheirDescriptors, OffsetsWithinFiles
<1>8. DirNode(NextIndex(s.dirs)) \in Node /\ NodeAllocated(grown, DirNode(NextIndex(s.dirs)))
  BY <1>3, <1>5 DEF DirNode, Node, NodeAllocated
<1>9. [s EXCEPT !.dirs = Append(@, EmptyDir)] = grown
  BY DEF grown, dirs
<1> QED BY <1>3, <1>5, <1>7, <1>8, <1>9

(* A file pushed to the vector has the index the code computes for it.      *)
LEMMA NewFile ==
  ASSUME NEW s, Consistent(s)
  PROVE  LET grown == [s EXCEPT !.files = Append(@, [descriptor |-> None, size |-> 0])]
         IN  /\ Consistent(grown)
             /\ grown.dirs = s.dirs
             /\ FileNode(NextIndex(s.files)) \in Node
             /\ NodeAllocated(grown, FileNode(NextIndex(s.files)))
<1> DEFINE new   == [descriptor |-> None, size |-> 0]
           files == Append(s.files, new)
           grown == [s EXCEPT !.files = files]
<1>1. s \in FS /\ s.files \in Seq(File) /\ s.descriptors \in Seq(FileDescriptor)
  BY FieldsOf DEF Consistent, Tree
<1>2. new \in File /\ new.descriptor = None
  BY DEF File, None
<1> HIDE DEF new
<1>3. /\ files \in Seq(File) /\ DOMAIN s.files \subseteq DOMAIN files
      /\ NextIndex(s.files) \in DOMAIN files /\ NextIndex(s.files) \in Nat
      /\ \A f \in DOMAIN files : files[f] = new \/ (f \in DOMAIN s.files /\ files[f] = s.files[f])
      /\ \A f \in DOMAIN s.files : files[f] = s.files[f]
  BY <1>1, <1>2 DEF NextIndex
<1> HIDE DEF files
<1>4. /\ grown \in FS /\ grown.files = files /\ grown.dirs = s.dirs
      /\ grown.symlinks = s.symlinks /\ grown.descriptors = s.descriptors
  BY <1>1, <1>3, WithFiles
<1> HIDE DEF grown
<1>5. Tree(grown)
  BY <1>3, <1>4 DEF Consistent, Tree, EntriesAllocated, NodeAllocated
<1>6. FilesKnowTheirDescriptors(grown)
  BY <1>2, <1>3, <1>4 DEF Consistent, FilesKnowTheirDescriptors
<1>7. OffsetsWithinFiles(grown)
  BY <1>3, <1>4 DEF Consistent, OffsetsWithinFiles
<1>8. FileNode(NextIndex(s.files)) \in Node /\ NodeAllocated(grown, FileNode(NextIndex(s.files)))
  BY <1>3, <1>4 DEF FileNode, Node, NodeAllocated
<1>9. [s EXCEPT !.files = Append(@, [descriptor |-> None, size |-> 0])] = grown
  BY DEF grown, files, new
<1> QED BY <1>4, <1>5, <1>6, <1>7, <1>8, <1>9 DEF Consistent

(* A symlink pushed to the vector has the index the code computes for it.   *)
LEMMA NewSymlink ==
  ASSUME NEW s, Consistent(s), NEW target \in PathName
  PROVE  LET grown == [s EXCEPT !.symlinks = Append(@, target)]
         IN  /\ Consistent(grown)
             /\ grown.dirs = s.dirs
             /\ SymlinkNode(NextIndex(s.symlinks)) \in Node
             /\ NodeAllocated(grown, SymlinkNode(NextIndex(s.symlinks)))
<1> DEFINE symlinks == Append(s.symlinks, target)
           grown    == [s EXCEPT !.symlinks = symlinks]
<1>1. s \in FS /\ s.symlinks \in Seq(PathName)
  BY FieldsOf DEF Consistent, Tree
<1>2. /\ symlinks \in Seq(PathName) /\ DOMAIN s.symlinks \subseteq DOMAIN symlinks
      /\ NextIndex(s.symlinks) \in DOMAIN symlinks /\ NextIndex(s.symlinks) \in Nat
  BY <1>1 DEF NextIndex
<1> HIDE DEF symlinks
<1>3. /\ grown \in FS /\ grown.symlinks = symlinks /\ grown.dirs = s.dirs
      /\ grown.files = s.files /\ grown.descriptors = s.descriptors
  BY <1>1, <1>2, WithSymlinks
<1> HIDE DEF grown
<1>4. Consistent(grown)
  BY <1>2, <1>3 DEF Consistent, Tree, EntriesAllocated, NodeAllocated,
                    FilesKnowTheirDescriptors, OffsetsWithinFiles
<1>5. /\ SymlinkNode(NextIndex(s.symlinks)) \in Node
      /\ NodeAllocated(grown, SymlinkNode(NextIndex(s.symlinks)))
  BY <1>2, <1>3 DEF SymlinkNode, Node, NodeAllocated
<1>6. [s EXCEPT !.symlinks = Append(@, target)] = grown
  BY DEF grown, symlinks
<1> QED BY <1>3, <1>4, <1>5, <1>6

(***************************************************************************)
(* The operations.                                                          *)
(***************************************************************************)
(* What is recorded is an operation.                                        *)
LEMMA OperationTypes ==
  /\ \A p \in PathName : /\ MkDirOp(p) \in Operation
                          /\ CreateOp(p) \in Operation
                          /\ RemoveOp(p) \in Operation
  /\ \A p, q \in PathName : /\ HardlinkOp(p, q) \in Operation
                             /\ RenameOp(p, q) \in Operation
                             /\ SymlinkOp(p, q) \in Operation
  /\ \A p \in PathName, d \in Nat : OpenOp(p, d) \in Operation
  /\ \A d \in Nat : CloseOp(d) \in Operation /\ FSyncOp(d) \in Operation
  /\ \A d, n, m \in Nat : ReadOp(d, n) \in Operation /\ WriteOp(d, n, m) \in Operation
<1>1. \A p \in PathName : /\ MkDirOp(p) \in Operation
                          /\ CreateOp(p) \in Operation
                          /\ RemoveOp(p) \in Operation
  BY DEF Operation, MkDirOp, CreateOp, RemoveOp
<1>2. \A p, q \in PathName : HardlinkOp(p, q) \in Operation /\ RenameOp(p, q) \in Operation
  BY DEF Operation, HardlinkOp, RenameOp
<1>3. \A p, q \in PathName : SymlinkOp(p, q) \in Operation
  BY DEF Operation, SymlinkOp
<1>4. \A p \in PathName, d \in Nat : OpenOp(p, d) \in Operation
  BY DEF Operation, OpenOp
<1>5. \A d \in Nat : CloseOp(d) \in Operation /\ FSyncOp(d) \in Operation
  BY DEF Operation, CloseOp, FSyncOp
<1>6. \A d, n \in Nat : ReadOp(d, n) \in Operation
  BY DEF Operation, ReadOp
<1>7. \A d, n, m \in Nat : WriteOp(d, n, m) \in Operation
  BY DEF Operation, WriteOp
<1> QED BY <1>1, <1>2, <1>3, <1>4, <1>5, <1>6, <1>7

(* An error of a sound resolution is one that the call returns.             *)
LEMMA FailedResolution ==
  ASSUME NEW s, Consistent(s), NEW r \in Sound(s), r.err # Ok
  PROVE  Good(Failed(s, r.err))
<1>1. r.err # "Panic"
  BY DEF Sound, Result, ResolveErrors
<1> QED BY <1>1, FailedGood

(* The parent of a new entry is a directory that exists, or an error.       *)
LEMMA NewEntrySound ==
  ASSUME NEW s, Consistent(s), NEW path \in PathName
  PROVE  NewEntry(s, path) \in Sound(s) /\ IsDirOf(s, NewEntry(s, path))
<1> DEFINE parent == ResolveDir(s, ParentOf(path))
<1>1. parent \in Sound(s) /\ IsDirOf(s, parent)
  BY ResolveDirSound, PathFacts DEF Consistent
<1>2. NewEntry(s, path) =
        IF parent.err = Ok /\ NameExists(s, parent.node.idx, NameOf(path))
        THEN Unresolved("NameAlreadyExists") ELSE parent
  BY DEF NewEntry, Vacant
<1> HIDE DEF parent
<1>3. /\ Unresolved("NameAlreadyExists") \in Sound(s)
      /\ IsDirOf(s, Unresolved("NameAlreadyExists"))
  BY UnresolvedSound DEF ResolveErrors
<1> QED BY <1>1, <1>2, <1>3

(* remove (fs.rs:106) keeps the invariant and does not panic.               *)
LEMMA RemoveGood ==
  ASSUME NEW s, Consistent(s), NEW path \in PathName
  PROVE  Good(Remove(s, path))
<1> DEFINE parent == ResolveDir(s, ParentOf(path))
           d      == parent.node.idx
<1>1. parent \in Sound(s) /\ IsDirOf(s, parent)
  BY ResolveDirSound, PathFacts DEF Consistent
<1>2. Remove(s, path) =
        IF IsRoot(path) THEN Failed(s, "RootRemovalForbidden")
        ELSE IF parent.err # Ok THEN Failed(s, parent.err)
        ELSE IF ~NameExists(s, d, NameOf(path)) THEN Failed(s, "NotFound")
        ELSE Done(Delete(s, d, NameOf(path)), RemoveOp(path))
  BY DEF Remove
<1> HIDE DEF parent
<1>3. Good(Failed(s, "RootRemovalForbidden")) /\ Good(Failed(s, "NotFound"))
  BY FailedGood
<1>4. parent.err # Ok => Good(Failed(s, parent.err))
  BY <1>1, FailedResolution
<1>5. parent.err = Ok => Good(Done(Delete(s, d, NameOf(path)), RemoveOp(path)))
  BY <1>1, DeleteGood, PathFacts, OperationTypes DEF IsDirOf
<1> QED BY <1>2, <1>3, <1>4, <1>5

(* mkdir (fs.rs:122) keeps the invariant and does not panic.                *)
LEMMA MkDirGood ==
  ASSUME NEW s, Consistent(s), NEW path \in PathName
  PROVE  Good(MkDir(s, path))
<1> DEFINE parent == NewEntry(s, path)
           grown  == [s EXCEPT !.dirs = Append(@, EmptyDir)]
           made   == Done(Insert(grown, parent.node.idx, NameOf(path),
                                 DirNode(NextIndex(s.dirs))), MkDirOp(path))
<1>1. parent \in Sound(s) /\ IsDirOf(s, parent)
  BY NewEntrySound
<1>2. MkDir(s, path) = IF parent.err # Ok THEN Failed(s, parent.err) ELSE made
  BY DEF MkDir
<1>3. /\ Consistent(grown) /\ DOMAIN s.dirs \subseteq DOMAIN grown.dirs
      /\ DirNode(NextIndex(s.dirs)) \in Node
      /\ NodeAllocated(grown, DirNode(NextIndex(s.dirs)))
  BY NewDir
<1> HIDE DEF parent, grown
<1>4. parent.err = Ok => Good(made)
  BY <1>1, <1>3, InsertGood, PathFacts, OperationTypes DEF IsDirOf
<1> QED BY <1>1, <1>2, <1>4, FailedResolution

(* create (fs.rs:141) keeps the invariant and does not panic.               *)
LEMMA CreateGood ==
  ASSUME NEW s, Consistent(s), NEW path \in PathName
  PROVE  Good(Create(s, path))
<1> DEFINE parent == NewEntry(s, path)
           grown  == [s EXCEPT !.files = Append(@, [descriptor |-> None, size |-> 0])]
           made   == Done(Insert(grown, parent.node.idx, NameOf(path),
                                 FileNode(NextIndex(s.files))), CreateOp(path))
<1>1. parent \in Sound(s) /\ IsDirOf(s, parent)
  BY NewEntrySound
<1>2. Create(s, path) = IF parent.err # Ok THEN Failed(s, parent.err) ELSE made
  BY DEF Create
<1>3. /\ Consistent(grown) /\ grown.dirs = s.dirs
      /\ FileNode(NextIndex(s.files)) \in Node
      /\ NodeAllocated(grown, FileNode(NextIndex(s.files)))
  BY NewFile
<1> HIDE DEF parent, grown
<1>4. parent.err = Ok => Good(made)
  BY <1>1, <1>3, InsertGood, PathFacts, OperationTypes DEF IsDirOf
<1> QED BY <1>1, <1>2, <1>4, FailedResolution

(* symlink (fs.rs:184) keeps the invariant and does not panic.              *)
LEMMA SymlinkGood ==
  ASSUME NEW s, Consistent(s), NEW target \in PathName, NEW linkpath \in PathName
  PROVE  Good(Symlink(s, target, linkpath))
<1> DEFINE parent == NewEntry(s, linkpath)
           grown  == [s EXCEPT !.symlinks = Append(@, target)]
           made   == Done(Insert(grown, parent.node.idx, NameOf(linkpath),
                                 SymlinkNode(NextIndex(s.symlinks))),
                          SymlinkOp(target, linkpath))
<1>1. parent \in Sound(s) /\ IsDirOf(s, parent)
  BY NewEntrySound
<1>2. Symlink(s, target, linkpath) =
        IF parent.err # Ok THEN Failed(s, parent.err) ELSE made
  BY DEF Symlink
<1>3. /\ Consistent(grown) /\ grown.dirs = s.dirs
      /\ SymlinkNode(NextIndex(s.symlinks)) \in Node
      /\ NodeAllocated(grown, SymlinkNode(NextIndex(s.symlinks)))
  BY NewSymlink
<1> HIDE DEF parent, grown
<1>4. parent.err = Ok => Good(made)
  BY <1>1, <1>3, InsertGood, PathFacts, OperationTypes DEF IsDirOf
<1> QED BY <1>1, <1>2, <1>4, FailedResolution

(* hardlink (fs.rs:162) keeps the invariant and does not panic.             *)
LEMMA HardlinkGood ==
  ASSUME NEW s, Consistent(s), NEW old \in PathName, NEW new \in PathName
  PROVE  Good(Hardlink(s, old, new))
<1> DEFINE source == ResolveDir(s, ParentOf(old))
           file   == ResolveFile(s, old)
           parent == NewEntry(s, new)
           made   == Done(Insert(s, parent.node.idx, NameOf(new), file.node),
                          HardlinkOp(old, new))
<1>1. source \in Sound(s) /\ file \in Sound(s) /\ parent \in Sound(s) /\ IsDirOf(s, parent)
  BY ResolveDirSound, ResolveFileSound, NewEntrySound, PathFacts DEF Consistent
<1>2. Hardlink(s, old, new) =
        IF source.err # Ok THEN Failed(s, source.err)
        ELSE IF s.dirs[source.node.idx][NameOf(old)].kind = "Symlink"
             THEN Failed(s, "HardlinkToSymlinkForbidden")
        ELSE IF file.err # Ok THEN Failed(s, file.err)
        ELSE IF parent.err # Ok THEN Failed(s, parent.err)
        ELSE made
  BY DEF Hardlink
<1> HIDE DEF source, file, parent
<1>3. Good(Failed(s, "HardlinkToSymlinkForbidden"))
  BY FailedGood
<1>4. /\ source.err # Ok => Good(Failed(s, source.err))
      /\ file.err # Ok => Good(Failed(s, file.err))
      /\ parent.err # Ok => Good(Failed(s, parent.err))
  BY <1>1, FailedResolution
<1>5. file.err = Ok /\ parent.err = Ok => Good(made)
  BY <1>1, InsertGood, PathFacts, OperationTypes DEF IsDirOf, Sound
<1> QED BY <1>2, <1>3, <1>4, <1>5

(* rename resolves the parent of the old name in the tree that already has  *)
(* the new entry: that tree is consistent as well.                          *)
LEMMA RenameGood ==
  ASSUME NEW s, Consistent(s), NEW old \in PathName, NEW new \in PathName
  PROVE  Good(Rename(s, old, new))
<1> DEFINE target == ResolveDir(s, new)
           source == ResolveNode(s, old, FALSE)
           dest   == ResolveDir(s, ParentOf(new))
           linked == Insert(s, dest.node.idx, NameOf(new), source.node)
           origin == ResolveDir(linked, ParentOf(old))
           moved  == Done(UnlinkOld(linked, old, origin, dest), RenameOp(old, new))
<1>1. target \in Sound(s) /\ source \in Sound(s) /\ dest \in Sound(s) /\ IsDirOf(s, dest)
  BY ResolveDirSound, ResolveNodeSound, PathFacts DEF Consistent
<1>2. Rename(s, old, new) =
        IF ReplacesNonEmptyDir(s, target) THEN Failed(s, "DirNotEmpty")
        ELSE IF target.err \in Crashes THEN Failed(s, target.err)
        ELSE IF source.err # Ok THEN Failed(s, source.err)
        ELSE IF dest.err # Ok THEN Failed(s, dest.err)
        ELSE IF MovesIntoItself(source.node, dest) THEN Failed(s, "RenameToSubdirectoryError")
        ELSE IF origin.err # Ok THEN Failed(linked, origin.err)
        ELSE moved
  BY DEF Rename
<1> HIDE DEF target, source, dest
<1>3. source.err = Ok /\ dest.err = Ok => Consistent(linked)
  BY <1>1, InsertGood, PathFacts, OperationTypes DEF IsDirOf, Sound
<1> HIDE DEF linked
<1>4. source.err = Ok /\ dest.err = Ok => origin \in Sound(linked) /\ IsDirOf(linked, origin)
  BY <1>3, ResolveDirSound, PathFacts DEF Consistent
<1> HIDE DEF origin
<1>5. /\ Good(Failed(s, "DirNotEmpty")) /\ Good(Failed(s, "RenameToSubdirectoryError"))
  BY FailedGood
<1>6. /\ target.err \in Crashes => Good(Failed(s, target.err))
      /\ source.err # Ok => Good(Failed(s, source.err))
      /\ dest.err # Ok => Good(Failed(s, dest.err))
  BY <1>1, FailedResolution DEF Crashes, Ok
<1>7. ASSUME source.err = Ok, dest.err = Ok, origin.err # Ok
      PROVE  Good(Failed(linked, origin.err))
  BY <1>3, <1>4, <1>7, FailedResolution
<1>8. ASSUME source.err = Ok, dest.err = Ok, origin.err = Ok
      PROVE  Good(moved)
  <2>1. origin.node.idx \in DOMAIN linked.dirs
    BY <1>4, <1>8 DEF IsDirOf
  <2>2. NameOf(old) \in Keys /\ RenameOp(old, new) \in Operation
    BY PathFacts, OperationTypes
  <2> QED BY <1>3, <1>8, <2>1, <2>2, DeleteGood DEF UnlinkOld
<1> QED BY <1>2, <1>5, <1>6, <1>7, <1>8

(***************************************************************************)
(* Descriptors.                                                             *)
(***************************************************************************)
(* open (fs.rs:236) keeps the invariant and does not panic.                 *)
LEMMA OpenGood ==
  ASSUME NEW s, Consistent(s), NEW path \in PathName
  PROVE  Good(Open(s, path))
<1> DEFINE des    == FreshDescriptor(s)
           file   == ResolveFile(s, path)
           f      == file.node.idx
           opened == [s EXCEPT !.files[f].descriptor = des,
                               !.descriptors = Append(@, [file |-> f, offset |-> 0])]
<1>1. /\ file \in Sound(s)
      /\ file.err = Ok => f \in DOMAIN s.files
  BY ResolveFileSound DEF Consistent
<1>2. Open(s, path) =
        IF file.err # Ok THEN Failed(s, file.err)
        ELSE IF f \notin DOMAIN s.files THEN Failed(s, "Panic")
        ELSE IF s.files[f].descriptor # None THEN Failed(s, "FileAlreadyOpened")
        ELSE Done(opened, OpenOp(path, des))
  BY DEF Open
<1>3. file.err # Ok => Good(Failed(s, file.err))
  <2> HIDE DEF file
  <2> QED BY <1>1, FailedResolution
<1>4. Good(Failed(s, "FileAlreadyOpened"))
  BY FailedGood
<1> HIDE DEF file
<1>5. ASSUME file.err = Ok, s.files[f].descriptor = None
      PROVE  Good(Done(opened, OpenOp(path, des)))
  <2>1. /\ s \in FS /\ s.files \in Seq(File) /\ s.descriptors \in Seq(FileDescriptor)
        /\ f \in DOMAIN s.files
    BY <1>1, <1>5, FieldsOf DEF Consistent, Tree
  <2>2. /\ des \in Nat /\ des = Len(s.descriptors) + 1
        /\ f \in Nat /\ s.files[f] \in File
    BY <2>1 DEF FreshDescriptor, NextIndex
  <2> DEFINE files       == [s.files EXCEPT ![f] = [s.files[f] EXCEPT !.descriptor = des]]
             new         == [file |-> f, offset |-> 0]
             descriptors == Append(s.descriptors, new)
             t           == [s EXCEPT !.files = files]
             u           == [t EXCEPT !.descriptors = descriptors]
  <2> HIDE DEF des, f
  <2>3. new \in FileDescriptor /\ new.file = f /\ new.offset = 0
    BY <2>2 DEF FileDescriptor
  <2>4. /\ [s.files[f] EXCEPT !.descriptor = des] \in File
        /\ [s.files[f] EXCEPT !.descriptor = des].descriptor = des
        /\ [s.files[f] EXCEPT !.descriptor = des].size = s.files[f].size
    BY <2>2 DEF File
  <2>5. /\ files \in Seq(File) /\ DOMAIN files = DOMAIN s.files
        /\ files[f].descriptor = des /\ files[f].size = s.files[f].size
        /\ \A g \in DOMAIN s.files \ {f} : files[g] = s.files[g]
    BY <2>1, <2>4
  <2> HIDE DEF new
  <2>6. /\ descriptors \in Seq(FileDescriptor)
        /\ DOMAIN descriptors = DOMAIN s.descriptors \cup {des}
        /\ descriptors[des] = new
        /\ \A d \in DOMAIN s.descriptors : descriptors[d] = s.descriptors[d]
    BY <2>1, <2>2, <2>3
  <2> HIDE DEF files, descriptors
  <2>7. /\ t \in FS /\ t.files = files /\ t.dirs = s.dirs
        /\ t.symlinks = s.symlinks /\ t.descriptors = s.descriptors
    BY <2>1, <2>5, WithFiles
  <2> HIDE DEF t
  <2>8. /\ u \in FS /\ u.descriptors = descriptors /\ u.dirs = s.dirs
        /\ u.files = files /\ u.symlinks = s.symlinks
    BY <2>6, <2>7, WithDescriptors
  <2> HIDE DEF u
  <2>9. Tree(u)
    BY <2>5, <2>8 DEF Consistent, Tree, EntriesAllocated, NodeAllocated
  <2>10. FilesKnowTheirDescriptors(u)
    BY <2>3, <2>5, <2>6, <2>8 DEF Consistent, FilesKnowTheirDescriptors
  <2>11. OffsetsWithinFiles(u)
    <3>1. ASSUME NEW d \in DOMAIN s.descriptors
          PROVE  /\ s.descriptors[d].file \in DOMAIN files
                 /\ s.descriptors[d].offset <= files[s.descriptors[d].file].size
      BY <2>5 DEF Consistent, OffsetsWithinFiles
    <3>2. f \in DOMAIN files /\ 0 <= files[f].size
      BY <2>1, <2>2, <2>5 DEF File
    <3> QED BY <2>3, <2>6, <2>8, <3>1, <3>2 DEF OffsetsWithinFiles
  <2>12. opened = u
    BY <2>1, <2>7 DEF u, t, files, descriptors, new, FS
  <2>13. OpenOp(path, des) \in Operation
    BY <2>2, OperationTypes
  <2> QED BY <2>9, <2>10, <2>11, <2>12, <2>13, DoneGood DEF Consistent
<1> QED BY <1>1, <1>2, <1>3, <1>4, <1>5

(* A descriptor is of a file that exists, and positioned within it.         *)
LEMMA DescriptorFacts ==
  ASSUME NEW s, Consistent(s), NEW d \in DOMAIN s.descriptors
  PROVE  /\ s.descriptors[d] \in FileDescriptor
         /\ s.descriptors[d].offset \in Nat
         /\ s.descriptors[d].file \in DOMAIN s.files
         /\ s.files[s.descriptors[d].file] \in File
         /\ s.files[s.descriptors[d].file].size \in Nat
         /\ s.descriptors[d].offset <= s.files[s.descriptors[d].file].size
<1>1. s.files \in Seq(File) /\ s.descriptors \in Seq(FileDescriptor)
  BY FieldsOf DEF Consistent, Tree
<1>2. /\ s.descriptors[d].file \in DOMAIN s.files
      /\ s.descriptors[d].offset <= s.files[s.descriptors[d].file].size
  BY DEF Consistent, OffsetsWithinFiles
<1>3. s.descriptors[d] \in FileDescriptor /\ s.files[s.descriptors[d].file] \in File
  BY <1>1, <1>2
<1> QED BY <1>2, <1>3 DEF File, FileDescriptor

(* A descriptor that is not refused is one of the vector's, and checking it *)
(* never panics.                                                            *)
LEMMA DescriptorErrorFacts ==
  ASSUME NEW s, Consistent(s), NEW d
  PROVE  /\ DescriptorError(s, d) # "Panic"
         /\ DescriptorError(s, d) = Ok => d \in DOMAIN s.descriptors
<1>1. CASE d \notin DOMAIN s.descriptors
  BY <1>1 DEF DescriptorError, Ok
<1>2. CASE d \in DOMAIN s.descriptors
  BY <1>2, DescriptorFacts DEF DescriptorError, Ok
<1> QED BY <1>1, <1>2

(* close (fs.rs:253) keeps the invariant and does not panic.                *)
LEMMA CloseGood ==
  ASSUME NEW s, Consistent(s), NEW d \in Nat
  PROVE  Good(Close(s, d))
<1>1. CASE DescriptorError(s, d) # Ok
  BY <1>1, DescriptorErrorFacts, FailedGood DEF Close
<1>2. CASE DescriptorError(s, d) = Ok
  <2> DEFINE f      == s.descriptors[d].file
             closed == [s EXCEPT !.files[f].descriptor = None]
             files  == [s.files EXCEPT ![f] = [s.files[f] EXCEPT !.descriptor = None]]
             t      == [s EXCEPT !.files = files]
  <2>1. s \in FS /\ s.files \in Seq(File) /\ s.descriptors \in Seq(FileDescriptor)
    BY FieldsOf DEF Consistent, Tree
  <2>2. f \in DOMAIN s.files /\ s.files[f] \in File
    BY <1>2, DescriptorErrorFacts, DescriptorFacts
  <2>3. Close(s, d) = Done(closed, CloseOp(d))
    BY <1>2 DEF Close
  <2> HIDE DEF f
  <2>4. /\ [s.files[f] EXCEPT !.descriptor = None] \in File
        /\ [s.files[f] EXCEPT !.descriptor = None].descriptor = None
        /\ [s.files[f] EXCEPT !.descriptor = None].size = s.files[f].size
    BY <2>2 DEF File, None
  <2>5. /\ files \in Seq(File) /\ DOMAIN files = DOMAIN s.files
        /\ files[f].descriptor = None /\ files[f].size = s.files[f].size
        /\ \A g \in DOMAIN s.files \ {f} : files[g] = s.files[g]
    BY <2>1, <2>2, <2>4
  <2> HIDE DEF files
  <2>6. /\ t \in FS /\ t.files = files /\ t.dirs = s.dirs
        /\ t.symlinks = s.symlinks /\ t.descriptors = s.descriptors
    BY <2>1, <2>5, WithFiles
  <2> HIDE DEF t
  <2>7. Tree(t)
    BY <2>5, <2>6 DEF Consistent, Tree, EntriesAllocated, NodeAllocated
  <2>8. FilesKnowTheirDescriptors(t)
    BY <2>5, <2>6 DEF Consistent, FilesKnowTheirDescriptors
  <2>9. OffsetsWithinFiles(t)
    <3>1. \A e \in DOMAIN s.descriptors :
            /\ s.descriptors[e].file \in DOMAIN files
            /\ s.descriptors[e].offset <= files[s.descriptors[e].file].size
      BY <2>5 DEF Consistent, OffsetsWithinFiles
    <3> QED BY <2>6, <3>1 DEF OffsetsWithinFiles
  <2>10. closed = t
    BY DEF t, files
  <2> QED BY <2>3, <2>7, <2>8, <2>9, <2>10, DoneGood, OperationTypes DEF Consistent
<1> QED BY <1>1, <1>2

(* fsync (fs.rs:320) keeps the invariant and does not panic.                *)
LEMMA FSyncGood ==
  ASSUME NEW s, Consistent(s), NEW d \in Nat
  PROVE  Good(FSync(s, d))
<1>1. CASE DescriptorError(s, d) # Ok
  BY <1>1, DescriptorErrorFacts, FailedGood DEF FSync
<1>2. CASE DescriptorError(s, d) = Ok
  BY <1>2, DoneGood, OperationTypes DEF FSync
<1> QED BY <1>1, <1>2

(* The offset advanced within the file.                                     *)
LEMMA AdvancedGood ==
  ASSUME NEW s, Consistent(s), NEW d \in DOMAIN s.descriptors, NEW offset \in Nat,
         offset <= s.files[s.descriptors[d].file].size, NEW op \in Operation
  PROVE  Good(Advanced(s, d, offset, op))
<1> DEFINE descriptors == [s.descriptors EXCEPT ![d] = [s.descriptors[d] EXCEPT !.offset = offset]]
           t           == [s EXCEPT !.descriptors = descriptors]
<1>1. s \in FS /\ s.files \in Seq(File) /\ s.descriptors \in Seq(FileDescriptor)
  BY FieldsOf DEF Consistent, Tree
<1>2. s.descriptors[d] \in FileDescriptor
  BY <1>1
<1>3. s.files[s.descriptors[d].file].size \in Nat
  BY DescriptorFacts
<1>4. /\ [s.descriptors[d] EXCEPT !.offset = offset] \in FileDescriptor
      /\ [s.descriptors[d] EXCEPT !.offset = offset].offset = offset
      /\ [s.descriptors[d] EXCEPT !.offset = offset].file = s.descriptors[d].file
  BY <1>2 DEF FileDescriptor
<1>5. Advanced(s, d, offset, op) = Done([s EXCEPT !.descriptors[d].offset = offset], op)
  BY <1>3 DEF Advanced
<1>6. /\ descriptors \in Seq(FileDescriptor) /\ DOMAIN descriptors = DOMAIN s.descriptors
      /\ descriptors[d].offset = offset /\ descriptors[d].file = s.descriptors[d].file
      /\ \A e \in DOMAIN s.descriptors \ {d} : descriptors[e] = s.descriptors[e]
  BY <1>1, <1>2, <1>4
<1> HIDE DEF descriptors
<1>7. /\ t \in FS /\ t.descriptors = descriptors /\ t.dirs = s.dirs
      /\ t.files = s.files /\ t.symlinks = s.symlinks
  BY <1>1, <1>6, WithDescriptors
<1> HIDE DEF t
<1>8. Tree(t)
  BY <1>7 DEF Consistent, Tree, EntriesAllocated, NodeAllocated
<1>9. FilesKnowTheirDescriptors(t)
  BY <1>6, <1>7 DEF Consistent, FilesKnowTheirDescriptors
<1>10. OffsetsWithinFiles(t)
  BY <1>6, <1>7 DEF Consistent, OffsetsWithinFiles
<1>11. [s EXCEPT !.descriptors[d].offset = offset] = t
  BY DEF t, descriptors
<1> QED BY <1>5, <1>8, <1>9, <1>10, <1>11, DoneGood DEF Consistent

(* read (fs.rs:266) keeps the invariant and does not panic.                 *)
LEMMA ReadGood ==
  ASSUME NEW s, Consistent(s), NEW d \in Nat, NEW size \in Nat
  PROVE  Good(Read(s, d, size))
<1>1. CASE DescriptorError(s, d) # Ok
  BY <1>1, DescriptorErrorFacts, FailedGood DEF Read
<1>2. CASE DescriptorError(s, d) = Ok
  <2> DEFINE offset    == s.descriptors[d].offset
             file_size == s.files[s.descriptors[d].file].size
             next      == offset + BytesRead(size, offset, file_size)
  <2>1. /\ d \in DOMAIN s.descriptors /\ offset \in Nat /\ file_size \in Nat
        /\ offset <= file_size
    BY <1>2, DescriptorErrorFacts, DescriptorFacts
  <2>2. Read(s, d, size) = Advanced(s, d, next, ReadOp(d, size))
    BY <1>2, <2>1 DEF Read
  <2>3. next \in Nat /\ next <= file_size
    BY <2>1 DEF BytesRead
  <2> HIDE DEF next
  <2> QED BY <2>1, <2>2, <2>3, AdvancedGood, OperationTypes
<1> QED BY <1>1, <1>2

(* write (fs.rs:289) keeps the invariant and does not panic.                *)
LEMMA WriteGood ==
  ASSUME NEW s, Consistent(s), NEW d \in Nat, NEW src \in Nat, NEW size \in Nat
  PROVE  Good(Write(s, d, src, size))
<1>1. CASE DescriptorError(s, d) # Ok
  BY <1>1, DescriptorErrorFacts, FailedGood DEF Write
<1>2. CASE DescriptorError(s, d) = Ok
  <2> DEFINE offset  == s.descriptors[d].offset
             f       == s.descriptors[d].file
             extent  == SizeWritten(size, offset, s.files[f].size)
             written == [s EXCEPT !.files[f].size = SizeWritten(size, offset, @)]
             files   == [s.files EXCEPT ![f] = [s.files[f] EXCEPT !.size = extent]]
             t       == [s EXCEPT !.files = files]
  <2>1. /\ d \in DOMAIN s.descriptors /\ offset \in Nat
        /\ f \in DOMAIN s.files /\ s.files[f] \in File /\ offset <= s.files[f].size
    BY <1>2, DescriptorErrorFacts, DescriptorFacts
  <2>2. s \in FS /\ s.files \in Seq(File) /\ s.descriptors \in Seq(FileDescriptor)
    BY FieldsOf DEF Consistent, Tree
  <2>3. s.files[f].size \in Nat
    BY <2>1 DEF File
  <2>4. extent \in Nat /\ s.files[f].size <= extent /\ offset + size <= extent
    BY <2>1, <2>3 DEF SizeWritten
  <2>5. Write(s, d, src, size) = Advanced(written, d, offset + size, WriteOp(d, src, size))
    BY <1>2, <2>1, <2>3 DEF Write
  <2>6. written = t
    BY DEF t, files
  <2> HIDE DEF extent, f, offset, written
  <2>7. /\ [s.files[f] EXCEPT !.size = extent] \in File
        /\ [s.files[f] EXCEPT !.size = extent].size = extent
        /\ [s.files[f] EXCEPT !.size = extent].descriptor = s.files[f].descriptor
    BY <2>1, <2>4 DEF File
  <2>8. /\ files \in Seq(File) /\ DOMAIN files = DOMAIN s.files
        /\ files[f].size = extent /\ files[f].descriptor = s.files[f].descriptor
        /\ \A g \in DOMAIN s.files \ {f} : files[g] = s.files[g]
    BY <2>1, <2>2, <2>7
  <2> HIDE DEF files
  <2>9. /\ t \in FS /\ t.files = files /\ t.dirs = s.dirs
        /\ t.symlinks = s.symlinks /\ t.descriptors = s.descriptors
    BY <2>2, <2>8, WithFiles
  <2> HIDE DEF t
  <2>10. Tree(t)
    BY <2>8, <2>9 DEF Consistent, Tree, EntriesAllocated, NodeAllocated
  <2>11. FilesKnowTheirDescriptors(t)
    BY <2>8, <2>9 DEF Consistent, FilesKnowTheirDescriptors
  <2>12. OffsetsWithinFiles(t)
    <3> SUFFICES ASSUME NEW e \in DOMAIN s.descriptors
                 PROVE  /\ s.descriptors[e].file \in DOMAIN files
                        /\ s.descriptors[e].offset <= files[s.descriptors[e].file].size
      BY <2>9 DEF OffsetsWithinFiles
    <3>1. /\ s.descriptors[e].file \in DOMAIN s.files
          /\ s.descriptors[e].offset <= s.files[s.descriptors[e].file].size
          /\ s.descriptors[e].offset \in Nat
      BY DescriptorFacts
    <3> QED BY <2>3, <2>4, <2>8, <3>1
  <2>13. Consistent(t)
    BY <2>10, <2>11, <2>12 DEF Consistent
  <2>14. offset + size <= t.files[t.descriptors[d].file].size
    BY <2>4, <2>8, <2>9 DEF f
  <2>15. PICK op \in Operation : op = WriteOp(d, src, size)
    BY OperationTypes
  <2>16. d \in DOMAIN t.descriptors /\ offset + size \in Nat
    BY <2>1, <2>9
  <2>17. Good(Advanced(t, d, offset + size, op))
    BY <2>13, <2>14, <2>16, AdvancedGood
  <2> QED BY <2>5, <2>6, <2>15, <2>17
<1> QED BY <1>1, <1>2

(* Any operation of a workload, as replay applies it.                       *)
LEMMA ApplyGood ==
  ASSUME NEW s, Consistent(s), NEW op \in Operation
  PROVE  Good(Apply(s, op))
<1>1. CASE op \in [kind : {"MkDir", "Create", "Remove"}, path : PathName]
  <2>1. /\ op.path \in PathName
        /\ op.kind = "MkDir" \/ op.kind = "Create" \/ op.kind = "Remove"
    BY <1>1
  <2>2. CASE op.kind = "MkDir"
    BY <2>1, <2>2, MkDirGood DEF Apply
  <2>3. CASE op.kind = "Create"
    BY <2>1, <2>3, CreateGood DEF Apply
  <2>4. CASE op.kind = "Remove"
    BY <2>1, <2>4, RemoveGood DEF Apply
  <2> QED BY <2>1, <2>2, <2>3, <2>4
<1>2. CASE op \in [kind : {"Hardlink", "Rename"}, old_path : PathName, new_path : PathName]
  <2>1. /\ op.old_path \in PathName /\ op.new_path \in PathName
        /\ op.kind = "Hardlink" \/ op.kind = "Rename"
    BY <1>2
  <2>2. CASE op.kind = "Hardlink"
    BY <2>1, <2>2, HardlinkGood DEF Apply
  <2>3. CASE op.kind = "Rename"
    BY <2>1, <2>3, RenameGood DEF Apply
  <2> QED BY <2>1, <2>2, <2>3
<1>3. CASE op \in [kind : {"Symlink"}, target : PathName, linkpath : PathName]
  <2>1. op.target \in PathName /\ op.linkpath \in PathName /\ op.kind = "Symlink"
    BY <1>3
  <2> QED BY <2>1, SymlinkGood DEF Apply
<1>4. CASE op \in [kind : {"Open"}, path : PathName, des : Nat]
  <2>1. op.path \in PathName /\ op.kind = "Open"
    BY <1>4
  <2> QED BY <2>1, OpenGood DEF Apply
<1>5. CASE op \in [kind : {"Close", "FSync"}, des : Nat]
  <2>1. op.des \in Nat /\ (op.kind = "Close" \/ op.kind = "FSync")
    BY <1>5
  <2>2. CASE op.kind = "Close"
    BY <2>1, <2>2, CloseGood DEF Apply
  <2>3. CASE op.kind = "FSync"
    BY <2>1, <2>3, FSyncGood DEF Apply
  <2> QED BY <2>1, <2>2, <2>3
<1>6. CASE op \in [kind : {"Read"}, des : Nat, size : Nat]
  <2>1. op.des \in Nat /\ op.size \in Nat /\ op.kind = "Read"
    BY <1>6
  <2> QED BY <2>1, ReadGood DEF Apply
<1>7. CASE op \in [kind : {"Write"}, des : Nat, src_offset : Nat, size : Nat]
  <2>1. op.des \in Nat /\ op.src_offset \in Nat /\ op.size \in Nat /\ op.kind = "Write"
    BY <1>7
  <2> QED BY <2>1, WriteGood DEF Apply
<1> QED BY <1>1, <1>2, <1>3, <1>4, <1>5, <1>6, <1>7 DEF Operation

(***************************************************************************)
(* A tree t in which one entry of s has been replaced.  Resolutions of s    *)
(* that succeed are not affected if the entry led nowhere on: to a file, to *)
(* an empty directory, or to a symlink to one of those.                     *)
(***************************************************************************)
OneEntryReplaced(s, t, d, name) ==
  /\ t.symlinks = s.symlinks /\ DOMAIN t.dirs = DOMAIN s.dirs
  /\ \A c \in DOMAIN s.dirs, n \in Keys :
       (c # d \/ n # name) => t.dirs[c][n] = s.dirs[c][n]

(* The node of the entry, and the node its symlink leads to.                *)
EndsOf(s, top, node) ==
  {node} \cup {x \in Node : /\ node.kind = "Symlink"
                            /\ Followed(s, top, s.symlinks[node.idx], {}).err = Ok
                            /\ x = Followed(s, top, s.symlinks[node.idx], {}).node}

LeadsNowhere(s, top, node) ==
  \A x \in EndsOf(s, top, node) : x.kind = "Dir" => IsEmptyDir(s, x.idx)

Replaced(s, t, top, d, name) ==
  /\ Tree(s) /\ Tree(t) /\ top \in Nat
  /\ OneEntryReplaced(s, t, d, name)
  /\ LeadsNowhere(s, top, s.dirs[d][name])

Unaffected(s, t, top, node, depth) ==
  \A path \in PathName, follow \in BOOLEAN, visited \in SUBSET Nat :
    WalkAnswer(s, depth, path, follow, visited).err = Ok =>
      \/ WalkAnswer(t, depth, path, follow, visited) = WalkAnswer(s, depth, path, follow, visited)
      \/ WalkAnswer(s, depth, path, follow, visited).node \in EndsOf(s, top, node)

(* Nothing is found in an end.                                              *)
LEMMA NothingInEnds ==
  ASSUME NEW s, Tree(s), NEW top, NEW node, LeadsNowhere(s, top, node),
         NEW depth \in Nat, NEW path \in PathName, Found(s, depth, path)
  PROVE  Entered(s, depth, path).node \notin EndsOf(s, top, node)
<1> SUFFICES ASSUME Entered(s, depth, path).node \in EndsOf(s, top, node)
             PROVE  FALSE
  OBVIOUS
<1>1. s.dirs[Entered(s, depth, path).node.idx] = EmptyDir
  BY FoundFacts DEF LeadsNowhere, IsEmptyDir
<1>2. NameOf(path) \in Keys
  BY PathFacts
<1>3. Looked(s, depth, path) = Absent
  BY <1>1, <1>2 DEF Looked, EmptyDir
<1> QED BY <1>3 DEF Found

(* A symlink whose target is resolved leads to an end if it is the entry's. *)
LEMMA TargetIsEnd ==
  ASSUME NEW s, Tree(s), NEW top \in Nat, NEW node \in Node, node.kind = "Symlink",
         node.idx \in DOMAIN s.symlinks, node.idx \in Nat,
         NEW depth \in Nat, depth <= top, NEW visited \in SUBSET Nat,
         Followed(s, depth, s.symlinks[node.idx], visited).err = Ok
  PROVE  Followed(s, depth, s.symlinks[node.idx], visited).node \in EndsOf(s, top, node)
<1>1. PICK target : target = s.symlinks[node.idx]
  OBVIOUS
<1>2. target \in PathName /\ {} \in SUBSET Nat /\ {} \in SUBSET visited
  BY <1>1, SymlinkFacts
<1>3. Followed(s, depth, target, {}) = Followed(s, depth, target, visited)
  BY <1>1, <1>2, FewerVisited DEF Followed
<1>4. Followed(s, top, target, {}) = Followed(s, depth, target, {})
  <2>1. Fits(Followed(s, depth, target, {}))
    BY <1>1, <1>3 DEF Fits, Ok
  <2> QED BY <1>2, <2>1, MoreFrames DEF Followed
<1>5. Followed(s, top, target, {}) \in Sound(s)
  BY <1>2, AnswerSound DEF Followed
<1>6. Followed(s, top, target, {}).node \in Node
  BY <1>1, <1>3, <1>4, <1>5 DEF Sound
<1> QED BY <1>1, <1>3, <1>4, <1>6 DEF EndsOf

(* An end that is a symlink is the entry's.                                 *)
LEMMA LinkAmongEnds ==
  ASSUME NEW s, Tree(s), NEW top \in Nat, NEW node \in Node, NodeAllocated(s, node),
         NEW x \in EndsOf(s, top, node), x.kind = "Symlink"
  PROVE  x = node
<1> SUFFICES ASSUME x # node
             PROVE  FALSE
  OBVIOUS
<1>1. PICK target : target = s.symlinks[node.idx]
  OBVIOUS
<1>2. node.kind = "Symlink" /\ Followed(s, top, target, {}).err = Ok
        /\ x = Followed(s, top, target, {}).node
  BY <1>1 DEF EndsOf
<1>3. target \in PathName /\ {} \in SUBSET Nat
  BY <1>1, <1>2, SymlinkFacts DEF NodeAllocated
<1> QED BY <1>2, <1>3, FollowedIsNoLink

(* The same directory is entered in both trees.                             *)
LEMMA SameEntered ==
  ASSUME NEW s, NEW t, NEW top, NEW d \in DOMAIN s.dirs, NEW name \in Keys,
         Replaced(s, t, top, d, name),
         NEW depth \in Nat, depth <= top, Unaffected(s, t, top, s.dirs[d][name], depth),
         NEW path \in PathName, Found(s, depth, path)
  PROVE  Entered(t, depth, path) = Entered(s, depth, path)
<1>0. /\ Tree(s) /\ Tree(t) /\ top \in Nat /\ t.symlinks = s.symlinks
      /\ DOMAIN t.dirs = DOMAIN s.dirs /\ LeadsNowhere(s, top, s.dirs[d][name])
  BY DEF Replaced, OneEntryReplaced
<1>1. PICK node : node = s.dirs[d][name]
  OBVIOUS
<1>2. PICK up : up = OnTheWay(s, depth, ParentOf(path))
  OBVIOUS
<1>3. PICK in : in = Entered(s, depth, path)
  OBVIOUS
<1>4. up \in Sound(s) /\ ParentOf(path) \in PathName /\ {} \in SUBSET Nat
  BY <1>0, <1>2, AnswerSound, PathFacts DEF OnTheWay
<1>5. in = Enter(s, Walk(s)[depth], up)
  BY <1>2, <1>3 DEF Entered, OnTheWay
<1>6. in.err = Ok /\ in.node \notin EndsOf(s, top, node) /\ in.node.kind = "Dir"
        /\ in.node.idx \in DOMAIN s.dirs
  BY <1>0, <1>1, <1>3, NothingInEnds, FoundFacts DEF Found
<1>7. up.err = Ok /\ up.node.kind \in {"Dir", "Symlink"}
  <2>1. up.err # Ok => in = up
    BY <1>5 DEF Enter, AsDir
  <2>2. up.err = Ok /\ up.node.kind = "File" => in.err # Ok
    BY <1>5 DEF Enter, Unresolved, Ok
  <2> QED BY <1>4, <1>6, <2>1, <2>2 DEF Sound, Node
<1>8. OnTheWay(t, depth, ParentOf(path)) = up \/ up.node \in EndsOf(s, top, node)
  BY <1>1, <1>2, <1>4, <1>7 DEF Unaffected, OnTheWay
<1>9. Entered(t, depth, path) = Enter(t, Walk(t)[depth], OnTheWay(t, depth, ParentOf(path)))
  BY DEF Entered, OnTheWay
<1>10. CASE up.node.kind = "Dir"
  <2>1. in = up
    BY <1>5, <1>6, <1>7, <1>10 DEF Enter, AsDir, Unresolved, Ok
  <2>2. OnTheWay(t, depth, ParentOf(path)) = up
    BY <1>6, <1>8, <2>1
  <2>3. Enter(t, Walk(t)[depth], up) = up
    BY <1>0, <1>6, <1>7, <1>10, <2>1 DEF Enter, AsDir
  <2> QED BY <1>3, <1>9, <2>1, <2>2, <2>3
<1>11. CASE up.node.kind = "Symlink"
  <2>1. up.node.idx \in DOMAIN s.symlinks /\ up.node.idx \in Nat
          /\ s.symlinks[up.node.idx] \in PathName
    BY <1>0, <1>4, <1>7, <1>11, LinkFacts
  <2>2. PICK target : target = s.symlinks[up.node.idx]
    OBVIOUS
  <2>3. PICK direct : direct = Followed(s, depth, target, {})
    OBVIOUS
  <2>4. in = Via(up.dirs, AsDir(s, direct))
    BY <1>5, <1>7, <1>11, <2>1, <2>2, <2>3 DEF Enter, Followed, WalkAnswer
  <2>5. direct.err = Ok /\ direct.node.kind = "Dir" /\ AsDir(s, direct) = direct
    <3>1. AsDir(s, direct).err = Ok
      BY <1>6, <2>4, ResultFields
    <3> QED BY <3>1, AsDirOk
  <2>6. in.node = direct.node
    BY <2>4, <2>5, ResultFields
  <2>7. up.node \notin EndsOf(s, top, node)
    <3> SUFFICES ASSUME up.node \in EndsOf(s, top, node)
                 PROVE  FALSE
      OBVIOUS
    <3>1. node \in Node \cup {Absent} /\ NodeAllocated(s, node)
      BY <1>0, <1>1, EntryFacts
    <3>2. node # Absent
      BY <1>11 DEF EndsOf, Absent
    <3>3. up.node = node
      BY <1>0, <1>11, <3>1, <3>2, LinkAmongEnds
    <3>4. direct.node \in EndsOf(s, top, node)
      BY <1>0, <1>11, <2>1, <2>2, <2>3, <2>5, <3>1, <3>2, <3>3, <1>4, TargetIsEnd
    <3> QED BY <1>6, <2>6, <3>4
  <2>8. OnTheWay(t, depth, ParentOf(path)) = up
    BY <1>8, <2>7
  <2>9. Followed(t, depth, target, {}) = direct
    <3>1. Followed(t, depth, target, {}) = direct \/ direct.node \in EndsOf(s, top, node)
      BY <1>1, <1>4, <2>1, <2>2, <2>3, <2>5 DEF Unaffected, Followed
    <3> QED BY <1>6, <2>6, <3>1
  <2>10. AsDir(t, direct) = direct
    BY <1>0, <1>6, <2>5, <2>6 DEF AsDir
  <2>11. Enter(t, Walk(t)[depth], up) = Via(up.dirs, AsDir(t, Followed(t, depth, target, {})))
    BY <1>0, <1>7, <1>11, <2>1, <2>2 DEF Enter, Followed, WalkAnswer
  <2> QED BY <1>3, <1>9, <2>4, <2>5, <2>8, <2>9, <2>10, <2>11
<1> QED BY <1>7, <1>10, <1>11

(* By induction on the stack frames.                                        *)
LEMMA NotAffected ==
  ASSUME NEW s, NEW t, NEW top, NEW d \in DOMAIN s.dirs, NEW name \in Keys,
         Replaced(s, t, top, d, name), NEW depth \in Nat, depth <= top + 1
  PROVE  Unaffected(s, t, top, s.dirs[d][name], depth)
<1>0. /\ Tree(s) /\ Tree(t) /\ top \in Nat /\ t.symlinks = s.symlinks
      /\ DOMAIN t.dirs = DOMAIN s.dirs /\ LeadsNowhere(s, top, s.dirs[d][name])
      /\ \A c \in DOMAIN s.dirs, n \in Keys :
           (c # d \/ n # name) => t.dirs[c][n] = s.dirs[c][n]
  BY DEF Replaced, OneEntryReplaced
<1>1. PICK node : node = s.dirs[d][name]
  OBVIOUS
<1> DEFINE T == {n \in Nat : n <= top + 1 => Unaffected(s, t, top, node, n)}
<1>2. 0 \in T
  <2>1. Unresolved("StackOverflow").err # Ok
    BY DEF Unresolved, Ok
  <2> QED BY <1>0, <2>1, AnswerNoStack DEF Unaffected
<1>3. ASSUME NEW n \in Nat, n <= top, Unaffected(s, t, top, node, n)
      PROVE  Unaffected(s, t, top, node, n + 1)
  <2> SUFFICES ASSUME NEW p \in PathName, NEW f \in BOOLEAN, NEW v \in SUBSET Nat,
                      WalkAnswer(s, n + 1, p, f, v).err = Ok,
                      WalkAnswer(s, n + 1, p, f, v).node \notin EndsOf(s, top, node)
               PROVE  WalkAnswer(t, n + 1, p, f, v) = WalkAnswer(s, n + 1, p, f, v)
    BY DEF Unaffected
  <2>1. CASE IsRoot(p)
    BY <1>0, <2>1, AnswerStep
  <2>2. CASE ~IsRoot(p)
    <3>1. Found(s, n, p)
      BY <1>0, <2>2, OkFound
    <3>2. PICK in : in = Entered(s, n, p)
      OBVIOUS
    <3>3. PICK x : x = Looked(s, n, p)
      OBVIOUS
    <3>4. Entered(t, n, p) = in
      BY <1>0, <1>1, <1>3, <3>1, <3>2, SameEntered
    <3>5. x \in Node /\ NodeAllocated(s, x) /\ in.node.idx \in DOMAIN s.dirs /\ NameOf(p) \in Keys
            /\ x # Absent /\ x = s.dirs[in.node.idx][NameOf(p)] /\ in.err = Ok
      BY <1>0, <3>1, <3>2, <3>3, FoundFacts, PathFacts DEF Found, Looked
    <3>6. x.kind = "Symlink" => x.idx \in DOMAIN s.symlinks /\ x.idx \in Nat
                                  /\ s.symlinks[x.idx] \in PathName
      BY <1>0, <3>1, <3>3, FoundLink
    <3>7. x \notin EndsOf(s, top, node)
      <4> SUFFICES ASSUME x \in EndsOf(s, top, node)
                   PROVE  FALSE
        OBVIOUS
      <4>1. x.kind = "Symlink" /\ f
        <5> SUFFICES ASSUME ~(x.kind = "Symlink" /\ f)
                     PROVE  FALSE
          OBVIOUS
        <5>1. WalkAnswer(s, n + 1, p, f, v) = Resolved(x, Passed(s, n, p))
          BY <1>0, <2>2, <3>1, <3>3, AnswerFound
        <5> QED BY <5>1, ResultFields
      <4>2. x.idx \notin v /\ Beyond(s, n, p, v).err = Ok
        <5>1. Looked(s, n, p).kind = "Symlink" /\ f
          BY <3>3, <4>1
        <5>2. Looked(s, n, p).idx \notin v /\ Beyond(s, n, p, v).err = Ok
          <6>1. Tree(s)
            BY <1>0
          <6> HIDE DEF T
          <6> QED BY <2>2, <5>1, <6>1, OkFound
        <5> QED BY <3>3, <5>2
      <4>3. PICK target, seen : target = s.symlinks[x.idx] /\ seen = Seen(v, x.idx)
        OBVIOUS
      <4>4. Beyond(s, n, p, v) = Followed(s, n, target, seen) /\ seen \in SUBSET Nat
        BY <1>0, <3>1, <3>3, <4>1, <4>3, FoundLink DEF Beyond
      <4>5. Looked(s, n, p).idx \notin v
        BY <3>3, <4>2
      <4>6. WalkAnswer(s, n + 1, p, f, v) = Via(Passed(s, n, p), Beyond(s, n, p, v))
        BY <1>0, <2>2, <3>1, <3>3, <4>1, <4>5, AnswerFound, Zenon
      <4>7. node \in Node /\ NodeAllocated(s, node)
        <5>1. node \in Node \cup {Absent} /\ NodeAllocated(s, node)
          BY <1>0, <1>1, EntryFacts
        <5> QED BY <4>1, <5>1 DEF EndsOf, Absent
      <4>8. x = node
        BY <1>0, <4>1, <4>7, LinkAmongEnds
      <4>9. Followed(s, n, target, seen).node \in EndsOf(s, top, node)
        BY <1>0, <1>3, <3>6, <4>1, <4>2, <4>3, <4>4, <4>7, <4>8, TargetIsEnd
      <4> QED BY <4>4, <4>6, <4>9, ResultFields
    <3>8. t.dirs[in.node.idx][NameOf(p)] = x
      <4>1. x # node
        BY <3>7 DEF EndsOf
      <4> QED BY <1>0, <1>1, <3>5, <4>1
    <3>9. Looked(t, n, p) = x /\ Found(t, n, p) /\ Passed(t, n, p) = Passed(s, n, p)
      BY <3>2, <3>4, <3>5, <3>8 DEF Looked, Found, Passed
    <3>10. CASE ~(x.kind = "Symlink" /\ f)
      <4>1. WalkAnswer(s, n + 1, p, f, v) = Resolved(x, Passed(s, n, p))
        BY <1>0, <2>2, <3>1, <3>3, <3>10, AnswerFound
      <4>2. WalkAnswer(t, n + 1, p, f, v) = Resolved(x, Passed(t, n, p))
        BY <1>0, <2>2, <3>9, <3>10, AnswerFound
      <4> QED BY <3>9, <4>1, <4>2
    <3>11. CASE x.kind = "Symlink" /\ f
      <4>1. x.idx \notin v /\ Beyond(s, n, p, v).err = Ok
        <5>1. Looked(s, n, p).kind = "Symlink" /\ f
          BY <3>3, <3>11
        <5>2. Looked(s, n, p).idx \notin v /\ Beyond(s, n, p, v).err = Ok
          <6>1. Tree(s)
            BY <1>0
          <6> HIDE DEF T
          <6> QED BY <2>2, <5>1, <6>1, OkFound
        <5> QED BY <3>3, <5>2
      <4>2. WalkAnswer(s, n + 1, p, f, v) = Via(Passed(s, n, p), Beyond(s, n, p, v))
        BY <1>0, <2>2, <3>1, <3>3, <3>11, <4>1, AnswerFound, Zenon
      <4>3. WalkAnswer(t, n + 1, p, f, v) = Via(Passed(t, n, p), Beyond(t, n, p, v))
        BY <1>0, <2>2, <3>9, <3>11, <4>1, AnswerFound, Zenon
      <4>4. PICK target, seen : target = s.symlinks[x.idx] /\ seen = Seen(v, x.idx)
        OBVIOUS
      <4>5. /\ Beyond(s, n, p, v) = Followed(s, n, target, seen)
            /\ Beyond(t, n, p, v) = Followed(t, n, target, seen)
        BY <1>0, <3>3, <3>9, <4>4 DEF Beyond
      <4>6. target \in PathName /\ seen \in SUBSET Nat
        BY <3>6, <3>11, <4>4 DEF Seen
      <4>7. Followed(t, n, target, seen) = Followed(s, n, target, seen)
        <5>1. Followed(s, n, target, seen).node \notin EndsOf(s, top, node)
          BY <4>2, <4>5, ResultFields
        <5> QED BY <1>3, <4>1, <4>5, <4>6, <5>1 DEF Unaffected, Followed
      <4> QED BY <3>9, <4>2, <4>3, <4>5, <4>7
    <3> QED BY <3>10, <3>11
  <2> QED BY <2>1, <2>2
<1>4. ASSUME NEW n \in Nat, n \in T
      PROVE  n + 1 \in T
  <2> SUFFICES ASSUME n + 1 <= top + 1
               PROVE  Unaffected(s, t, top, node, n + 1)
    OBVIOUS
  <2>1. n <= top /\ Unaffected(s, t, top, node, n)
    BY <1>0, <1>4
  <2> QED BY <1>3, <2>1
<1> HIDE DEF T
<1>5. Nat \subseteq T
  BY <1>2, <1>4, NatSetInduction
<1> QED BY <1>1, <1>5 DEF T

(***************************************************************************)
(* rename.                                                                  *)
(***************************************************************************)
SourceOf(s, old) == ResolveNode(s, old, FALSE)

Linked(s, old, new) ==
  Insert(s, ResolveDir(s, ParentOf(new)).node.idx, NameOf(new), SourceOf(s, old).node)

(* The checks before the new entry is made (fs.rs:204-218).                 *)
Moves(s, old, new) ==
  /\ ~ReplacesNonEmptyDir(s, ResolveDir(s, new))
  /\ ResolveDir(s, new).err \notin Crashes
  /\ SourceOf(s, old).err = Ok
  /\ ResolveDir(s, ParentOf(new)).err = Ok
  /\ ~MovesIntoItself(SourceOf(s, old).node, ResolveDir(s, ParentOf(new)))

(* A rename that fails a check changes nothing.                             *)
LEMMA RenameRefused ==
  ASSUME NEW s, NEW old, NEW new, ~Moves(s, old, new)
  PROVE  Rename(s, old, new).err # Ok /\ Rename(s, old, new).fs = s
<1>1. \E e : e # Ok /\ Rename(s, old, new) = Failed(s, e)
  <2>1. "DirNotEmpty" # Ok /\ "RenameToSubdirectoryError" # Ok /\ Ok \notin Crashes
    BY DEF Ok, Crashes
  <2> QED BY <2>1 DEF Rename, Moves, SourceOf
<1> QED BY <1>1 DEF Failed

(* What is renamed is an entry of the directory that holds it.              *)
LEMMA SourceFound ==
  ASSUME NEW s, Tree(s), NEW old \in PathName, ~IsRoot(old), SourceOf(s, old).err = Ok
  PROVE  \E top \in Nat :
           /\ StackDepth = top + 1
           /\ Found(s, top, old)
           /\ SourceOf(s, old).node = Looked(s, top, old)
           /\ ResolveDir(s, ParentOf(old)) = Entered(s, top, old)
<1>1. SourceOf(s, old) = OnTheWay(s, StackDepth, old)
  BY DEF SourceOf, ResolveNode, OnTheWay, WalkAnswer
<1>2. StackDepth # 0
  <2>1. Unresolved("StackOverflow").err # Ok /\ {} \in SUBSET Nat
    BY DEF Unresolved, Ok
  <2> QED BY <1>1, <2>1, AnswerNoStack DEF OnTheWay
<1>3. PICK top \in Nat : StackDepth = top + 1
  <2>1. StackDepth - 1 \in Nat /\ StackDepth = (StackDepth - 1) + 1
    BY <1>2, StackDepthAssumption
  <2> QED BY <2>1
<1>4. {} \in SUBSET Nat /\ OnTheWay(s, top + 1, old).err = Ok
  BY <1>1, <1>3
<1>5. Found(s, top, old)
  BY <1>4, OkFound DEF OnTheWay
<1>6. OnTheWay(s, top + 1, old) = Resolved(Looked(s, top, old), Passed(s, top, old))
  BY <1>4, <1>5, AnswerFound DEF OnTheWay
<1>7. SourceOf(s, old).node = Looked(s, top, old)
  BY <1>1, <1>3, <1>6, ResultFields
<1>8. ResolveDir(s, ParentOf(old)) = Entered(s, top, old)
  <2>1. PICK up : up = OnTheWay(s, top, ParentOf(old))
    OBVIOUS
  <2>2. PICK in : in = Entered(s, top, old)
    OBVIOUS
  <2>3. in = Enter(s, Walk(s)[top], up) /\ in.err = Ok /\ ParentOf(old) \in PathName
    BY <1>5, <2>1, <2>2, PathFacts DEF Entered, OnTheWay, Found
  <2>4. Fits(in)
    BY <2>3 DEF Fits, Ok
  <2>5. Dir1(s, top, ParentOf(old)) = in
    BY <2>1, <2>3, <2>4, EnterIsResolve
  <2> QED BY <1>3, <2>2, <2>5, ResolveAnswers DEF Dir1
<1> QED BY <1>3, <1>5, <1>7, <1>8

(* Neither the root is moved, into itself, nor is it replaced, not empty.   *)
LEMMA MovesNotTheRoot ==
  ASSUME NEW s, Tree(s), NEW old \in PathName, NEW new \in PathName, Moves(s, old, new)
  PROVE  ~IsRoot(old) /\ ~IsRoot(new)
<1>1. StackDepth # 0
  <2>1. Unresolved("StackOverflow").err # Ok /\ {} \in SUBSET Nat
    BY DEF Unresolved, Ok
  <2>2. SourceOf(s, old) = OnTheWay(s, StackDepth, old)
    BY DEF SourceOf, ResolveNode, OnTheWay, WalkAnswer
  <2> QED BY <2>1, <2>2, AnswerNoStack DEF OnTheWay, Moves
<1>2. PICK top \in Nat : StackDepth = top + 1
  <2>1. StackDepth - 1 \in Nat /\ StackDepth = (StackDepth - 1) + 1
    BY <1>1, StackDepthAssumption
  <2> QED BY <2>1
<1>3. ~IsRoot(old)
  <2> SUFFICES ASSUME IsRoot(old)
               PROVE  FALSE
    OBVIOUS
  <2>1. SourceOf(s, old) = OnTheWay(s, top + 1, old) /\ {} \in SUBSET Nat
    BY <1>2 DEF SourceOf, ResolveNode, OnTheWay, WalkAnswer
  <2>2. SourceOf(s, old) = Resolved(DirNode(RootIndex), {})
    BY <2>1, AnswerStep DEF OnTheWay
  <2>3. SourceOf(s, old).node = DirNode(RootIndex)
    BY <2>2, ResultFields
  <2>4. PICK dest : dest = ResolveDir(s, ParentOf(new))
    OBVIOUS
  <2>5. dest.err = Ok /\ dest = AsDir(s, Followed(s, StackDepth, ParentOf(new), {}))
    BY <2>4, ResolveAnswers DEF Moves
  <2>6. dest = Followed(s, StackDepth, ParentOf(new), {})
    BY <2>5, AsDirOk
  <2>7. StartsAtRoot(dest)
    BY <2>1, <2>5, <2>6, StackDepthAssumption, PathFacts, AnswersStartAtRoot DEF Followed
  <2>8. MovesIntoItself(DirNode(RootIndex), dest)
    BY <2>7 DEF MovesIntoItself, StartsAtRoot, DirNode
  <2> QED BY <2>3, <2>4, <2>8 DEF Moves
<1>4. ~IsRoot(new)
  <2> SUFFICES ASSUME IsRoot(new)
               PROVE  FALSE
    OBVIOUS
  <2>1. ~IsEmptyDir(s, RootIndex)
    <3>1. SourceOf(s, old).err = Ok
      BY DEF Moves
    <3> QED BY <1>3, <3>1, SourceFound, RootNotEmpty
  <2>2. Followed(s, top + 1, new, {}) = Resolved(DirNode(RootIndex), {})
    BY AnswerStep DEF Followed
  <2>3. ResolveDir(s, new) = AsDir(s, Resolved(DirNode(RootIndex), {}))
    BY <1>2, <2>2, ResolveAnswers
  <2>4. RootIndex \in DOMAIN s.dirs
    BY DEF Tree, EntriesAllocated
  <2>5. ResolveDir(s, new) = Resolved(DirNode(RootIndex), {})
    BY <2>3, <2>4, AsDirOk, ResultFields DEF DirNode
  <2>6. ResolveDir(s, new).err = Ok /\ ResolveDir(s, new).node.idx = RootIndex
    BY <2>5, ResultFields DEF DirNode
  <2> QED BY <2>1, <2>6 DEF Moves, ReplacesNonEmptyDir
<1> QED BY <1>3, <1>4

(* The entry that is replaced leads nowhere: the target was checked.        *)
LEMMA ReplacedLeadsNowhere ==
  ASSUME NEW s, Tree(s), NEW old \in PathName, NEW new \in PathName, Moves(s, old, new),
         NEW top \in Nat, StackDepth = top + 1,
         NEW dest, dest = ResolveDir(s, ParentOf(new)),
         NEW node, node = s.dirs[dest.node.idx][NameOf(new)]
  PROVE  LeadsNowhere(s, top, node)
<1>1. ~IsRoot(new) /\ ParentOf(new) \in PathName /\ NameOf(new) \in Keys /\ {} \in SUBSET Nat
  BY MovesNotTheRoot, PathFacts
<1>2. dest.err = Ok /\ dest.node.idx \in DOMAIN s.dirs
  BY <1>1, ResolveDirSound DEF Moves, IsDirOf
<1>3. node \in Node \cup {Absent} /\ NodeAllocated(s, node)
  BY <1>1, <1>2, EntryFacts
<1>4. CASE node = Absent
  BY <1>4 DEF LeadsNowhere, EndsOf, Absent
<1>5. CASE node # Absent
  <2>1. PICK target : target = ResolveDir(s, new)
    OBVIOUS
  <2>2. PICK r : r = Followed(s, top + 1, new, {})
    OBVIOUS
  <2>3. target = AsDir(s, r)
    BY <2>1, <2>2, ResolveAnswers
  <2>4. Fits(target) /\ ~ReplacesNonEmptyDir(s, target)
    BY <2>1 DEF Moves, Fits, Crashes
  <2>5. PICK in : in = Entered(s, top, new)
    OBVIOUS
  <2>6. in = Enter(s, Walk(s)[top], OnTheWay(s, top, ParentOf(new)))
    BY <2>5 DEF Entered, OnTheWay
  <2>7. Fits(in)
    <3> SUFFICES ASSUME ~Fits(in)
                 PROVE  FALSE
      OBVIOUS
    <3>1. in.err # Ok
      BY DEF Fits, Ok
    <3>2. LookUp(s, in, NameOf(new)) = in
      BY <3>1 DEF LookUp
    <3>3. r = in
      BY <1>1, <2>2, <2>5, <3>1, <3>2, AnswerStep DEF Followed, FollowLast
    <3>4. target = in
      BY <2>3, <3>1, <3>3, AsDirOk
    <3> QED BY <2>4, <3>4
  <2>8. Dir1(s, top, ParentOf(new)) = dest
    BY ResolveAnswers DEF Dir1
  <2>9. in = dest
    BY <1>1, <1>2, <2>6, <2>7, <2>8, EnterIsResolve
  <2>10. Found(s, top, new) /\ Looked(s, top, new) = node
    BY <1>2, <1>5, <2>5, <2>9 DEF Found, Looked
  <2>11. ASSUME r.err = Ok, r.node.kind = "Dir", r.node.idx \in DOMAIN s.dirs
         PROVE  IsEmptyDir(s, r.node.idx)
    <3>1. target = r
      BY <2>3, <2>11 DEF AsDir
    <3> QED BY <2>4, <2>11, <3>1 DEF ReplacesNonEmptyDir
  <2>12. node.kind = "Dir" => IsEmptyDir(s, node.idx)
    <3> SUFFICES ASSUME node.kind = "Dir"
                 PROVE  IsEmptyDir(s, node.idx)
      OBVIOUS
    <3>1. r = Resolved(node, Passed(s, top, new))
      BY <1>1, <2>2, <2>10, AnswerFound DEF Followed
    <3> QED BY <1>3, <2>11, <3>1, ResultFields DEF NodeAllocated
  <2>13. ASSUME node.kind = "Symlink", NEW x \in Node, x.kind = "Dir",
                Followed(s, top, s.symlinks[node.idx], {}).err = Ok,
                x = Followed(s, top, s.symlinks[node.idx], {}).node
         PROVE  IsEmptyDir(s, x.idx)
    <3>1. node.idx \in DOMAIN s.symlinks /\ node.idx \in Nat /\ s.symlinks[node.idx] \in PathName
      BY <2>10, <2>13, FoundLink
    <3>2. PICK direct : direct = Followed(s, top, s.symlinks[node.idx], {})
      OBVIOUS
    <3>3. Followed(s, top, s.symlinks[node.idx], Seen({}, node.idx)) = direct
      BY <2>13, <3>1, <3>2, LinkOnce
    <3>4. Beyond(s, top, new, {}) = direct
      BY <2>10, <3>3 DEF Beyond
    <3>5. r = Via(Passed(s, top, new), direct)
      BY <1>1, <2>2, <2>10, <2>13, <3>4, AnswerFound DEF Followed
    <3>6. r.err = Ok /\ r.node = x
      <4>1. r.err = direct.err /\ r.node = direct.node
        BY <3>5, ResultFields
      <4> QED BY <2>13, <3>2, <4>1
    <3>7. x.idx \in DOMAIN s.dirs
      <4>1. direct \in Sound(s)
        BY <1>1, <3>1, <3>2, AnswerSound DEF Followed
      <4> QED BY <2>13, <3>2, <4>1 DEF Sound, NodeAllocated
    <3> QED BY <2>11, <2>13, <3>6, <3>7
  <2> QED BY <2>12, <2>13 DEF LeadsNowhere, EndsOf
<1> QED BY <1>4, <1>5

(* Inserting replaces one entry.                                            *)
LEMMA InsertReplaces ==
  ASSUME NEW s \in FS, NEW d \in DOMAIN s.dirs, NEW name \in Keys, NEW node
  PROVE  /\ OneEntryReplaced(s, Insert(s, d, name, node), d, name)
         /\ Insert(s, d, name, node).dirs = [s.dirs EXCEPT ![d][name] = node]
<1>1. s.dirs \in Seq(Dir)
  BY FieldsOf
<1>2. /\ Insert(s, d, name, node).dirs = [s.dirs EXCEPT ![d][name] = node]
      /\ Insert(s, d, name, node).symlinks = s.symlinks
  BY DEF Insert, FS
<1>3. PICK dirs : dirs = Insert(s, d, name, node).dirs
  OBVIOUS
<1>4. DOMAIN dirs = DOMAIN s.dirs
  BY <1>2, <1>3
<1>5. ASSUME NEW c \in DOMAIN s.dirs, NEW n \in Keys, c # d \/ n # name
      PROVE  dirs[c][n] = s.dirs[c][n]
  <2>1. s.dirs[d] \in [Keys -> Node \cup {Absent}]
    BY <1>1 DEF Dir
  <2>2. dirs[c] = IF c = d THEN [s.dirs[d] EXCEPT ![name] = node] ELSE s.dirs[c]
    BY <1>2, <1>3, <1>4
  <2> QED BY <1>5, <2>1, <2>2
<1> QED BY <1>2, <1>3, <1>4, <1>5 DEF OneEntryReplaced

(* The second resolution of the old name's parent, in the changed tree,     *)
(* finds what the first found (fs.rs:224).                                  *)
LEMMA OriginFound ==
  ASSUME NEW s, Consistent(s), NEW old \in PathName, NEW new \in PathName, Moves(s, old, new)
  PROVE  LET from == ResolveDir(s, ParentOf(old))
             dest == ResolveDir(s, ParentOf(new))
         IN  /\ from.err = Ok /\ from.node.idx \in DOMAIN s.dirs
             /\ dest.err = Ok /\ dest.node.idx \in DOMAIN s.dirs
             /\ SourceOf(s, old).node = s.dirs[from.node.idx][NameOf(old)]
             /\ SourceOf(s, old).node # Absent
             /\ ResolveDir(Linked(s, old, new), ParentOf(old)) = from
<1>0. Tree(s) /\ s \in FS
  BY DEF Consistent, Tree
<1>1. ~IsRoot(old) /\ ~IsRoot(new) /\ SourceOf(s, old).err = Ok
  BY <1>0, MovesNotTheRoot DEF Moves
<1>2. /\ ParentOf(old) \in PathName /\ NameOf(old) \in Keys
      /\ ParentOf(new) \in PathName /\ NameOf(new) \in Keys /\ {} \in SUBSET Nat
  BY PathFacts
<1>3. PICK top \in Nat : /\ StackDepth = top + 1
                         /\ Found(s, top, old)
                         /\ SourceOf(s, old).node = Looked(s, top, old)
                         /\ ResolveDir(s, ParentOf(old)) = Entered(s, top, old)
  BY <1>0, <1>1, SourceFound
<1>4. PICK from, dest, source, t : /\ from = ResolveDir(s, ParentOf(old))
                                   /\ dest = ResolveDir(s, ParentOf(new))
                                   /\ source = SourceOf(s, old)
                                   /\ t = Linked(s, old, new)
  OBVIOUS
<1>5. dest.err = Ok /\ dest.node.idx \in DOMAIN s.dirs
  BY <1>0, <1>2, <1>4, ResolveDirSound DEF Moves, IsDirOf
<1>6. /\ from.err = Ok /\ from.node.kind = "Dir" /\ from.node.idx \in DOMAIN s.dirs
      /\ source.node = s.dirs[from.node.idx][NameOf(old)] /\ source.node # Absent
      /\ source.node \in Node /\ NodeAllocated(s, source.node)
  BY <1>0, <1>3, <1>4, FoundFacts DEF Found, Looked
<1>7. PICK d, name : d = dest.node.idx /\ name = NameOf(new)
  OBVIOUS
<1>8. t = Insert(s, d, name, source.node)
  BY <1>4, <1>7 DEF Linked
<1>9. Tree(t)
  <2>1. RemoveOp(old) \in Operation
    BY OperationTypes
  <2>2. Consistent(t)
    BY <1>2, <1>5, <1>6, <1>7, <1>8, <2>1, InsertGood
  <2> QED BY <2>2 DEF Consistent
<1>10. Replaced(s, t, top, d, name)
  <2>1. OneEntryReplaced(s, t, d, name)
    BY <1>0, <1>2, <1>5, <1>7, <1>8, InsertReplaces
  <2>2. LeadsNowhere(s, top, s.dirs[d][name])
    BY <1>0, <1>3, <1>4, <1>7, ReplacedLeadsNowhere
  <2> QED BY <1>0, <1>9, <2>1, <2>2 DEF Replaced
<1>11. Unaffected(s, t, top, s.dirs[d][name], top + 1)
  <2>1. top + 1 \in Nat /\ top + 1 <= top + 1
    OBVIOUS
  <2>2. d \in DOMAIN s.dirs /\ name \in Keys
    BY <1>2, <1>5, <1>7
  <2> QED BY <1>10, <2>1, <2>2, NotAffected
<1>12. PICK r : r = Followed(s, top + 1, ParentOf(old), {})
  OBVIOUS
<1>13. from = r
  BY <1>3, <1>4, <1>6, <1>12, ResolveAnswers, AsDirOk
<1>14. r.node \notin EndsOf(s, top, s.dirs[d][name])
  BY <1>0, <1>3, <1>4, <1>10, <1>13, NothingInEnds DEF Replaced
<1>15. Followed(t, top + 1, ParentOf(old), {}) = r
  BY <1>2, <1>6, <1>11, <1>12, <1>13, <1>14 DEF Unaffected, Followed
<1>16. ResolveDir(t, ParentOf(old)) = AsDir(t, r)
  BY <1>3, <1>15, ResolveAnswers
<1>17. AsDir(t, r) = r
  <2>1. DOMAIN t.dirs = DOMAIN s.dirs
    BY <1>10 DEF Replaced, OneEntryReplaced
  <2> QED BY <1>6, <1>13, <2>1 DEF AsDir
<1> QED BY <1>4, <1>5, <1>6, <1>13, <1>16, <1>17

(* A rename that passes the checks succeeds.                                *)
LEMMA RenameSucceeds ==
  ASSUME NEW s, Consistent(s), NEW old \in PathName, NEW new \in PathName, Moves(s, old, new)
  PROVE  Rename(s, old, new).err = Ok
<1>1. PICK t : t = Linked(s, old, new)
  OBVIOUS
<1>2. PICK from : from = ResolveDir(s, ParentOf(old))
  OBVIOUS
<1>3. from.err = Ok /\ ResolveDir(t, ParentOf(old)) = from
  BY <1>1, <1>2, OriginFound
<1>4. Rename(s, old, new) = Done(Delete(t, from.node.idx, NameOf(old)), RenameOp(old, new))
  BY <1>1, <1>3 DEF Rename, Moves, SourceOf, Linked, UnlinkOld
<1> QED BY <1>4 DEF Done

(* A rename that passes the checks moves the entry.                         *)
LEMMA RenameMoves ==
  ASSUME NEW s, Consistent(s), NEW old \in PathName, NEW new \in PathName, Moves(s, old, new)
  PROVE  LET from == ResolveDir(s, ParentOf(old)).node.idx
             dest == ResolveDir(s, ParentOf(new)).node.idx
         IN  /\ Rename(s, old, new).err = Ok
             /\ Rename(s, old, new).fs.dirs =
                  [s.dirs EXCEPT ![dest][NameOf(new)] = s.dirs[from][NameOf(old)],
                                 ![from][NameOf(old)] = Absent]
<1>1. PICK from, dest : /\ from = ResolveDir(s, ParentOf(old)).node.idx
                        /\ dest = ResolveDir(s, ParentOf(new)).node.idx
  OBVIOUS
<1>2. PICK t : t = Linked(s, old, new)
  OBVIOUS
<1>3. /\ ResolveDir(t, ParentOf(old)).err = Ok /\ ResolveDir(t, ParentOf(old)).node.idx = from
      /\ SourceOf(s, old).node = s.dirs[from][NameOf(old)]
      /\ dest \in DOMAIN s.dirs
  BY <1>1, <1>2, OriginFound
<1>4. Rename(s, old, new) = Done(Delete(t, from, NameOf(old)), RenameOp(old, new))
  BY <1>2, <1>3 DEF Rename, Moves, SourceOf, Linked, UnlinkOld
<1>5. s \in FS /\ NameOf(new) \in Keys
  BY PathFacts DEF Consistent, Tree
<1>6. t.dirs = [s.dirs EXCEPT ![dest][NameOf(new)] = s.dirs[from][NameOf(old)]]
  BY <1>1, <1>2, <1>3, <1>5, InsertReplaces DEF Linked
<1>7. Consistent(t)
  <2>1. SourceOf(s, old).node \in Node /\ NodeAllocated(s, SourceOf(s, old).node)
    BY ResolveNodeSound DEF SourceOf, Moves, Consistent, Sound
  <2>2. RemoveOp(old) \in Operation
    BY OperationTypes
  <2> QED BY <1>1, <1>2, <1>3, <1>5, <2>1, <2>2, InsertGood DEF Linked
<1>8. Rename(s, old, new).err = Ok
        /\ Rename(s, old, new).fs.dirs = [t.dirs EXCEPT ![from][NameOf(old)] = Absent]
  <2>1. t \in FS
    BY <1>7 DEF Consistent, Tree
  <2>2. PICK u : u = Delete(t, from, NameOf(old))
    OBVIOUS
  <2>3. u \in [dirs : {[t.dirs EXCEPT ![from][NameOf(old)] = Absent]}, files : Seq(File),
               symlinks : Seq(PathName), descriptors : Seq(FileDescriptor),
               recording : Seq(Operation)]
    BY <2>1, <2>2 DEF Delete, FS
  <2>4. u.dirs = [t.dirs EXCEPT ![from][NameOf(old)] = Absent]
    BY <2>3
  <2>5. Rename(s, old, new).err = Ok /\ Rename(s, old, new).fs.dirs = u.dirs
    <3>1. Rename(s, old, new) = [err |-> Ok,
                                 fs |-> [u EXCEPT !.recording = Append(@, RenameOp(old, new))]]
      BY <1>4, <2>2 DEF Done
    <3>2. PICK op : op = RenameOp(old, new)
      OBVIOUS
    <3>3. PICK v : v = [u EXCEPT !.recording = Append(@, op)]
      OBVIOUS
    <3>4. v.dirs = u.dirs
      BY <2>3, <3>3
    <3>5. Rename(s, old, new) = [err |-> Ok, fs |-> v]
      BY <3>1, <3>2, <3>3
    <3>6. Rename(s, old, new).err = Ok /\ Rename(s, old, new).fs = v
      BY <3>5
    <3> QED BY <3>4, <3>6
  <2> QED BY <2>4, <2>5
<1> QED BY <1>1, <1>6, <1>8

(***************************************************************************)
(* What a replay is: the last of the outcomes that follow each other.       *)
(***************************************************************************)
Started(s) == [err |-> Ok, fs |-> s]

(* The outcomes of the first n operations.                                  *)
IsRun(f, s, ops, n) ==
  f[0] = Started(s) /\ \A k \in 1 .. n : f[k] = ReplayNext(f[k - 1], ops[k])

(* There are such outcomes for every n.                                     *)
LEMMA RunExists ==
  ASSUME NEW s, NEW ops, NEW n \in Nat
  PROVE  \E f : IsRun(f, s, ops, n)
<1> DEFINE T == {m \in Nat : \E f : IsRun(f, s, ops, m)}
<1>1. 0 \in T
  <2>1. IsRun([i \in {0} |-> Started(s)], s, ops, 0)
    BY DEF IsRun
  <2> QED BY <2>1
<1>2. ASSUME NEW m \in Nat, m \in T
      PROVE  m + 1 \in T
  <2>1. PICK f : IsRun(f, s, ops, m)
    BY <1>2
  <2> DEFINE last == ReplayNext(f[m], ops[m + 1])
             h    == [i \in 0 .. m + 1 |-> IF i = m + 1 THEN last ELSE f[i]]
  <2>2. h[0] = Started(s)
    BY <2>1 DEF IsRun
  <2>3. ASSUME NEW k \in 1 .. m + 1
        PROVE  h[k] = ReplayNext(h[k - 1], ops[k])
    <3>1. CASE k = m + 1
      <4>1. h[k] = last /\ h[k - 1] = f[m]
        BY <3>1
      <4> QED BY <3>1, <4>1
    <3>2. CASE k \in 1 .. m
      <4>1. h[k] = f[k] /\ h[k - 1] = f[k - 1]
        BY <3>2
      <4> QED BY <2>1, <3>2, <4>1 DEF IsRun
    <3> QED BY <3>1, <3>2
  <2>4. IsRun(h, s, ops, m + 1)
    <3> HIDE DEF h
    <3> QED BY <2>2, <2>3 DEF IsRun
  <2> QED BY <2>4
<1> HIDE DEF T
<1>3. Nat \subseteq T
  BY <1>1, <1>2, NatSetInduction
<1> QED BY <1>3 DEF T

(* Two runs of the same operations agree.                                   *)
LEMMA RunsAgree ==
  ASSUME NEW s, NEW ops, NEW more, NEW n \in Nat, NEW f, NEW h,
         IsRun(f, s, ops, n), IsRun(h, s, more, n), \A k \in 1 .. n : more[k] = ops[k]
  PROVE  \A k \in 0 .. n : f[k] = h[k]
<1> DEFINE T == {k \in Nat : k <= n => f[k] = h[k]}
<1>1. 0 \in T
  BY DEF IsRun
<1>2. ASSUME NEW k \in Nat, k \in T
      PROVE  k + 1 \in T
  <2> SUFFICES ASSUME k + 1 <= n
               PROVE  f[k + 1] = h[k + 1]
    OBVIOUS
  <2>1. k + 1 \in 1 .. n /\ (k + 1) - 1 = k /\ f[k] = h[k]
    BY <1>2
  <2>2. f[k + 1] = ReplayNext(f[k], ops[k + 1]) /\ h[k + 1] = ReplayNext(h[k], more[k + 1])
    BY <2>1 DEF IsRun
  <2> QED BY <2>1, <2>2
<1> HIDE DEF T
<1>3. Nat \subseteq T
  BY <1>1, <1>2, NatSetInduction
<1> QED BY <1>3 DEF T

(* The recursive function of Replay satisfies its equation.                 *)
LEMMA ReplayIsRun ==
  ASSUME NEW s, NEW ops, Len(ops) \in Nat
  PROVE  \E f : IsRun(f, s, ops, Len(ops)) /\ Replay(s, ops) = f[Len(ops)]
<1> DEFINE Recurs(f) ==
             f = [n \in Nat |-> IF n = 0 THEN Started(s) ELSE ReplayNext(f[n - 1], ops[n])]
           upTo(n) == CHOOSE f : IsRun(f, s, ops, n)
           g == [n \in Nat |-> upTo(n)[n]]
<1>1. ASSUME NEW n \in Nat
      PROVE  IsRun(upTo(n), s, ops, n)
  BY RunExists
<1> HIDE DEF upTo
<1>2. g[0] = Started(s)
  BY <1>1 DEF IsRun
<1>3. ASSUME NEW n \in Nat, n # 0
      PROVE  g[n] = ReplayNext(g[n - 1], ops[n])
  <2>1. n - 1 \in Nat /\ n \in 1 .. n /\ n - 1 \in 0 .. n - 1
    BY <1>3
  <2>2. IsRun(upTo(n), s, ops, n - 1) /\ IsRun(upTo(n - 1), s, ops, n - 1)
    BY <1>1, <2>1 DEF IsRun
  <2>3. upTo(n)[n - 1] = upTo(n - 1)[n - 1]
    BY <2>1, <2>2, RunsAgree
  <2>4. upTo(n)[n] = ReplayNext(upTo(n)[n - 1], ops[n])
    BY <1>1, <2>1 DEF IsRun
  <2> QED BY <2>1, <2>3, <2>4
<1>4. Recurs(g)
  <2>1. \A n \in Nat : g[n] = IF n = 0 THEN Started(s) ELSE ReplayNext(g[n - 1], ops[n])
    BY <1>2, <1>3
  <2>2. g = [n \in Nat |-> g[n]]
    OBVIOUS
  <2> HIDE DEF g
  <2> QED BY <2>1, <2>2
<1>5. PICK r : r = CHOOSE f : Recurs(f)
  OBVIOUS
<1>6. Replay(s, ops) = r[Len(ops)]
  BY <1>5 DEF Replay, Started
<1>7. Recurs(r)
  <2> HIDE DEF Recurs, g
  <2> QED BY <1>4, <1>5
<1>8. IsRun(r, s, ops, Len(ops))
  <2>1. r[0] = Started(s)
    BY <1>7
  <2>2. ASSUME NEW k \in 1 .. Len(ops)
        PROVE  r[k] = ReplayNext(r[k - 1], ops[k])
    <3>1. k \in Nat /\ k # 0
      OBVIOUS
    <3> QED BY <1>7, <3>1
  <2> QED BY <2>1, <2>2 DEF IsRun
<1> QED BY <1>6, <1>8

(* Any outcomes that follow each other end with the replay.                 *)
LEMMA ReplayOfRun ==
  ASSUME NEW s, NEW ops, Len(ops) \in Nat, NEW f, IsRun(f, s, ops, Len(ops))
  PROVE  Replay(s, ops) = f[Len(ops)]
<1>1. PICK g : IsRun(g, s, ops, Len(ops)) /\ Replay(s, ops) = g[Len(ops)]
  BY ReplayIsRun
<1>2. Len(ops) \in 0 .. Len(ops)
  OBVIOUS
<1> QED BY <1>1, <1>2, RunsAgree

(* Nothing to replay.                                                       *)
LEMMA ReplayEmpty ==
  ASSUME NEW s
  PROVE  Replay(s, <<>>) = Started(s)
BY ReplayIsRun DEF IsRun

(* One operation more.                                                      *)
LEMMA ReplayAppend ==
  ASSUME NEW s, NEW S, NEW ops \in Seq(S), NEW op \in S
  PROVE  Replay(s, Append(ops, op)) = ReplayNext(Replay(s, ops), op)
<1>1. PICK more : more = Append(ops, op)
  OBVIOUS
<1>2. /\ Len(ops) \in Nat /\ Len(more) = Len(ops) + 1 /\ more[Len(ops) + 1] = op
      /\ \A k \in 1 .. Len(ops) : more[k] = ops[k]
  BY <1>1
<1>3. PICK f : IsRun(f, s, more, Len(ops) + 1) /\ Replay(s, more) = f[Len(ops) + 1]
  BY <1>2, ReplayIsRun
<1>4. IsRun(f, s, ops, Len(ops)) /\ f[Len(ops) + 1] = ReplayNext(f[Len(ops)], op)
  <2>1. Len(ops) + 1 \in 1 .. Len(ops) + 1 /\ (Len(ops) + 1) - 1 = Len(ops)
    BY <1>2
  <2>2. \A k \in 1 .. Len(ops) : k \in 1 .. Len(ops) + 1
    BY <1>2
  <2> QED BY <1>2, <1>3, <2>1, <2>2 DEF IsRun
<1>5. Replay(s, ops) = f[Len(ops)]
  BY <1>2, <1>4, ReplayOfRun
<1> QED BY <1>1, <1>3, <1>4, <1>5

(* An error ends the replay.                                                *)
LEMMA RunFails ==
  ASSUME NEW s, NEW ops, NEW n \in Nat, NEW f, IsRun(f, s, ops, n),
         NEW k \in 0 .. n, f[k].err # Ok
  PROVE  f[n] = f[k]
<1> DEFINE T == {m \in Nat : k <= m /\ m <= n => f[m] = f[k]}
<1>1. 0 \in T
  OBVIOUS
<1>2. ASSUME NEW m \in Nat, m \in T
      PROVE  m + 1 \in T
  <2> SUFFICES ASSUME k <= m + 1, m + 1 <= n, k # m + 1
               PROVE  f[m + 1] = f[k]
    OBVIOUS
  <2>1. m + 1 \in 1 .. n /\ (m + 1) - 1 = m /\ f[m] = f[k]
    BY <1>2
  <2>2. f[m + 1] = ReplayNext(f[m], ops[m + 1])
    BY <2>1 DEF IsRun
  <2> QED BY <2>1, <2>2 DEF ReplayNext
<1> HIDE DEF T
<1>3. Nat \subseteq T
  BY <1>1, <1>2, NatSetInduction
<1> QED BY <1>3 DEF T

(* The replay of a workload in two parts.                                   *)
LEMMA ReplayParts ==
  ASSUME NEW s, NEW S, NEW a \in Seq(S), NEW b \in Seq(S)
  PROVE  /\ Replay(s, a).err # Ok => Replay(s, a \o b) = Replay(s, a)
         /\ Replay(s, a) = Started(Replay(s, a).fs) =>
              Replay(s, a \o b) = Replay(Replay(s, a).fs, b)
<1>1. PICK ab : ab = a \o b
  OBVIOUS
<1>2. PICK n : n = Len(a)
  OBVIOUS
<1>3. PICK m : m = Len(b)
  OBVIOUS
<1>4. /\ n \in Nat /\ m \in Nat /\ Len(ab) = n + m
      /\ \A k \in 1 .. n : ab[k] = a[k]
      /\ \A k \in 1 .. m : ab[n + k] = b[k]
  BY <1>1, <1>2, <1>3
<1>5. PICK f : IsRun(f, s, ab, n + m) /\ Replay(s, ab) = f[n + m]
  BY <1>4, ReplayIsRun
<1>6. IsRun(f, s, a, n)
  <2>1. \A k \in 1 .. n : k \in 1 .. n + m
    BY <1>4
  <2> QED BY <1>4, <1>5, <2>1 DEF IsRun
<1>7. Replay(s, a) = f[n]
  BY <1>2, <1>4, <1>6, ReplayOfRun
<1>8. ASSUME Replay(s, a).err # Ok
      PROVE  Replay(s, ab) = Replay(s, a)
  <2>1. PICK l : l = n + m
    OBVIOUS
  <2>2. l \in Nat /\ n \in 0 .. l
    BY <1>4, <2>1
  <2>3. IsRun(f, s, ab, l) /\ f[n].err # Ok
    BY <1>5, <1>7, <1>8, <2>1
  <2>4. f[l] = f[n]
    BY <2>2, <2>3, RunFails
  <2> QED BY <1>5, <1>7, <2>1, <2>4
<1>9. ASSUME Replay(s, a) = Started(Replay(s, a).fs)
      PROVE  Replay(s, ab) = Replay(Replay(s, a).fs, b)
  <2> DEFINE g == [k \in 0 .. m |-> f[n + k]]
  <2>1. g[0] = f[n] /\ g[m] = f[n + m]
    BY <1>4
  <2>2. ASSUME NEW k \in 1 .. m
        PROVE  g[k] = ReplayNext(g[k - 1], b[k])
    <3>1. n + k \in 1 .. n + m /\ (n + k) - 1 = n + (k - 1) /\ k - 1 \in 0 .. m
      BY <1>4
    <3>2. f[n + k] = ReplayNext(f[n + (k - 1)], ab[n + k])
      BY <1>5, <3>1 DEF IsRun
    <3>3. g[k] = f[n + k] /\ g[k - 1] = f[n + (k - 1)]
      BY <1>4, <3>1
    <3> QED BY <1>4, <3>2, <3>3
  <2>3. IsRun(g, Replay(s, a).fs, b, m)
    <3> HIDE DEF g
    <3> QED BY <1>7, <1>9, <2>1, <2>2 DEF IsRun
  <2>4. Replay(Replay(s, a).fs, b) = g[m]
    <3> HIDE DEF g
    <3> QED BY <1>3, <1>4, <2>3, ReplayOfRun
  <2> QED BY <1>5, <2>1, <2>4
<1> QED BY <1>1, <1>8, <1>9

(***************************************************************************)
(* What an operation records, and that one that fails changes nothing.      *)
(***************************************************************************)
Keeps(s, t) ==
  {"files", "descriptors", "recording"} \subseteq DOMAIN t /\ t.recording = s.recording

(* The operations through a descriptor.                                     *)
UsesDescriptor == {"Close", "Read", "Write", "FSync"}

(* The file is open under this descriptor.                                  *)
HeldUnder(s, f, d) == f \in DOMAIN s.files /\ s.files[f].descriptor = d /\ d # None

(* What an operation means for descriptors: an open makes a new one, the    *)
(* others need one a file is open under, and only a close takes it away.    *)
Threads(s, op, t) ==
  /\ op.kind = "Open" => op.des = Len(s.descriptors) + 1 /\ Len(t.descriptors) = op.des
  /\ op.kind # "Open" => Len(t.descriptors) = Len(s.descriptors)
  /\ op.kind \in UsesDescriptor => \E f : HeldUnder(s, f, op.des)
  /\ \A f, d : HeldUnder(t, f, d) =>
       \/ op.kind = "Open" /\ d = op.des
       \/ HeldUnder(s, f, d) /\ (op.kind = "Close" => d # op.des)

Records(s, op, out) ==
  \/ out.err # Ok /\ out = Failed(s, out.err)
  \/ \E t : Keeps(s, t) /\ Threads(s, op, t) /\ out = Done(t, op)

(* The operations that leave files and descriptors as they are.             *)
Carries(s, t) == Keeps(s, t) /\ t.files = s.files /\ t.descriptors = s.descriptors

OnTree(op) == op.kind # "Open" /\ op.kind \notin UsesDescriptor

(* They mean nothing for descriptors.                                       *)
LEMMA CarriesThreads ==
  ASSUME NEW s, NEW t, Carries(s, t), NEW op, OnTree(op)
  PROVE  Keeps(s, t) /\ Threads(s, op, t)
<1>1. op.kind # "Close"
  BY DEF OnTree, UsesDescriptor
<1> QED BY <1>1 DEF Carries, OnTree, Threads, HeldUnder

(* Which they are.                                                          *)
LEMMA TreeOperations ==
  \A x, y : /\ OnTree(MkDirOp(x)) /\ OnTree(CreateOp(x)) /\ OnTree(RemoveOp(x))
            /\ OnTree(HardlinkOp(x, y)) /\ OnTree(RenameOp(x, y)) /\ OnTree(SymlinkOp(x, y))
BY DEF OnTree, UsesDescriptor, MkDirOp, CreateOp, RemoveOp, HardlinkOp, RenameOp, SymlinkOp

(* Entries are not part of the recording.                                   *)
LEMMA EntriesKept ==
  ASSUME NEW s, NEW t, NEW d, NEW name, NEW node
  PROVE  /\ Keeps(s, t) => Keeps(s, Insert(t, d, name, node)) /\ Keeps(s, Delete(t, d, name))
         /\ Carries(s, t) => Carries(s, Insert(t, d, name, node)) /\ Carries(s, Delete(t, d, name))
BY DEF Carries, Keeps, Insert, Delete

(* Nor is any other field.                                                  *)
LEMMA FieldsKept ==
  ASSUME NEW s \in FS
  PROVE  /\ Carries(s, s)
         /\ \A x : Carries(s, [s EXCEPT !.dirs = x]) /\ Carries(s, [s EXCEPT !.symlinks = x])
         /\ \A x : Keeps(s, [s EXCEPT !.files = x]) /\ Keeps(s, [s EXCEPT !.descriptors = x])
         /\ \A x, y : Keeps(s, [s EXCEPT !.files = x, !.descriptors = y])
BY DEF Carries, Keeps, FS

(* What remove changes besides the entries: the recording.                  *)
LEMMA RemoveRecords ==
  ASSUME NEW s \in FS, NEW path
  PROVE  Records(s, RemoveOp(path), Remove(s, path))
<1> DEFINE parent == ResolveDir(s, ParentOf(path))
           t      == Delete(s, parent.node.idx, NameOf(path))
<1>1. Keeps(s, t) /\ Threads(s, RemoveOp(path), t)
  <2>1. Carries(s, t)
    BY FieldsKept, EntriesKept
  <2> QED BY <2>1, CarriesThreads, TreeOperations
<1>2. \/ Remove(s, path) = Failed(s, "RootRemovalForbidden")
      \/ parent.err # Ok /\ Remove(s, path) = Failed(s, parent.err)
      \/ Remove(s, path) = Failed(s, "NotFound")
      \/ Remove(s, path) = Done(t, RemoveOp(path))
  BY DEF Remove
<1> HIDE DEF parent, t
<1> QED BY <1>1, <1>2 DEF Records, Failed, Ok

(* What mkdir changes.                                                      *)
LEMMA MkDirRecords ==
  ASSUME NEW s \in FS, NEW path
  PROVE  Records(s, MkDirOp(path), MkDir(s, path))
<1> DEFINE parent == NewEntry(s, path)
           grown  == [s EXCEPT !.dirs = Append(@, EmptyDir)]
           t      == Insert(grown, parent.node.idx, NameOf(path), DirNode(NextIndex(s.dirs)))
<1>1. Keeps(s, t) /\ Threads(s, MkDirOp(path), t)
  <2>1. Carries(s, grown)
    BY FieldsKept
  <2>2. Carries(s, t)
    BY <2>1, EntriesKept
  <2> QED BY <2>2, CarriesThreads, TreeOperations
<1>2. \/ parent.err # Ok /\ MkDir(s, path) = Failed(s, parent.err)
      \/ MkDir(s, path) = Done(t, MkDirOp(path))
  BY DEF MkDir
<1> HIDE DEF parent, t
<1> QED BY <1>1, <1>2 DEF Records, Failed

(* What create changes.                                                     *)
LEMMA CreateRecords ==
  ASSUME NEW s \in FS, NEW path
  PROVE  Records(s, CreateOp(path), Create(s, path))
<1> DEFINE parent == NewEntry(s, path)
           grown  == [s EXCEPT !.files = Append(@, [descriptor |-> None, size |-> 0])]
           t      == Insert(grown, parent.node.idx, NameOf(path), FileNode(NextIndex(s.files)))
<1>1. Keeps(s, t) /\ Threads(s, CreateOp(path), t)
  <2>1. Keeps(s, grown) /\ Keeps(s, t)
    BY FieldsKept, EntriesKept
  <2>2. t.descriptors = s.descriptors /\ t.files = Append(s.files, [descriptor |-> None, size |-> 0])
    BY DEF Insert, FS
  <2> HIDE DEF t
  <2>3. \A f, d : HeldUnder(t, f, d) => HeldUnder(s, f, d)
    BY <2>2, FieldsOf DEF HeldUnder
  <2>4. OnTree(CreateOp(path)) /\ CreateOp(path).kind # "Close"
    BY TreeOperations DEF CreateOp
  <2> QED BY <2>1, <2>2, <2>3, <2>4 DEF Threads, OnTree
<1>2. \/ parent.err # Ok /\ Create(s, path) = Failed(s, parent.err)
      \/ Create(s, path) = Done(t, CreateOp(path))
  BY DEF Create
<1> HIDE DEF parent, t
<1> QED BY <1>1, <1>2 DEF Records, Failed

(* What symlink changes.                                                    *)
LEMMA SymlinkRecords ==
  ASSUME NEW s \in FS, NEW target, NEW linkpath
  PROVE  Records(s, SymlinkOp(target, linkpath), Symlink(s, target, linkpath))
<1> DEFINE parent == NewEntry(s, linkpath)
           grown  == [s EXCEPT !.symlinks = Append(@, target)]
           t      == Insert(grown, parent.node.idx, NameOf(linkpath),
                            SymlinkNode(NextIndex(s.symlinks)))
<1>1. Keeps(s, t) /\ Threads(s, SymlinkOp(target, linkpath), t)
  <2>1. Carries(s, grown)
    BY FieldsKept
  <2>2. Carries(s, t)
    BY <2>1, EntriesKept
  <2> QED BY <2>2, CarriesThreads, TreeOperations
<1>2. \/ parent.err # Ok /\ Symlink(s, target, linkpath) = Failed(s, parent.err)
      \/ Symlink(s, target, linkpath) = Done(t, SymlinkOp(target, linkpath))
  BY DEF Symlink
<1> HIDE DEF parent, t
<1> QED BY <1>1, <1>2 DEF Records, Failed

(* What hardlink changes.                                                   *)
LEMMA HardlinkRecords ==
  ASSUME NEW s \in FS, NEW old, NEW new
  PROVE  Records(s, HardlinkOp(old, new), Hardlink(s, old, new))
<1> DEFINE source == ResolveDir(s, ParentOf(old))
           file   == ResolveFile(s, old)
           parent == NewEntry(s, new)
           t      == Insert(s, parent.node.idx, NameOf(new), file.node)
<1>1. Keeps(s, t) /\ Threads(s, HardlinkOp(old, new), t)
  <2>1. Carries(s, t)
    BY FieldsKept, EntriesKept
  <2> QED BY <2>1, CarriesThreads, TreeOperations
<1>2. \/ source.err # Ok /\ Hardlink(s, old, new) = Failed(s, source.err)
      \/ Hardlink(s, old, new) = Failed(s, "HardlinkToSymlinkForbidden")
      \/ file.err # Ok /\ Hardlink(s, old, new) = Failed(s, file.err)
      \/ parent.err # Ok /\ Hardlink(s, old, new) = Failed(s, parent.err)
      \/ Hardlink(s, old, new) = Done(t, HardlinkOp(old, new))
  BY DEF Hardlink
<1> HIDE DEF source, file, parent, t
<1> QED BY <1>1, <1>2 DEF Records, Failed, Ok

(* A rename that fails at the second resolution would have changed entries. *)
LEMMA RenameRecords ==
  ASSUME NEW s, Consistent(s), NEW old \in PathName, NEW new \in PathName
  PROVE  Records(s, RenameOp(old, new), Rename(s, old, new))
<1> DEFINE target == ResolveDir(s, new)
           source == ResolveNode(s, old, FALSE)
           dest   == ResolveDir(s, ParentOf(new))
           linked == Insert(s, dest.node.idx, NameOf(new), source.node)
           origin == ResolveDir(linked, ParentOf(old))
           t      == UnlinkOld(linked, old, origin, dest)
<1>1. Keeps(s, t) /\ Threads(s, RenameOp(old, new), t)
  <2>1. Carries(s, t)
    BY FieldsKept, EntriesKept DEF UnlinkOld, Consistent, Tree
  <2> QED BY <2>1, CarriesThreads, TreeOperations
<1>2. Rename(s, old, new).err = Ok \/ Rename(s, old, new).fs = s
  <2>1. Moves(s, old, new) => Rename(s, old, new).err = Ok
    BY RenameSucceeds
  <2> QED BY <2>1, RenameRefused
<1>3. \/ Rename(s, old, new) = Failed(s, "DirNotEmpty")
      \/ target.err \in Crashes /\ Rename(s, old, new) = Failed(s, target.err)
      \/ source.err # Ok /\ Rename(s, old, new) = Failed(s, source.err)
      \/ dest.err # Ok /\ Rename(s, old, new) = Failed(s, dest.err)
      \/ Rename(s, old, new) = Failed(s, "RenameToSubdirectoryError")
      \/ origin.err # Ok /\ Rename(s, old, new) = Failed(linked, origin.err)
      \/ Rename(s, old, new) = Done(t, RenameOp(old, new))
  BY DEF Rename
<1> HIDE DEF target, source, dest, linked, origin, t
<1>4. origin.err # Ok /\ Rename(s, old, new) = Failed(linked, origin.err) => linked = s
  BY <1>2 DEF Failed
<1> QED BY <1>1, <1>3, <1>4 DEF Records, Failed, Ok, Crashes

(* What open records: the descriptor it allocates, whatever was asked for.  *)
LEMMA OpenRecords ==
  ASSUME NEW s \in FS, NEW path
  PROVE  Records(s, OpenOp(path, FreshDescriptor(s)), Open(s, path))
<1> DEFINE file == ResolveFile(s, path)
           f    == file.node.idx
           des  == FreshDescriptor(s)
           t    == [s EXCEPT !.files[f].descriptor = des,
                             !.descriptors = Append(@, [file |-> f, offset |-> 0])]
<1>1. Keeps(s, t)
  BY FieldsKept
<1>2. f \in DOMAIN s.files => Threads(s, OpenOp(path, des), t)
  <2> SUFFICES ASSUME f \in DOMAIN s.files
               PROVE  Threads(s, OpenOp(path, des), t)
    OBVIOUS
  <2>1. des = Len(s.descriptors) + 1 /\ Len(s.descriptors) \in Nat
    BY FieldsOf DEF FreshDescriptor, NextIndex
  <2>2. OpenOp(path, des).kind = "Open" /\ OpenOp(path, des).des = des
    BY DEF OpenOp
  <2>3. Len(t.descriptors) = Len(s.descriptors) + 1
    BY FieldsOf DEF FS
  <2>4. /\ DOMAIN t.files = DOMAIN s.files /\ t.files[f].descriptor = des
        /\ \A g \in DOMAIN s.files : g # f => t.files[g] = s.files[g]
    <3> HIDE DEF f, des
    <3>1. t.files = [s.files EXCEPT ![f].descriptor = des]
      BY DEF FS
    <3>2. s.files[f] \in File
      BY FieldsOf
    <3> HIDE DEF t
    <3> QED BY <3>1, <3>2 DEF File
  <2> HIDE DEF t, f, des
  <2>5. \A g, d : HeldUnder(t, g, d) => d = des \/ HeldUnder(s, g, d)
    BY <2>4 DEF HeldUnder
  <2> QED BY <2>1, <2>2, <2>3, <2>5 DEF Threads, UsesDescriptor
<1>3. \/ file.err # Ok /\ Open(s, path) = Failed(s, file.err)
      \/ Open(s, path) = Failed(s, "Panic")
      \/ Open(s, path) = Failed(s, "FileAlreadyOpened")
      \/ f \in DOMAIN s.files /\ Open(s, path) = Done(t, OpenOp(path, des))
  BY DEF Open
<1> HIDE DEF file, f, des, t
<1>4. Records(s, OpenOp(path, des), Open(s, path))
  BY <1>1, <1>2, <1>3 DEF Records, Failed, Ok
<1> QED BY <1>4 DEF des

(* An element replaced, a sequence is as long as before.                    *)
LEMMA ExceptKeepsLen ==
  ASSUME NEW S, NEW seq \in Seq(S), NEW i, NEW x
  PROVE  Len([seq EXCEPT ![i].offset = x]) = Len(seq)
OBVIOUS

(* A descriptor can be used when the file it was made for is open under it. *)
LEMMA UsableDescriptor ==
  ASSUME NEW s, NEW d, DescriptorError(s, d) = Ok
  PROVE  /\ d \in DOMAIN s.descriptors /\ s.descriptors[d].file \in DOMAIN s.files
         /\ s.files[s.descriptors[d].file].descriptor = d
BY DEF DescriptorError, Ok

(* Then the file is held under it, and no other file is.                    *)
LEMMA UsableIsHeld ==
  ASSUME NEW s, Consistent(s), NEW d, DescriptorError(s, d) = Ok
  PROVE  /\ HeldUnder(s, s.descriptors[d].file, d)
         /\ \A f : HeldUnder(s, f, d) => f = s.descriptors[d].file
<1>1. DOMAIN s.descriptors = 1 .. Len(s.descriptors) /\ Len(s.descriptors) \in Nat
  BY FieldsOf DEF Consistent, Tree
<1>2. d # None
  BY <1>1, UsableDescriptor DEF None
<1> QED BY <1>2, UsableDescriptor DEF HeldUnder, Consistent, FilesKnowTheirDescriptors

(* What close changes.                                                      *)
LEMMA CloseRecords ==
  ASSUME NEW s, Consistent(s), NEW d
  PROVE  Records(s, CloseOp(d), Close(s, d))
<1> DEFINE g == s.descriptors[d].file
           t == [s EXCEPT !.files[g].descriptor = None]
<1>1. s \in FS
  BY DEF Consistent, Tree
<1>2. Keeps(s, t)
  BY <1>1, FieldsKept
<1>3. DescriptorError(s, d) = Ok => Threads(s, CloseOp(d), t)
  <2> SUFFICES ASSUME DescriptorError(s, d) = Ok
               PROVE  Threads(s, CloseOp(d), t)
    OBVIOUS
  <2>1. HeldUnder(s, g, d) /\ \A f : HeldUnder(s, f, d) => f = g
    BY UsableIsHeld
  <2>2. g \in DOMAIN s.files
    BY <2>1 DEF HeldUnder
  <2> HIDE DEF g
  <2>3. /\ t.descriptors = s.descriptors /\ DOMAIN t.files = DOMAIN s.files
        /\ t.files[g].descriptor = None
        /\ \A f \in DOMAIN s.files : f # g => t.files[f] = s.files[f]
    <3>1. t.files = [s.files EXCEPT ![g].descriptor = None] /\ t.descriptors = s.descriptors
      BY <1>1 DEF FS
    <3>2. s.files[g] \in File
      BY <1>1, <2>2, FieldsOf
    <3> HIDE DEF t
    <3> QED BY <2>2, <3>1, <3>2 DEF File
  <2> HIDE DEF t
  <2>4. \A f, e : HeldUnder(t, f, e) => HeldUnder(s, f, e) /\ e # d
    BY <2>1, <2>3 DEF HeldUnder
  <2>5. CloseOp(d).kind = "Close" /\ CloseOp(d).des = d
    BY DEF CloseOp
  <2> QED BY <2>1, <2>3, <2>4, <2>5 DEF Threads
<1>4. \/ DescriptorError(s, d) # Ok /\ Close(s, d) = Failed(s, DescriptorError(s, d))
      \/ DescriptorError(s, d) = Ok /\ Close(s, d) = Done(t, CloseOp(d))
  BY DEF Close
<1> HIDE DEF t
<1> QED BY <1>2, <1>3, <1>4 DEF Records, Failed

(* What fsync, read and write mean for descriptors: nothing but their use.  *)
LEMMA UsesThreads ==
  ASSUME NEW s, Consistent(s), NEW d, DescriptorError(s, d) = Ok, NEW op,
         op.kind \in {"Read", "Write", "FSync"}, op.des = d, NEW t,
         Len(t.descriptors) = Len(s.descriptors), DOMAIN t.files = DOMAIN s.files,
         \A f \in DOMAIN s.files : t.files[f].descriptor = s.files[f].descriptor
  PROVE  Threads(s, op, t)
<1>1. op.kind # "Open" /\ op.kind # "Close"
  OBVIOUS
<1>2. \E f : HeldUnder(s, f, op.des)
  BY UsableIsHeld
<1> QED BY <1>1, <1>2 DEF Threads, HeldUnder

(* What fsync changes.                                                      *)
LEMMA FSyncRecords ==
  ASSUME NEW s, Consistent(s), NEW d
  PROVE  Records(s, FSyncOp(d), FSync(s, d))
<1>1. Keeps(s, s)
  BY FieldsKept DEF Carries, Consistent, Tree
<1>2. DescriptorError(s, d) = Ok => Threads(s, FSyncOp(d), s)
  <2>1. FSyncOp(d).kind = "FSync" /\ FSyncOp(d).des = d
    BY DEF FSyncOp
  <2> QED BY <2>1, UsesThreads
<1>3. \/ DescriptorError(s, d) # Ok /\ FSync(s, d) = Failed(s, DescriptorError(s, d))
      \/ DescriptorError(s, d) = Ok /\ FSync(s, d) = Done(s, FSyncOp(d))
  BY DEF FSync
<1> QED BY <1>1, <1>2, <1>3 DEF Records, Failed

(* What read changes.                                                       *)
LEMMA ReadRecords ==
  ASSUME NEW s, Consistent(s), NEW d, NEW size
  PROVE  Records(s, ReadOp(d, size), Read(s, d, size))
<1> DEFINE offset    == s.descriptors[d].offset
           file_size == s.files[s.descriptors[d].file].size
           end       == offset + BytesRead(size, offset, file_size)
           t         == [s EXCEPT !.descriptors[d].offset = end]
<1>1. s \in FS
  BY DEF Consistent, Tree
<1>2. Keeps(s, t)
  BY <1>1, FieldsKept
<1>3. DescriptorError(s, d) = Ok => Threads(s, ReadOp(d, size), t)
  <2>1. ReadOp(d, size).kind = "Read" /\ ReadOp(d, size).des = d
    BY DEF ReadOp
  <2>2. t.files = s.files /\ t.descriptors = [s.descriptors EXCEPT ![d].offset = end]
    BY <1>1 DEF FS
  <2>3. DescriptorError(s, d) = Ok => Len(t.descriptors) = Len(s.descriptors)
    <3> HIDE DEF t, end
    <3> QED BY <1>1, <2>2, ExceptKeepsLen, FieldsOf
  <2> HIDE DEF t
  <2> QED BY <2>1, <2>2, <2>3, UsesThreads
<1>4. \/ DescriptorError(s, d) # Ok /\ Read(s, d, size) = Failed(s, DescriptorError(s, d))
      \/ Read(s, d, size) = Failed(s, "BadOffset")
      \/ Read(s, d, size) = Failed(s, "Panic")
      \/ DescriptorError(s, d) = Ok /\ Read(s, d, size) = Done(t, ReadOp(d, size))
  BY DEF Read, Advanced
<1> HIDE DEF t
<1> QED BY <1>2, <1>3, <1>4 DEF Records, Failed, Ok

(* The assertion after a write would fail once the file has changed.        *)
LEMMA WriteRecords ==
  ASSUME NEW s, Consistent(s), NEW d \in Nat, NEW src \in Nat, NEW size \in Nat
  PROVE  Records(s, WriteOp(d, src, size), Write(s, d, src, size))
<1> DEFINE offset  == s.descriptors[d].offset
           f       == s.descriptors[d].file
           written == [s EXCEPT !.files[f].size = SizeWritten(size, offset, @)]
           t       == [written EXCEPT !.descriptors[d].offset = offset + size]
<1>1. s \in FS
  BY DEF Consistent, Tree
<1>2. Keeps(s, t)
  <2>1. Keeps(s, written)
    BY <1>1, FieldsKept
  <2> HIDE DEF written
  <2> QED BY <2>1 DEF Keeps
<1>3. DescriptorError(s, d) = Ok => Threads(s, WriteOp(d, src, size), t)
  <2> SUFFICES ASSUME DescriptorError(s, d) = Ok
               PROVE  Threads(s, WriteOp(d, src, size), t)
    OBVIOUS
  <2>1. WriteOp(d, src, size).kind = "Write" /\ WriteOp(d, src, size).des = d
    BY DEF WriteOp
  <2>2. f \in DOMAIN s.files
    BY UsableDescriptor
  <2> HIDE DEF f
  <2>3. PICK end : end = offset + size
    OBVIOUS
  <2>4. /\ t.files = [s.files EXCEPT ![f].size = SizeWritten(size, offset, @)]
        /\ t.descriptors = [s.descriptors EXCEPT ![d].offset = end]
    BY <1>1, <2>3 DEF FS
  <2> HIDE DEF t, offset
  <2>5. Len(t.descriptors) = Len(s.descriptors)
    BY <1>1, <2>4, ExceptKeepsLen, FieldsOf
  <2>6. /\ DOMAIN t.files = DOMAIN s.files
        /\ \A g \in DOMAIN s.files : t.files[g].descriptor = s.files[g].descriptor
    <3>1. \A g \in DOMAIN s.files : s.files[g] \in File
      BY <1>1, FieldsOf
    <3> QED BY <2>2, <2>4, <3>1 DEF File
  <2> QED BY <2>1, <2>5, <2>6, UsesThreads
<1>4. \/ DescriptorError(s, d) # Ok /\ Write(s, d, src, size) = Failed(s, DescriptorError(s, d))
      \/ Write(s, d, src, size) = Failed(s, "BadOffset")
      \/ Write(s, d, src, size) = Failed(written, "Panic")
      \/ DescriptorError(s, d) = Ok /\ Write(s, d, src, size) = Done(t, WriteOp(d, src, size))
  BY DEF Write, Advanced
<1>5. Write(s, d, src, size).err # "Panic"
  BY WriteGood DEF Good
<1> HIDE DEF t, written
<1> QED BY <1>2, <1>3, <1>4, <1>5 DEF Records, Failed, Ok

(* The same directories and links.                                         *)
SameTree(s, t) ==
  "dirs" \in DOMAIN t /\ "symlinks" \in DOMAIN t /\ t.dirs = s.dirs /\ t.symlinks = s.symlinks

(* open, close, fsync, read and write leave directories and links alone.    *)
LEMMA DescriptorsKeepTree ==
  ASSUME NEW s \in FS
  PROVE  /\ \A path : SameTree(s, Open(s, path).fs)
         /\ \A d : SameTree(s, Close(s, d).fs) /\ SameTree(s, FSync(s, d).fs)
         /\ \A d, size : SameTree(s, Read(s, d, size).fs)
         /\ \A d, src, size : SameTree(s, Write(s, d, src, size).fs)
<1>1. ASSUME NEW t, NEW op, SameTree(s, t)
      PROVE  SameTree(s, Done(t, op).fs)
  BY <1>1 DEF Done, SameTree
<1>2. /\ "dirs" \in DOMAIN s /\ "symlinks" \in DOMAIN s /\ SameTree(s, s)
      /\ \A e : SameTree(s, Failed(s, e).fs)
  BY DEF FS, Failed, SameTree
<1>3. ASSUME NEW path
      PROVE  SameTree(s, Open(s, path).fs)
  <2>1. PICK f, des, t : /\ f = ResolveFile(s, path).node.idx
                         /\ des = FreshDescriptor(s)
                         /\ t = [s EXCEPT !.files[f].descriptor = des,
                                          !.descriptors = Append(@, [file |-> f, offset |-> 0])]
    OBVIOUS
  <2>2. (\E e : Open(s, path) = Failed(s, e)) \/ Open(s, path) = Done(t, OpenOp(path, des))
    BY <2>1 DEF Open
  <2>3. SameTree(s, t)
    BY <1>2, <2>1 DEF SameTree
  <2> QED BY <1>1, <1>2, <2>2, <2>3
<1>4. ASSUME NEW d
      PROVE  SameTree(s, Close(s, d).fs)
  <2>1. PICK t : t = [s EXCEPT !.files[s.descriptors[d].file].descriptor = None]
    OBVIOUS
  <2>2. (\E e : Close(s, d) = Failed(s, e)) \/ Close(s, d) = Done(t, CloseOp(d))
    BY <2>1 DEF Close
  <2>3. SameTree(s, t)
    BY <1>2, <2>1 DEF SameTree
  <2> QED BY <1>1, <1>2, <2>2, <2>3
<1>5. ASSUME NEW d
      PROVE  SameTree(s, FSync(s, d).fs)
  BY <1>1, <1>2 DEF FSync
<1>6. ASSUME NEW t, NEW d, NEW offset, NEW op, SameTree(s, t)
      PROVE  SameTree(s, Advanced(t, d, offset, op).fs)
  <2>1. PICK u : u = [t EXCEPT !.descriptors[d].offset = offset]
    OBVIOUS
  <2>2. SameTree(s, u)
    BY <1>6, <2>1 DEF SameTree
  <2>3. Advanced(t, d, offset, op) = Failed(t, "Panic") \/ Advanced(t, d, offset, op) = Done(u, op)
    BY <2>1 DEF Advanced
  <2> QED BY <1>1, <1>6, <2>2, <2>3 DEF Failed
<1>7. ASSUME NEW d, NEW size
      PROVE  SameTree(s, Read(s, d, size).fs)
  <2>1. \/ \E e : Read(s, d, size) = Failed(s, e)
        \/ \E offset : Read(s, d, size) = Advanced(s, d, offset, ReadOp(d, size))
    BY DEF Read
  <2> QED BY <1>2, <1>6, <2>1
<1>8. ASSUME NEW d, NEW src, NEW size
      PROVE  SameTree(s, Write(s, d, src, size).fs)
  <2>1. PICK t : t = [s EXCEPT !.files[s.descriptors[d].file].size =
                                 SizeWritten(size, s.descriptors[d].offset, @)]
    OBVIOUS
  <2>2. \/ \E e : Write(s, d, src, size) = Failed(s, e)
        \/ \E offset : Write(s, d, src, size) = Advanced(t, d, offset, WriteOp(d, src, size))
    BY <2>1 DEF Write
  <2>3. SameTree(s, t)
    BY <1>2, <2>1 DEF SameTree
  <2> QED BY <1>2, <1>6, <2>2, <2>3
<1> QED BY <1>3, <1>4, <1>5, <1>7, <1>8

(***************************************************************************)
(* Apply, which replay is made of.                                          *)
(***************************************************************************)
(* Two operations that differ at most in the descriptor of an open.         *)
SameCall(op, o) ==
  o = op \/ \E path, d, e : op = OpenOp(path, d) /\ o = OpenOp(path, e)

(* They do the same.                                                        *)
LEMMA SameCallApplies ==
  ASSUME NEW s, NEW op, NEW o, SameCall(op, o)
  PROVE  Apply(s, o) = Apply(s, op)
<1>1. ASSUME NEW path, NEW d
      PROVE  Apply(s, OpenOp(path, d)) = Open(s, path)
  <2>1. OpenOp(path, d).kind = "Open" /\ OpenOp(path, d).path = path
    BY DEF OpenOp
  <2> QED BY <2>1 DEF Apply
<1> QED BY <1>1 DEF SameCall

(* What any operation records: itself, but for the descriptor of an open.   *)
LEMMA ApplyRecords ==
  ASSUME NEW s, Consistent(s), NEW op \in Operation
  PROVE  \E o \in Operation : SameCall(op, o) /\ Records(s, o, Apply(s, op))
<1>1. s \in FS
  BY DEF Consistent, Tree
<1>2. CASE op \in [kind : {"MkDir", "Create", "Remove"}, path : PathName]
  <2>1. \/ op.kind = "MkDir" /\ op = MkDirOp(op.path)
        \/ op.kind = "Create" /\ op = CreateOp(op.path)
        \/ op.kind = "Remove" /\ op = RemoveOp(op.path)
    BY <1>2 DEF MkDirOp, CreateOp, RemoveOp
  <2>2. Records(s, op, Apply(s, op))
    BY <1>1, <2>1, MkDirRecords, CreateRecords, RemoveRecords DEF Apply
  <2> QED BY <2>2 DEF SameCall
<1>3. CASE op \in [kind : {"Hardlink", "Rename"}, old_path : PathName, new_path : PathName]
  <2>1. /\ op.old_path \in PathName /\ op.new_path \in PathName
        /\ \/ op.kind = "Hardlink" /\ op = HardlinkOp(op.old_path, op.new_path)
           \/ op.kind = "Rename" /\ op = RenameOp(op.old_path, op.new_path)
    BY <1>3 DEF HardlinkOp, RenameOp
  <2>2. Records(s, op, Apply(s, op))
    BY <1>1, <2>1, HardlinkRecords, RenameRecords DEF Apply
  <2> QED BY <2>2 DEF SameCall
<1>4. CASE op \in [kind : {"Symlink"}, target : PathName, linkpath : PathName]
  <2>1. op.kind = "Symlink" /\ op = SymlinkOp(op.target, op.linkpath)
    BY <1>4 DEF SymlinkOp
  <2>2. Records(s, op, Apply(s, op))
    BY <1>1, <2>1, SymlinkRecords DEF Apply
  <2> QED BY <2>2 DEF SameCall
<1>5. CASE op \in [kind : {"Open"}, path : PathName, des : Nat]
  <2>1. op.kind = "Open" /\ op = OpenOp(op.path, op.des) /\ op.path \in PathName
    BY <1>5 DEF OpenOp
  <2>2. PICK o : o = OpenOp(op.path, FreshDescriptor(s))
    OBVIOUS
  <2>3. Records(s, o, Apply(s, op))
    BY <1>1, <2>1, <2>2, OpenRecords DEF Apply
  <2>4. o \in Operation
    <3>1. FreshDescriptor(s) \in Nat
      BY <1>1, FieldsOf DEF FreshDescriptor, NextIndex
    <3> QED BY <2>1, <2>2, <3>1, OperationTypes
  <2>5. SameCall(op, o)
    BY <2>1, <2>2 DEF SameCall
  <2> QED BY <2>3, <2>4, <2>5
<1>6. CASE op \in [kind : {"Close", "FSync"}, des : Nat]
  <2>1. \/ op.kind = "Close" /\ op = CloseOp(op.des)
        \/ op.kind = "FSync" /\ op = FSyncOp(op.des)
    BY <1>6 DEF CloseOp, FSyncOp
  <2>2. Records(s, op, Apply(s, op))
    BY <1>1, <2>1, CloseRecords, FSyncRecords DEF Apply
  <2> QED BY <2>2 DEF SameCall
<1>7. CASE op \in [kind : {"Read"}, des : Nat, size : Nat]
  <2>1. op.kind = "Read" /\ op = ReadOp(op.des, op.size)
    BY <1>7 DEF ReadOp
  <2>2. Records(s, op, Apply(s, op))
    BY <1>1, <2>1, ReadRecords DEF Apply
  <2> QED BY <2>2 DEF SameCall
<1>8. CASE op \in [kind : {"Write"}, des : Nat, src_offset : Nat, size : Nat]
  <2>1. /\ op.des \in Nat /\ op.src_offset \in Nat /\ op.size \in Nat
        /\ op.kind = "Write" /\ op = WriteOp(op.des, op.src_offset, op.size)
    BY <1>8 DEF WriteOp
  <2>2. Records(s, op, Apply(s, op))
    BY <2>1, WriteRecords DEF Apply
  <2> QED BY <2>2 DEF SameCall
<1> QED BY <1>2, <1>3, <1>4, <1>5, <1>6, <1>7, <1>8 DEF Operation

(* So a call that succeeds appends one operation, which would have done the *)
(* same, and a call that fails leaves the tree as it was.                   *)
LEMMA ApplyAppends ==
  ASSUME NEW s, Consistent(s), NEW op \in Operation
  PROVE  /\ Apply(s, op).err # Ok => Apply(s, op).fs = s
         /\ Apply(s, op).err = Ok =>
              /\ Apply(s, op) = Started(Apply(s, op).fs)
              /\ \E o \in Operation : /\ SameCall(op, o)
                                      /\ Apply(s, op).fs.recording = Append(s.recording, o)
                                      /\ Threads(s, o, Apply(s, op).fs)
                                      /\ Apply(s, o) = Apply(s, op)
<1>1. PICK o \in Operation : SameCall(op, o) /\ Records(s, o, Apply(s, op))
  BY ApplyRecords
<1>2. PICK out : out = Apply(s, op)
  OBVIOUS
<1>3. CASE out.err # Ok /\ out = Failed(s, out.err)
  <2>1. out.fs = s
    BY <1>3 DEF Failed
  <2> QED BY <1>2, <1>3, <2>1
<1>4. CASE \E t : Keeps(s, t) /\ Threads(s, o, t) /\ out = Done(t, o)
  <2>1. PICK t : Keeps(s, t) /\ Threads(s, o, t) /\ out = Done(t, o)
    BY <1>4
  <2>2. PICK u : u = [t EXCEPT !.recording = Append(@, o)]
    OBVIOUS
  <2>3. /\ u.recording = Append(s.recording, o)
        /\ u.files = t.files /\ u.descriptors = t.descriptors
    BY <2>1, <2>2 DEF Keeps
  <2>4. Threads(s, o, u)
    <3>1. \A f, d : HeldUnder(u, f, d) <=> HeldUnder(t, f, d)
      BY <2>3 DEF HeldUnder
    <3> QED BY <2>1, <2>3, <3>1 DEF Threads
  <2>5. out = Started(u) /\ out.fs = u /\ out.err = Ok
    BY <2>1, <2>2 DEF Done, Started
  <2>6. Apply(s, o) = Apply(s, op)
    BY <1>1, SameCallApplies
  <2> QED BY <1>1, <1>2, <2>3, <2>4, <2>5, <2>6
<1> QED BY <1>1, <1>2, <1>3, <1>4 DEF Records

(***************************************************************************)
(* Trees that a replay of their own recording rebuilds.                     *)
(***************************************************************************)
(* One of the first n operations has opened the descriptor, and no later    *)
(* one of them has closed it.                                               *)
StillOpen(ops, d, n) ==
  \E j \in 1 .. n :
    /\ ops[j].kind = "Open" /\ ops[j].des = d
    /\ \A k \in j + 1 .. n : ops[k].kind = "Close" => ops[k].des # d

(* A workload in which no two opens return the same descriptor, and every   *)
(* descriptor that is used is open.                                         *)
Threaded(ops) ==
  /\ \A i, j \in DOMAIN ops :
       ops[i].kind = "Open" /\ ops[j].kind = "Open" /\ ops[i].des = ops[j].des => i = j
  /\ \A i \in DOMAIN ops : ops[i].kind \in UsesDescriptor => StillOpen(ops, ops[i].des, i - 1)

(* A tree whose recording is such a workload, the descriptors of its files  *)
(* being open in it.                                                        *)
ThreadsRecorded(s) ==
  /\ Threaded(s.recording)
  /\ \A i \in DOMAIN s.recording :
       s.recording[i].kind = "Open" => s.recording[i].des \in 1 .. Len(s.descriptors)
  /\ \A f, d : HeldUnder(s, f, d) => StillOpen(s.recording, d, Len(s.recording))

(* An operation that makes, uses or closes descriptors as it should keeps   *)
(* the tree so.                                                             *)
LEMMA ThreadsGoOn ==
  ASSUME NEW s \in FS, ThreadsRecorded(s), NEW op \in Operation, NEW t, Threads(s, op, t),
         NEW ops, ops = s.recording, NEW more, more = t.recording, more = Append(ops, op)
  PROVE  ThreadsRecorded(t)
<1>1. PICK n \in Nat : n = Len(ops)
  BY FieldsOf
<1>2. /\ DOMAIN ops = 1 .. n /\ DOMAIN more = 1 .. n + 1 /\ Len(more) = n + 1
      /\ more[n + 1] = op /\ \A i \in 1 .. n : more[i] = ops[i]
  BY <1>1, FieldsOf
<1>3. PICK c \in Nat : c = Len(s.descriptors)
  BY FieldsOf
<1>4. /\ Threaded(ops) /\ \A i \in 1 .. n : ops[i].kind = "Open" => ops[i].des \in 1 .. c
      /\ \A f, d : HeldUnder(s, f, d) => StillOpen(ops, d, n)
  BY <1>1, <1>2, <1>3 DEF ThreadsRecorded
<1>5. /\ op.kind = "Open" => op.des = c + 1 /\ Len(t.descriptors) = c + 1
      /\ op.kind # "Open" => Len(t.descriptors) = c
      /\ op.kind \in UsesDescriptor => StillOpen(ops, op.des, n)
  BY <1>3, <1>4 DEF Threads
<1>6. \A i \in 1 .. n + 1 : more[i].kind = "Open" => more[i].des \in 1 .. Len(t.descriptors)
  <2> SUFFICES ASSUME NEW i \in 1 .. n + 1, more[i].kind = "Open"
               PROVE  more[i].des \in 1 .. Len(t.descriptors)
    OBVIOUS
  <2>1. CASE i = n + 1
    BY <1>2, <1>5, <2>1
  <2>2. CASE i \in 1 .. n
    BY <1>2, <1>4, <1>5, <2>2
  <2> QED BY <1>1, <2>1, <2>2
<1>7. ASSUME NEW d, NEW m \in 0 .. n, StillOpen(ops, d, m)
      PROVE  StillOpen(more, d, m)
  <2>1. PICK j \in 1 .. m :
          /\ ops[j].kind = "Open" /\ ops[j].des = d
          /\ \A k \in j + 1 .. m : ops[k].kind = "Close" => ops[k].des # d
    BY <1>7 DEF StillOpen
  <2>2. \A k \in 1 .. m : more[k] = ops[k]
    BY <1>2
  <2>3. \A k \in j + 1 .. m : k \in 1 .. m
    OBVIOUS
  <2> QED BY <2>1, <2>2, <2>3 DEF StillOpen
<1>8. Threaded(more)
  <2>1. ASSUME NEW i \in 1 .. n + 1, NEW j \in 1 .. n + 1,
               more[i].kind = "Open", more[j].kind = "Open", more[i].des = more[j].des
        PROVE  i = j
    <3>1. CASE i \in 1 .. n /\ j \in 1 .. n
      BY <1>2, <1>4, <2>1, <3>1 DEF Threaded
    <3>2. CASE i = n + 1 \/ j = n + 1
      <4>1. op.kind = "Open" /\ op.des = c + 1
        BY <1>2, <1>5, <2>1, <3>2
      <4> QED BY <1>2, <1>4, <2>1, <3>2, <4>1
    <3> QED BY <3>1, <3>2
  <2>2. ASSUME NEW i \in 1 .. n + 1, more[i].kind \in UsesDescriptor
        PROVE  StillOpen(more, more[i].des, i - 1)
    <3>1. CASE i = n + 1
      BY <1>2, <1>5, <1>7, <2>2, <3>1
    <3>2. CASE i \in 1 .. n
      <4>1. StillOpen(ops, ops[i].des, i - 1)
        BY <1>2, <1>4, <2>2, <3>2 DEF Threaded
      <4>2. i - 1 \in 0 .. n /\ more[i] = ops[i]
        BY <1>2, <3>2
      <4> QED BY <1>7, <4>1, <4>2
    <3> QED BY <1>1, <3>1, <3>2
  <2> QED BY <1>2, <2>1, <2>2 DEF Threaded
<1>9. ASSUME NEW f, NEW d, HeldUnder(t, f, d)
      PROVE  StillOpen(more, d, n + 1)
  <2>1. CASE op.kind = "Open" /\ d = op.des
    BY <1>2, <2>1 DEF StillOpen
  <2>2. CASE HeldUnder(s, f, d) /\ (op.kind = "Close" => d # op.des)
    <3>1. PICK j \in 1 .. n :
            /\ ops[j].kind = "Open" /\ ops[j].des = d
            /\ \A k \in j + 1 .. n : ops[k].kind = "Close" => ops[k].des # d
      BY <1>4, <2>2 DEF StillOpen
    <3>2. \A k \in j + 1 .. n + 1 : more[k].kind = "Close" => more[k].des # d
      BY <1>2, <2>2, <3>1
    <3> QED BY <1>2, <3>1, <3>2 DEF StillOpen
  <2> QED BY <1>9, <2>1, <2>2 DEF Threads
<1> QED BY <1>2, <1>6, <1>8, <1>9 DEF ThreadsRecorded

Recorded(s) ==
  Consistent(s) /\ ThreadsRecorded(s) /\ Replay(NewFS, s.recording) = Started(s)

(* A new AbstractFS is consistent.                                          *)
LEMMA NewFSConsistent == Consistent(NewFS)
<1>1. EmptyDir \in Dir /\ \A n \in Keys : EmptyDir[n] = Absent
  BY DEF EmptyDir, Dir
<1>2. <<EmptyDir>> \in Seq(Dir) /\ DOMAIN <<EmptyDir>> = {1} /\ <<EmptyDir>>[1] = EmptyDir
  BY <1>1
<1> HIDE DEF EmptyDir
<1>3. /\ NewFS.dirs = <<EmptyDir>> /\ NewFS.files = <<>> /\ NewFS.symlinks = <<>>
      /\ NewFS.descriptors = <<>> /\ NewFS.recording = <<>>
  BY DEF NewFS
<1>4. NewFS \in FS
  BY <1>2 DEF NewFS, FS
<1>5. EntriesAllocated(NewFS)
  BY <1>1, <1>2, <1>3 DEF EntriesAllocated, NodeAllocated, RootIndex, Absent
<1>6. FilesKnowTheirDescriptors(NewFS) /\ OffsetsWithinFiles(NewFS)
  BY <1>3 DEF FilesKnowTheirDescriptors, OffsetsWithinFiles
<1> QED BY <1>4, <1>5, <1>6 DEF Consistent, Tree

(* It has recorded nothing.                                                 *)
LEMMA NewFSRecorded == Recorded(NewFS)
<1>1. NewFS.recording = <<>> /\ NewFS.files = <<>> /\ DOMAIN NewFS.files = {}
  BY DEF NewFS
<1>2. ThreadsRecorded(NewFS)
  <2>1. DOMAIN NewFS.recording = {}
    BY <1>1
  <2> QED BY <1>1, <2>1 DEF ThreadsRecorded, Threaded, HeldUnder
<1> QED BY <1>1, <1>2, NewFSConsistent, ReplayEmpty DEF Recorded

(* Every call leaves such a tree behind.                                    *)
LEMMA ApplyRecorded ==
  ASSUME NEW s, Recorded(s), NEW op \in Operation
  PROVE  Recorded(Apply(s, op).fs)
<1>1. Consistent(s) /\ ThreadsRecorded(s) /\ Replay(NewFS, s.recording) = Started(s)
  BY DEF Recorded
<1>2. CASE Apply(s, op).err # Ok
  BY <1>1, <1>2, ApplyAppends
<1>3. CASE Apply(s, op).err = Ok
  <2>1. PICK o \in Operation : /\ Apply(s, op).fs.recording = Append(s.recording, o)
                               /\ Threads(s, o, Apply(s, op).fs)
                               /\ Apply(s, o) = Apply(s, op)
    BY <1>1, <1>3, ApplyAppends
  <2>2. s.recording \in Seq(Operation)
    BY <1>1, FieldsOf DEF Consistent, Tree
  <2>3. Replay(NewFS, Append(s.recording, o)) = ReplayNext(Started(s), o)
    BY <1>1, <2>2, ReplayAppend
  <2>4. ReplayNext(Started(s), o) = Apply(s, o)
    BY DEF ReplayNext, Started
  <2>5. Apply(s, op) = Started(Apply(s, op).fs)
    BY <1>1, <1>3, ApplyAppends
  <2>6. Consistent(Apply(s, op).fs)
    BY <1>1, ApplyGood DEF Good
  <2>7. ThreadsRecorded(Apply(s, op).fs)
    <3>1. s \in FS
      BY <1>1 DEF Consistent, Tree
    <3> QED BY <1>1, <2>1, <3>1, ThreadsGoOn
  <2> QED BY <2>1, <2>3, <2>4, <2>5, <2>6, <2>7 DEF Recorded
<1> QED BY <1>2, <1>3

(***************************************************************************)
(* Replays.                                                                 *)
(***************************************************************************)
(* The recording was followed by what n operations have recorded.           *)
Extends(before, ops, n, after) ==
  /\ Len(after) = Len(before) + n
  /\ \A k \in 1 .. Len(before) : after[k] = before[k]
  /\ \A k \in 1 .. n : SameCall(ops[k], after[Len(before) + k])

Replayed(s, ops, n, out) ==
  /\ Recorded(out.fs)
  /\ out.err = Ok => out = Started(out.fs) /\ Extends(s.recording, ops, n, out.fs.recording)

(* One operation more, as ReplayAppend.                                     *)
LEMMA NextReplayed ==
  ASSUME NEW s, Recorded(s), NEW ops, NEW n \in Nat, NEW out, Replayed(s, ops, n, out),
         ops[n + 1] \in Operation
  PROVE  Replayed(s, ops, n + 1, ReplayNext(out, ops[n + 1]))
<1>1. PICK op \in Operation : op = ops[n + 1]
  OBVIOUS
<1>2. CASE out.err # Ok
  BY <1>2 DEF ReplayNext, Replayed
<1>3. CASE out.err = Ok
  <2>1. ReplayNext(out, op) = Apply(out.fs, op)
    BY <1>3 DEF ReplayNext
  <2>2. Recorded(out.fs) /\ Consistent(out.fs) /\ Extends(s.recording, ops, n, out.fs.recording)
    BY <1>3 DEF Replayed, Recorded
  <2>3. Recorded(Apply(out.fs, op).fs)
    BY <2>2, ApplyRecorded
  <2>4. ASSUME Apply(out.fs, op).err = Ok
        PROVE  /\ Apply(out.fs, op) = Started(Apply(out.fs, op).fs)
               /\ Extends(s.recording, ops, n + 1, Apply(out.fs, op).fs.recording)
    <3>1. PICK o \in Operation : /\ SameCall(op, o)
                                 /\ Apply(out.fs, op).fs.recording = Append(out.fs.recording, o)
      BY <2>2, <2>4, ApplyAppends
    <3>2. out.fs.recording \in Seq(Operation) /\ s.recording \in Seq(Operation)
      BY <2>2, FieldsOf DEF Recorded, Consistent, Tree
    <3>3. PICK r, q, a : r = s.recording /\ q = out.fs.recording /\ a = Append(q, o)
      OBVIOUS
    <3>4. /\ Len(r) \in Nat /\ Len(q) = Len(r) + n
          /\ \A k \in 1 .. Len(r) : q[k] = r[k]
          /\ \A k \in 1 .. n : SameCall(ops[k], q[Len(r) + k])
      BY <2>2, <3>2, <3>3 DEF Extends
    <3>5. /\ Len(a) = Len(q) + 1 /\ a[Len(q) + 1] = o
          /\ \A k \in 1 .. Len(q) : a[k] = q[k]
      BY <3>2, <3>3
    <3>6. ASSUME NEW k \in 1 .. n + 1
          PROVE  SameCall(ops[k], a[Len(r) + k])
      <4>1. CASE k = n + 1
        <5>1. Len(r) + k = Len(q) + 1
          BY <3>4, <4>1
        <5> QED BY <1>1, <3>1, <3>5, <4>1, <5>1
      <4>2. CASE k # n + 1
        <5>1. k \in 1 .. n /\ Len(r) + k \in 1 .. Len(q)
          BY <3>4, <4>2
        <5> QED BY <3>4, <3>5, <5>1
      <4> QED BY <4>1, <4>2
    <3>7. Len(a) = Len(r) + (n + 1) /\ \A k \in 1 .. Len(r) : a[k] = r[k]
      BY <3>4, <3>5
    <3>8. Extends(r, ops, n + 1, a)
      BY <3>6, <3>7 DEF Extends
    <3>9. Apply(out.fs, op) = Started(Apply(out.fs, op).fs)
      BY <2>2, <2>4, ApplyAppends
    <3> QED BY <3>1, <3>3, <3>8, <3>9
  <2> QED BY <1>1, <2>1, <2>3, <2>4 DEF Replayed
<1> QED BY <1>1, <1>2, <1>3

(* A replay leaves a tree that its recording rebuilds, and when it succeeds *)
(* records every operation, but for the descriptors of opens.               *)
LEMMA ReplayReplayed ==
  ASSUME NEW s, Recorded(s), NEW ops \in Seq(Operation)
  PROVE  Replayed(s, ops, Len(ops), Replay(s, ops))
<1>1. Len(ops) \in Nat /\ \A k \in 1 .. Len(ops) : ops[k] \in Operation
  OBVIOUS
<1>2. PICK f : IsRun(f, s, ops, Len(ops)) /\ Replay(s, ops) = f[Len(ops)]
  BY <1>1, ReplayIsRun
<1> DEFINE T == {n \in Nat : n <= Len(ops) => Replayed(s, ops, n, f[n])}
<1>3. 0 \in T
  <2>1. f[0] = Started(s) /\ f[0].fs = s
    BY <1>2 DEF IsRun, Started
  <2>2. s.recording \in Seq(Operation)
    BY FieldsOf DEF Recorded, Consistent, Tree
  <2>3. Len(s.recording) \in Nat
    BY <2>2
  <2>4. Extends(s.recording, ops, 0, s.recording)
    BY <2>3 DEF Extends
  <2> QED BY <2>1, <2>4 DEF Replayed
<1>4. ASSUME NEW n \in Nat, n \in T
      PROVE  n + 1 \in T
  <2> SUFFICES ASSUME n + 1 <= Len(ops)
               PROVE  Replayed(s, ops, n + 1, f[n + 1])
    OBVIOUS
  <2>1. n + 1 \in 1 .. Len(ops) /\ (n + 1) - 1 = n /\ Replayed(s, ops, n, f[n])
    BY <1>1, <1>4
  <2>2. f[n + 1] = ReplayNext(f[n], ops[n + 1])
    BY <1>2, <2>1 DEF IsRun
  <2> QED BY <1>1, <2>1, <2>2, NextReplayed
<1> HIDE DEF T
<1>5. Nat \subseteq T
  BY <1>3, <1>4, NatSetInduction
<1> QED BY <1>1, <1>2, <1>5 DEF T

(* What a replay of a workload has recorded replays to itself, to the same  *)
(* tree, and differs from the workload in the descriptors of opens only.    *)
LEMMA RecordingOfReplay ==
  ASSUME NEW ops \in Seq(Operation), Replay(NewFS, ops).err = Ok
  PROVE  LET t == Replay(NewFS, ops).fs
         IN  /\ Recorded(t) /\ Replay(NewFS, ops) = Started(t)
             /\ Replay(NewFS, t.recording) = Started(t)
             /\ t.recording \in Seq(Operation) /\ Len(t.recording) = Len(ops)
             /\ \A k \in 1 .. Len(ops) : SameCall(ops[k], t.recording[k])
<1>1. PICK t : t = Replay(NewFS, ops).fs
  OBVIOUS
<1>2. Recorded(t) /\ Replay(NewFS, ops) = Started(t) /\ Extends(<<>>, ops, Len(ops), t.recording)
  <2>1. NewFS.recording = <<>>
    BY DEF NewFS
  <2> QED BY <1>1, <2>1, NewFSRecorded, ReplayReplayed DEF Replayed
<1>3. t.recording \in Seq(Operation)
  BY <1>2, FieldsOf DEF Recorded, Consistent, Tree
<1>4. Len(t.recording) = Len(ops) /\ \A k \in 1 .. Len(ops) : SameCall(ops[k], t.recording[k])
  BY <1>2 DEF Extends
<1> QED BY <1>1, <1>2, <1>3, <1>4 DEF Recorded

(* One sequence after another.                                              *)
LEMMA ConcatFacts ==
  ASSUME NEW S, NEW a \in Seq(S), NEW b \in Seq(S), NEW p, p = Len(a), NEW m, m = Len(b)
  PROVE  /\ a \o b \in Seq(S) /\ Len(a \o b) = p + m
         /\ \A k \in 1 .. p : (a \o b)[k] = a[k]
         /\ \A k \in 1 .. m : (a \o b)[p + k] = b[k]
<1>1. a \o b \in Seq(S) /\ Len(a \o b) = Len(a) + Len(b)
  OBVIOUS
<1>2. \A k \in 1 .. Len(a) : (a \o b)[k] = a[k]
  OBVIOUS
<1>3. \A k \in 1 .. Len(b) : (a \o b)[Len(a) + k] = b[k]
  OBVIOUS
<1> QED BY <1>1, <1>2, <1>3

(* A sequence without one of its elements.                                  *)
Without(seq, i) == SubSeq(seq, 1, i - 1) \o SubSeq(seq, i + 1, Len(seq))

(* Its elements are those before the i-th and those after it.               *)
LEMMA WithoutOne ==
  ASSUME NEW S, NEW seq \in Seq(S), NEW n \in Nat, Len(seq) = n + 1, NEW i \in 1 .. n + 1
  PROVE  /\ Without(seq, i) \in Seq(S) /\ Len(Without(seq, i)) = n
         /\ \A k \in 1 .. n : Without(seq, i)[k] = IF k < i THEN seq[k] ELSE seq[k + 1]
<1>1. PICK a : a = SubSeq(seq, 1, i - 1)
  OBVIOUS
<1>2. PICK b : b = SubSeq(seq, i + 1, n + 1)
  OBVIOUS
<1>3. a \in Seq(S) /\ Len(a) = i - 1 /\ \A k \in 1 .. i - 1 : a[k] = seq[k]
  BY <1>1
<1>4. b \in Seq(S) /\ Len(b) = (n + 1) - i /\ \A k \in 1 .. (n + 1) - i : b[k] = seq[i + k]
  <2>1. PICK m \in Nat : m = (n + 1) - i
    OBVIOUS
  <2>2. b \in Seq(S) /\ Len(b) = m
    BY <1>2, <2>1
  <2>3. \A k \in 1 .. m : b[k] = seq[i + k]
    BY <1>2, <2>1
  <2> QED BY <2>1, <2>2, <2>3
<1>5. PICK p, m \in Nat : p = i - 1 /\ m = (n + 1) - i /\ p + m = n
  OBVIOUS
<1>6. PICK w : w = a \o b
  OBVIOUS
<1>7. /\ w \in Seq(S) /\ Len(w) = n
      /\ \A k \in 1 .. p : w[k] = a[k]
      /\ \A k \in 1 .. m : w[p + k] = b[k]
  <2>1. a \in Seq(S) /\ Len(a) = p /\ b \in Seq(S) /\ Len(b) = m
    BY <1>3, <1>4, <1>5
  <2> QED BY <1>5, <1>6, <2>1, ConcatFacts
<1>8. ASSUME NEW k \in 1 .. n
      PROVE  w[k] = IF k < i THEN seq[k] ELSE seq[k + 1]
  <2>1. CASE k < i
    <3>1. k \in 1 .. i - 1 /\ k \in 1 .. p
      BY <1>5, <2>1
    <3> QED BY <1>3, <1>7, <2>1, <3>1
  <2>2. CASE k >= i
    <3>1. PICK j : j = k - p
      OBVIOUS
    <3>2. j \in 1 .. m /\ k = p + j /\ i + j = k + 1
      BY <1>5, <2>2, <3>1
    <3>3. w[k] = b[j]
      BY <1>7, <3>2
    <3> QED BY <1>4, <1>5, <2>2, <3>2, <3>3
  <2> QED BY <2>1, <2>2
<1> QED BY <1>1, <1>2, <1>6, <1>7, <1>8 DEF Without

(* A sequence cut in two.                                                   *)
LEMMA CutInTwo ==
  ASSUME NEW S, NEW seq \in Seq(S), NEW p \in Nat, NEW m \in Nat, Len(seq) = p + m,
         NEW x, NEW y
  PROVE  x = SubSeq(seq, 1, p) /\ y = SubSeq(seq, p + 1, p + m) =>
           /\ x \in Seq(S) /\ Len(x) = p /\ y \in Seq(S) /\ Len(y) = m
           /\ \A k \in 1 .. p : x[k] = seq[k]
           /\ \A k \in 1 .. m : y[k] = seq[p + k]
           /\ x \o y = seq
<1>0. PICK a, b : a = SubSeq(seq, 1, p) /\ b = SubSeq(seq, p + 1, p + m)
  OBVIOUS
<1>1. a \in Seq(S) /\ Len(a) = p
  BY <1>0
<1>2. \A k \in 1 .. p : a[k] = seq[k]
  BY <1>0
<1>3. b \in Seq(S) /\ Len(b) = m
  BY <1>0
<1>4. \A k \in 1 .. m : b[k] = seq[p + k]
  BY <1>0
<1>5. PICK ab : ab = a \o b
  OBVIOUS
<1>6. /\ ab \in Seq(S) /\ Len(ab) = p + m
      /\ \A k \in 1 .. p : ab[k] = a[k]
      /\ \A k \in 1 .. m : ab[p + k] = b[k]
  <2>1. a \in Seq(S) /\ b \in Seq(S)
    BY <1>1, <1>3
  <2>2. Len(a) = p /\ Len(b) = m
    BY <1>1, <1>3
  <2>3. a \o b \in Seq(S) /\ Len(a \o b) = p + m
    <3>1. a \o b \in Seq(S)
      BY <2>1
    <3>2. Len(a \o b) = Len(a) + Len(b)
      BY <2>1
    <3> QED BY <2>2, <3>1, <3>2
  <2>4. \A k \in 1 .. p : (a \o b)[k] = a[k]
    BY <2>1, <2>2, ConcatFacts
  <2>5. \A k \in 1 .. m : (a \o b)[p + k] = b[k]
    BY <2>1, <2>2, ConcatFacts
  <2> QED BY <1>5, <2>3, <2>4, <2>5
<1>7. ASSUME NEW k \in 1 .. p + m
      PROVE  ab[k] = seq[k]
  <2>1. CASE k <= p
    BY <1>2, <1>6, <2>1
  <2>2. CASE k > p
    <3>1. PICK j : j = k - p
      OBVIOUS
    <3>2. j \in 1 .. m /\ k = p + j
      BY <2>2, <3>1
    <3> QED BY <1>4, <1>6, <3>2
  <2> QED BY <2>1, <2>2
<1>8. ab = seq
  <2>1. ab \in Seq(S) /\ Len(ab) = p + m
    BY <1>6
  <2>2. PICK n : n = p + m
    OBVIOUS
  <2> QED BY <1>7, <2>1, <2>2
<1> QED BY <1>0, <1>1, <1>2, <1>3, <1>4, <1>5, <1>8

(* The same calls are the same but for descriptors.                         *)
LEMMA SameCallAnonymous ==
  ASSUME NEW op, NEW o, SameCall(op, o)
  PROVE  Anonymous(op) = Anonymous(o)
<1>1. ASSUME NEW path, NEW d
      PROVE  Anonymous(OpenOp(path, d)) = OpenOp(path, 0)
  BY DEF Anonymous, OpenOp
<1> QED BY <1>1 DEF SameCall

(* A workload that a replay has recorded: it replays to itself.             *)
Recording(ops) ==
  /\ ops \in Seq(Operation)
  /\ Replay(NewFS, ops).err = Ok /\ Replay(NewFS, ops).fs.recording = ops

(* What is left of a workload without one of its operations, if it replays. *)
OneGone(short, long, i) ==
  /\ Len(long) = Len(short) + 1
  /\ \A k \in 1 .. Len(short) :
       Anonymous(short[k]) = Anonymous(IF k < i THEN long[k] ELSE long[k + 1])

(* What a replay without one operation records is that workload with one gone.*)
LEMMA RemovalReplays ==
  ASSUME NEW ops \in Seq(Operation), NEW n \in Nat, Len(ops) = n + 1, NEW i \in 1 .. n + 1,
         NEW out, out = Replay(NewFS, Without(ops, i)), out.err = Ok,
         NEW short, short = out.fs.recording
  PROVE  Recording(short) /\ OneGone(short, ops, i)
<1>1. PICK rest : rest = Without(ops, i)
  OBVIOUS
<1>2. /\ rest \in Seq(Operation) /\ Len(rest) = n
      /\ \A k \in 1 .. n : rest[k] = IF k < i THEN ops[k] ELSE ops[k + 1]
  <2>1. PICK S : S = Operation
    OBVIOUS
  <2>2. ops \in Seq(S)
    BY <2>1
  <2>3. /\ Without(ops, i) \in Seq(S) /\ Len(Without(ops, i)) = n
        /\ \A k \in 1 .. n : Without(ops, i)[k] = IF k < i THEN ops[k] ELSE ops[k + 1]
    BY ONLY <2>2, WithoutOne, n \in Nat, Len(ops) = n + 1, i \in 1 .. n + 1
  <2> QED BY <1>1, <2>1, <2>3
<1>3. /\ Replay(NewFS, short) = Started(out.fs) /\ short \in Seq(Operation)
      /\ Len(short) = n /\ \A k \in 1 .. n : SameCall(rest[k], short[k])
  BY <1>1, <1>2, RecordingOfReplay
<1>4. \A k \in 1 .. n : Anonymous(short[k]) = Anonymous(rest[k])
  BY <1>3, SameCallAnonymous
<1>5. Recording(short)
  BY <1>3 DEF Recording, Started
<1> QED BY <1>2, <1>3, <1>4, <1>5 DEF OneGone
(* Such a workload uses descriptors as it should.                           *)
LEMMA RecordingThreaded ==
  ASSUME NEW ops, Recording(ops)
  PROVE  /\ Threaded(ops)
         /\ \E c \in Nat : \A i \in DOMAIN ops : ops[i].kind = "Open" => ops[i].des \in 1 .. c
<1>1. PICK s : s = Replay(NewFS, ops).fs
  OBVIOUS
<1>2. s.recording = ops /\ ops \in Seq(Operation)
  BY <1>1 DEF Recording
<1>3. ThreadsRecorded(s) /\ s \in FS
  BY <1>1, <1>2, NewFSRecorded, ReplayReplayed DEF Replayed, Recorded, Consistent, Tree
<1>4. Len(s.descriptors) \in Nat
  BY <1>3, FieldsOf
<1> QED BY <1>2, <1>3, <1>4 DEF ThreadsRecorded

(***************************************************************************)
(* Trees in which a link is mentioned by the targets of later links only:   *)
(* no resolution runs into a loop, and the stack it needs has a bound.      *)
(***************************************************************************)
NamesIn(path) == {path[k] : k \in 1 .. Len(path)}

LinksOrdered(s) ==
  \A i \in DOMAIN s.symlinks, d \in DOMAIN s.dirs, name \in Names :
    s.dirs[d][name].kind = "Symlink" /\ name \in NamesIn(s.symlinks[i]) => s.dirs[d][name].idx < i

TargetsShort(s, long) == \A i \in DOMAIN s.symlinks : Len(s.symlinks[i]) <= long

(* The links that a path names are among the first r.                       *)
NamesFirst(s, path, r) ==
  \A d \in DOMAIN s.dirs, name \in Names :
    s.dirs[d][name].kind = "Symlink" /\ name \in NamesIn(path) => s.dirs[d][name].idx <= r

(* The stack frames for a path that names the first r links only, targets   *)
(* being no longer than long.                                               *)
Frames(path, r, long) == 1 + Len(path) + r * (long + 1)

(* The next link that is followed is one of the first r - 1: there is room  *)
(* for its target, however long.                                            *)
LEMMA FewerFrames ==
  ASSUME NEW long \in Nat, NEW r \in Nat, NEW k \in 1 .. r, NEW n \in 0 .. long, NEW m \in Nat \ {0}
  PROVE  1 + n + (k - 1) * (long + 1) < 1 + m + r * (long + 1)
<1>1. PICK c \in Nat : c = long + 1
  OBVIOUS
<1>2. (k - 1) * c \in Nat /\ r * c \in Nat /\ k * c \in Nat
  OBVIOUS
<1>3. k * c = (k - 1) * c + c
  OBVIOUS
<1>4. k * c <= r * c
  <2>1. PICK e \in Nat : r = k + e
    <3>1. r - k \in Nat /\ r = k + (r - k)
      OBVIOUS
    <3> QED BY <3>1
  <2>2. r * c = k * c + e * c /\ e * c \in Nat
    BY <2>1
  <2> QED BY <1>2, <2>2
<1>5. 1 + n <= c
  BY <1>1
<1> QED BY <1>1, <1>2, <1>3, <1>4, <1>5

(* A path and its parent.                                                   *)
LEMMA ParentIsShorter ==
  ASSUME NEW path \in PathName, ~IsRoot(path)
  PROVE  /\ Len(path) \in Nat \ {0} /\ Len(ParentOf(path)) = Len(path) - 1
         /\ NamesIn(ParentOf(path)) \subseteq NamesIn(path) /\ NameOf(path) \in NamesIn(path)
<1>1. path \in Seq(Names) /\ Len(path) \in Nat /\ Len(path) > 0
  BY DEF PathName, IsRoot, Root
<1>2. PICK n \in Nat : n = Len(path) - 1
  BY <1>1
<1>3. PICK up : up = SubSeq(path, 1, n)
  OBVIOUS
<1>4. Len(up) = n /\ \A k \in 1 .. n : up[k] = path[k]
  BY <1>1, <1>2, <1>3
<1>5. ParentOf(path) = up /\ NameOf(path) = path[Len(path)]
  BY <1>2, <1>3 DEF ParentOf, NameOf
<1>6. \A k \in 1 .. n : k \in 1 .. Len(path)
  BY <1>1, <1>2
<1>7. NamesIn(up) \subseteq NamesIn(path)
  BY <1>4, <1>6 DEF NamesIn
<1>8. Len(path) \in 1 .. Len(path)
  BY <1>1
<1> QED BY <1>1, <1>2, <1>4, <1>5, <1>7, <1>8 DEF NamesIn

(* The target of a link names earlier links only.                           *)
LEMMA TargetNamesFirst ==
  ASSUME NEW s, Tree(s), LinksOrdered(s), NEW long, TargetsShort(s, long),
         NEW path, NEW r, NamesFirst(s, path, r),
         NEW d \in DOMAIN s.dirs, NEW name \in Names, name \in NamesIn(path),
         NEW k, s.dirs[d][name].kind = "Symlink", s.dirs[d][name].idx = k
  PROVE  /\ k \in DOMAIN s.symlinks /\ k \in Nat \ {0} /\ k <= r
         /\ s.symlinks[k] \in PathName /\ Len(s.symlinks[k]) <= long
         /\ NamesFirst(s, s.symlinks[k], k - 1)
<1>1. k \in DOMAIN s.symlinks
  <2>1. name \in Keys
    BY DEF Keys
  <2> QED BY <2>1 DEF Tree, EntriesAllocated, NodeAllocated
<1>2. k \in Nat \ {0}
  <2>1. s.symlinks \in Seq(PathName)
    BY DEF Tree, FS
  <2> QED BY <1>1, <2>1
<1>3. NamesFirst(s, s.symlinks[k], k - 1)
  <2> SUFFICES ASSUME NEW e \in DOMAIN s.dirs, NEW m \in Names, s.dirs[e][m].kind = "Symlink",
                      m \in NamesIn(s.symlinks[k])
               PROVE  s.dirs[e][m].idx <= k - 1
    BY DEF NamesFirst
  <2>1. s.dirs[e][m].idx < k
    BY <1>1 DEF LinksOrdered
  <2>2. s.dirs[e][m].idx \in Nat
    <3>1. m \in Keys
      BY DEF Keys
    <3>2. s.dirs[e][m] \in Node \cup {Absent}
      BY <3>1, EntryFacts
    <3> QED BY <3>2 DEF Node, Absent
  <2> QED BY <1>2, <2>1, <2>2
<1> QED BY <1>1, <1>2, <1>3, SymlinkFacts DEF NamesFirst, TargetsShort

(* A link that is found at the end of a path leads to fewer frames.         *)
LEMMA LinkAhead ==
  ASSUME NEW s, Tree(s), LinksOrdered(s), NEW long \in Nat, TargetsShort(s, long),
         NEW depth \in Nat, NEW path \in PathName, ~IsRoot(path), NEW r \in Nat,
         NamesFirst(s, path, r), Found(s, depth, path),
         NEW k, Looked(s, depth, path).kind = "Symlink", Looked(s, depth, path).idx = k
  PROVE  /\ k \in DOMAIN s.symlinks /\ k \in 1 .. r /\ k - 1 \in Nat
         /\ s.symlinks[k] \in PathName /\ NamesFirst(s, s.symlinks[k], k - 1)
         /\ Frames(s.symlinks[k], k - 1, long) < Frames(path, r, long)
<1>1. PICK d : d = Entered(s, depth, path).node.idx
  OBVIOUS
<1>2. d \in DOMAIN s.dirs /\ Looked(s, depth, path) = s.dirs[d][NameOf(path)]
  BY <1>1, FoundFacts DEF Looked
<1>3. PICK name \in Names : name = NameOf(path) /\ name \in NamesIn(path)
  BY PathFacts, ParentIsShorter
<1>4. /\ k \in DOMAIN s.symlinks /\ k \in Nat \ {0} /\ k <= r
      /\ s.symlinks[k] \in PathName /\ Len(s.symlinks[k]) <= long
      /\ NamesFirst(s, s.symlinks[k], k - 1)
  BY <1>2, <1>3, TargetNamesFirst
<1>5. Len(path) \in Nat \ {0} /\ Len(s.symlinks[k]) \in Nat
  BY <1>4, ParentIsShorter DEF PathName
<1>6. k \in 1 .. r /\ Len(s.symlinks[k]) \in 0 .. long
  BY <1>4, <1>5
<1>7. Frames(s.symlinks[k], k - 1, long) < Frames(path, r, long)
  BY <1>5, <1>6, FewerFrames DEF Frames
<1> QED BY <1>4, <1>6, <1>7

(* Neither a loop nor the end of the stack.                                 *)
Smooth(r) == r.err \notin {"StackOverflow", "LoopExists"}

LEMMA SmoothFacts ==
  ASSUME NEW s, NEW r, Smooth(r)
  PROVE  /\ Smooth(AsDir(s, r)) /\ \A dirs : Smooth(Via(dirs, r))
         /\ \A name : Smooth(LookUp(s, r, name))
         /\ Smooth(Unresolved("NotADir")) /\ Smooth(Unresolved("Panic"))
BY DEF Smooth, AsDir, Via, LookUp, Unresolved, Resolved, Ok

(* With room for the frames that a path needs, no resolution is hindered.   *)
Unhinders(s, long, depth) ==
  \A path \in PathName, follow \in BOOLEAN, visited \in SUBSET Nat, r \in Nat :
    NamesFirst(s, path, r) /\ Frames(path, r, long) <= depth /\ (\A v \in visited : v > r)
      => Smooth(WalkAnswer(s, depth, path, follow, visited))

(* It enters the directory before the last name,                            *)
LEMMA EntersSmoothly ==
  ASSUME NEW s, Tree(s), LinksOrdered(s), NEW long \in Nat, TargetsShort(s, long),
         NEW depth \in Nat, Unhinders(s, long, depth), NEW path \in PathName, ~IsRoot(path),
         NEW r \in Nat, NamesFirst(s, path, r), Frames(path, r, long) <= depth + 1
  PROVE  Smooth(Entered(s, depth, path))
<1>1. PICK parent : parent = ParentOf(path)
  OBVIOUS
<1>2. /\ parent \in PathName /\ Len(parent) \in Nat /\ Len(path) = Len(parent) + 1
      /\ NamesIn(parent) \subseteq NamesIn(path)
  <2>1. parent \in PathName /\ NamesIn(parent) \subseteq NamesIn(path)
    BY <1>1, ParentIsShorter, PathFacts
  <2>2. Len(parent) \in Nat
    BY <2>1 DEF PathName
  <2>3. Len(path) \in Nat \ {0} /\ Len(parent) = Len(path) - 1
    BY <1>1, ParentIsShorter
  <2> QED BY <2>1, <2>2, <2>3
<1>3. PICK c \in Nat : c = r * (long + 1)
  OBVIOUS
<1>4. NamesFirst(s, parent, r) /\ Frames(parent, r, long) <= depth /\ depth >= 1
  <2>1. Frames(parent, r, long) <= depth /\ depth >= 1
    BY <1>2, <1>3 DEF Frames
  <2> QED BY <1>2, <2>1 DEF NamesFirst
<1>5. PICK up : up = WalkAnswer(s, depth, parent, FALSE, {})
  OBVIOUS
<1>6. Smooth(up) /\ up \in Sound(s)
  BY <1>2, <1>4, <1>5, AnswerSound DEF Unhinders
<1>7. Entered(s, depth, path) = Enter(s, Walk(s)[depth], up)
  BY <1>1, <1>5 DEF Entered
<1>8. CASE up.err # Ok \/ up.node.kind = "Dir"
  BY <1>6, <1>7, <1>8, SmoothFacts DEF Enter
<1>9. CASE up.err = Ok /\ up.node.kind = "File"
  BY <1>6, <1>7, <1>9, SmoothFacts DEF Enter
<1>10. CASE up.err = Ok /\ up.node.kind = "Symlink"
  <2>1. PICK n \in Nat : depth = n + 1
    <3>1. depth - 1 \in Nat /\ depth = (depth - 1) + 1
      BY <1>4
    <3> QED BY <3>1
  <2>2. ~IsRoot(parent)
    <3>1. up = WalkAnswer(s, n + 1, parent, FALSE, {}) /\ {} \in SUBSET Nat /\ FALSE \in BOOLEAN
      BY <1>5, <2>1
    <3>2. IsRoot(parent) => WalkAnswer(s, n + 1, parent, FALSE, {}) = Resolved(DirNode(RootIndex), {})
      BY <1>2, <3>1, AnswerStep, Zenon
    <3>3. Resolved(DirNode(RootIndex), {}).node.kind # "Symlink"
      BY DEF Resolved, DirNode
    <3>4. up.node.kind = "Symlink"
      BY <1>10
    <3> QED BY <3>1, <3>2, <3>3, <3>4, Zenon
  <2>3. Found(s, n, parent) /\ up.node = Looked(s, n, parent)
    <3>1. {} \in SUBSET Nat /\ FALSE \in BOOLEAN
      OBVIOUS
    <3>2. Found(s, n, parent)
      BY <1>2, <1>5, <1>10, <2>1, <2>2, <3>1, OkFound, Zenon
    <3>3. up = Resolved(Looked(s, n, parent), Passed(s, n, parent))
      BY <1>2, <1>5, <2>1, <2>2, <3>1, <3>2, AnswerFound
    <3> QED BY <3>2, <3>3, ResultFields
  <2>4. PICK k : k = up.node.idx
    OBVIOUS
  <2>5. PICK target : target = s.symlinks[k]
    OBVIOUS
  <2>6. /\ k \in DOMAIN s.symlinks /\ k - 1 \in Nat /\ target \in PathName
        /\ NamesFirst(s, target, k - 1) /\ Frames(target, k - 1, long) < Frames(parent, r, long)
    BY <1>2, <1>4, <1>10, <2>2, <2>3, <2>4, <2>5, LinkAhead
  <2>7. Frames(target, k - 1, long) <= depth
    <3>1. Len(target) \in Nat
      BY <2>6 DEF PathName
    <3>2. (k - 1) * (long + 1) \in Nat
      BY <2>6
    <3>3. Frames(target, k - 1, long) \in Nat /\ Frames(parent, r, long) \in Nat
      BY <1>2, <1>3, <3>1, <3>2 DEF Frames
    <3> QED BY <1>4, <2>6, <3>3
  <2>8. Smooth(WalkAnswer(s, depth, target, TRUE, {}))
    BY <2>6, <2>7 DEF Unhinders
  <2>9. Enter(s, Walk(s)[depth], up) = Via(up.dirs, AsDir(s, WalkAnswer(s, depth, target, TRUE, {})))
    BY <1>10, <2>4, <2>5, <2>6 DEF Enter, WalkAnswer
  <2> QED BY <1>7, <2>8, <2>9, SmoothFacts
<1>11. up.err = Ok => up.node.kind \in {"Dir", "File", "Symlink"}
  BY <1>6 DEF Sound, Node
<1> QED BY <1>8, <1>9, <1>10, <1>11

(* and goes on from there.                                                  *)
LEMMA GoesOnSmoothly ==
  ASSUME NEW s, Tree(s), LinksOrdered(s), NEW long \in Nat, TargetsShort(s, long),
         NEW depth \in Nat, Unhinders(s, long, depth), NEW path \in PathName, ~IsRoot(path),
         NEW r \in Nat, NamesFirst(s, path, r), Frames(path, r, long) <= depth + 1,
         NEW follow \in BOOLEAN, NEW visited \in SUBSET Nat, \A v \in visited : v > r
  PROVE  Smooth(WalkAnswer(s, depth + 1, path, follow, visited))
<1>1. PICK a : a = WalkAnswer(s, depth + 1, path, follow, visited)
  OBVIOUS
<1>2. Smooth(Entered(s, depth, path))
  BY EntersSmoothly
<1>3. CASE ~Found(s, depth, path)
  <2>1. PICK last : last = LookUp(s, Entered(s, depth, path), NameOf(path))
    OBVIOUS
  <2>2. last.err # Ok
    BY <1>3, <2>1 DEF LookUp, NameExists, Unresolved, Ok, Found, Looked
  <2>3. a = last
    BY <1>1, <2>1, <2>2, AnswerStep DEF FollowLast
  <2> QED BY <1>1, <1>2, <2>1, <2>3, SmoothFacts
<1>4. CASE Found(s, depth, path) /\ ~(Looked(s, depth, path).kind = "Symlink" /\ follow)
  <2>1. a = Resolved(Looked(s, depth, path), Passed(s, depth, path))
    BY <1>1, <1>4, AnswerFound
  <2> QED BY <1>1, <2>1 DEF Smooth, Resolved, Ok
<1>5. CASE Found(s, depth, path) /\ Looked(s, depth, path).kind = "Symlink" /\ follow
  <2>1. PICK k : k = Looked(s, depth, path).idx
    OBVIOUS
  <2>2. PICK target : target = s.symlinks[k]
    OBVIOUS
  <2>3. /\ k \in 1 .. r /\ k - 1 \in Nat /\ target \in PathName
        /\ NamesFirst(s, target, k - 1) /\ Frames(target, k - 1, long) < Frames(path, r, long)
    BY <1>5, <2>1, <2>2, LinkAhead
  <2>4. k \notin visited
    <3>1. visited \subseteq Nat /\ k \in Nat /\ r \in Nat /\ k <= r
      BY <2>3
    <3> QED BY <3>1
  <2>5. a = Via(Passed(s, depth, path), Beyond(s, depth, path, visited))
    BY <1>1, <1>5, <2>1, <2>4, AnswerFound
  <2>6. Beyond(s, depth, path, visited) = WalkAnswer(s, depth, target, TRUE, Seen(visited, k))
    BY <2>1, <2>2 DEF Beyond, Followed
  <2>7. Seen(visited, k) \in SUBSET Nat /\ \A v \in Seen(visited, k) : v > k - 1
    <3>1. visited \subseteq Nat /\ k \in Nat /\ r \in Nat /\ k <= r
      BY <2>3
    <3> QED BY <3>1 DEF Seen
  <2>8. Frames(target, k - 1, long) <= depth
    <3>1. Len(target) \in Nat /\ Len(path) \in Nat
      BY <2>3 DEF PathName
    <3>2. (k - 1) * (long + 1) \in Nat /\ r * (long + 1) \in Nat
      BY <2>3
    <3>3. Frames(target, k - 1, long) \in Nat /\ Frames(path, r, long) \in Nat
      BY <3>1, <3>2 DEF Frames
    <3> QED BY <2>3, <3>3
  <2>9. Smooth(WalkAnswer(s, depth, target, TRUE, Seen(visited, k)))
    BY <2>3, <2>7, <2>8 DEF Unhinders
  <2> QED BY <1>1, <2>5, <2>6, <2>9, SmoothFacts
<1> QED BY <1>1, <1>3, <1>4, <1>5

(* By induction on the stack frames.                                        *)
LEMMA Unhindered ==
  ASSUME NEW s, Tree(s), LinksOrdered(s), NEW long \in Nat, TargetsShort(s, long),
         NEW depth \in Nat
  PROVE  Unhinders(s, long, depth)
<1> DEFINE T == {n \in Nat : Unhinders(s, long, n)}
<1>1. 0 \in T
  <2> SUFFICES ASSUME NEW p \in PathName, NEW r \in Nat
               PROVE  ~(Frames(p, r, long) <= 0)
    BY DEF Unhinders
  <2>1. Len(p) \in Nat /\ r * (long + 1) \in Nat
    BY DEF PathName
  <2> QED BY <2>1 DEF Frames
<1>2. ASSUME NEW n \in Nat, n \in T
      PROVE  n + 1 \in T
  <2> SUFFICES ASSUME NEW p \in PathName, NEW f \in BOOLEAN, NEW v \in SUBSET Nat, NEW r \in Nat,
                      NamesFirst(s, p, r), Frames(p, r, long) <= n + 1, \A x \in v : x > r
               PROVE  Smooth(WalkAnswer(s, n + 1, p, f, v))
    BY DEF Unhinders
  <2>1. CASE IsRoot(p)
    <3>1. WalkAnswer(s, n + 1, p, f, v) = Resolved(DirNode(RootIndex), {})
      BY <2>1, AnswerStep
    <3> QED BY <3>1 DEF Smooth, Resolved, Ok
  <2>2. CASE ~IsRoot(p)
    BY <1>2, <2>2, GoesOnSmoothly
  <2> QED BY <2>1, <2>2
<1> HIDE DEF T
<1>3. Nat \subseteq T
  BY <1>1, <1>2, NatSetInduction
<1> QED BY <1>3 DEF T

(* Trees whose links never loop, and for which the stack is deep enough:    *)
(* the frames for a path of length long that names every link.              *)
Roomy(s, long) ==
  /\ Tree(s) /\ LinksOrdered(s)
  /\ long \in Nat /\ TargetsShort(s, long)
  /\ (Len(s.symlinks) + 1) * (long + 1) < StackDepth

(* Neither a short path nor its parent is hindered.                         *)
LEMMA RoomForPaths ==
  ASSUME NEW s, NEW long, Roomy(s, long), NEW path \in PathName, Len(path) <= long,
         NEW base \in Nat, StackDepth = base + 1
  PROVE  /\ \A follow \in BOOLEAN : /\ Smooth(WalkAnswer(s, base, path, follow, {}))
                                    /\ Smooth(WalkAnswer(s, base + 1, path, follow, {}))
         /\ ~IsRoot(path) => Smooth(Entered(s, base, path))
<1>1. Tree(s) /\ LinksOrdered(s) /\ long \in Nat /\ TargetsShort(s, long)
  BY DEF Roomy
<1>2. PICK n \in Nat : n = Len(s.symlinks)
  BY <1>1, FieldsOf DEF Tree
<1>3. NamesFirst(s, path, n)
  <2> SUFFICES ASSUME NEW d \in DOMAIN s.dirs, NEW name \in Names, s.dirs[d][name].kind = "Symlink"
               PROVE  s.dirs[d][name].idx <= n
    BY DEF NamesFirst
  <2>1. s.dirs[d][name].idx \in DOMAIN s.symlinks
    BY <1>1, EntryFacts DEF NodeAllocated, Keys
  <2>2. s.symlinks \in Seq(PathName)
    BY <1>1, FieldsOf DEF Tree
  <2> QED BY <1>2, <2>1, <2>2
<1>4. Frames(path, n, long) <= base
  <2>1. Len(path) \in Nat
    BY DEF PathName
  <2>2. PICK c \in Nat : c = n * (long + 1)
    BY <1>1
  <2>3. (n + 1) * (long + 1) = c + long + 1
    BY <1>1, <2>2
  <2>4. (n + 1) * (long + 1) < base + 1
    BY <1>2 DEF Roomy
  <2> QED BY <1>1, <2>1, <2>2, <2>3, <2>4 DEF Frames
<1>5. Frames(path, n, long) <= base + 1
  <2>1. Len(path) \in Nat /\ n * (long + 1) \in Nat
    BY <1>1 DEF PathName
  <2> QED BY <1>4, <2>1 DEF Frames
<1>6. Unhinders(s, long, base) /\ Unhinders(s, long, base + 1)
  BY <1>1, Unhindered
<1>7. ASSUME NEW follow \in BOOLEAN
      PROVE  /\ Smooth(WalkAnswer(s, base, path, follow, {}))
             /\ Smooth(WalkAnswer(s, base + 1, path, follow, {}))
  <2>1. {} \in SUBSET Nat /\ \A v \in {} : v > n
    OBVIOUS
  <2> QED BY <1>3, <1>4, <1>5, <1>6, <2>1 DEF Unhinders
<1>8. ~IsRoot(path) => Smooth(Entered(s, base, path))
  BY <1>1, <1>3, <1>5, <1>6, EntersSmoothly
<1> QED BY <1>7, <1>8

(* A node that a path resolves to.                                          *)
LeadsTo(s, path, follow, node) ==
  ResolveNode(s, path, follow).err = Ok /\ ResolveNode(s, path, follow).node = node

(* resolve_dir finds the directories that paths lead to.                    *)
LEMMA LeadsToDir ==
  ASSUME NEW s, Tree(s), NEW path, NEW d \in DOMAIN s.dirs, LeadsTo(s, path, TRUE, DirNode(d))
  PROVE  /\ ResolveDir(s, path) = ResolveNode(s, path, TRUE)
         /\ ResolveDir(s, path).err = Ok /\ ResolveDir(s, path).node.idx = d
<1>1. PICK r : r = ResolveNode(s, path, TRUE)
  OBVIOUS
<1>2. r.err = Ok /\ r.node.kind = "Dir" /\ r.node.idx = d
  <2>1. r.err = Ok /\ r.node = DirNode(d)
    BY <1>1, Zenon DEF LeadsTo
  <2> QED BY <2>1 DEF DirNode
<1> QED BY <1>1, <1>2, AsDirOk DEF ResolveDir

(* What a name after a path stands for.                                     *)
LEMMA JoinFacts ==
  ASSUME NEW path \in PathName, NEW name \in Names
  PROVE  /\ Join(path, name) \in PathName /\ ~IsRoot(Join(path, name))
         /\ ParentOf(Join(path, name)) = path /\ NameOf(Join(path, name)) = name
         /\ Len(path) \in Nat /\ Len(Join(path, name)) = Len(path) + 1
<1>1. PICK p : p = Append(path, name)
  OBVIOUS
<1>2. PICK n \in Nat : n = Len(path)
  BY DEF PathName
<1>3. p \in Seq(Names) /\ Len(p) = n + 1 /\ p[n + 1] = name /\ \A k \in 1 .. n : p[k] = path[k]
  BY <1>1, <1>2 DEF PathName
<1>4. SubSeq(p, 1, n) = path
  BY <1>2, <1>3 DEF PathName
<1>5. p # Root
  BY <1>2, <1>3 DEF Root
<1>6. ParentOf(p) = path /\ NameOf(p) = name
  BY <1>2, <1>3, <1>4, <1>5 DEF ParentOf, NameOf, IsRoot
<1> QED BY <1>1, <1>2, <1>3, <1>5, <1>6 DEF Join, PathName, IsRoot

(* The stack holds a frame at least.                                        *)
LEMMA DeepEnough ==
  ASSUME NEW s, NEW long, Roomy(s, long)
  PROVE  \E base \in Nat : StackDepth = base + 1
<1>1. Tree(s) /\ long \in Nat /\ StackDepth \in Nat
  BY StackDepthAssumption DEF Roomy
<1>2. PICK n \in Nat : n = Len(s.symlinks)
  BY <1>1, FieldsOf DEF Tree
<1>3. PICK c \in Nat : c = (n + 1) * (long + 1)
  BY <1>1
<1>4. c < StackDepth
  BY <1>2, <1>3 DEF Roomy
<1>5. StackDepth - 1 \in Nat /\ StackDepth = (StackDepth - 1) + 1
  BY <1>1, <1>4
<1> QED BY <1>5

(* What a name after a path that leads to a directory leads to.             *)
LEMMA ChildReached ==
  ASSUME NEW s, NEW long, Roomy(s, long), NEW q \in PathName, Len(q) < long, NEW name \in Names,
         NEW d \in DOMAIN s.dirs, LeadsTo(s, q, TRUE, DirNode(d)),
         NEW node, node = s.dirs[d][name], node # Absent
  PROVE  /\ LeadsTo(s, Join(q, name), FALSE, node)
         /\ node.kind # "Symlink" => LeadsTo(s, Join(q, name), TRUE, node)
         /\ node.kind = "Symlink" /\ ResolveNode(s, s.symlinks[node.idx], TRUE).err = Ok =>
              LeadsTo(s, Join(q, name), TRUE, ResolveNode(s, s.symlinks[node.idx], TRUE).node)
<1>1. PICK p \in PathName : p = Join(q, name) /\ ~IsRoot(p) /\ ParentOf(p) = q /\ NameOf(p) = name
                            /\ Len(p) = Len(q) + 1 /\ Len(q) \in Nat
  BY JoinFacts
<1>2. Tree(s) /\ long \in Nat /\ StackDepth \in Nat
  BY StackDepthAssumption DEF Roomy
<1>3. Len(p) <= long
  BY <1>1, <1>2
<1>4. PICK base \in Nat : StackDepth = base + 1
  BY DeepEnough
<1>5. \A path, follow : ResolveNode(s, path, follow) = WalkAnswer(s, base + 1, path, follow, {})
  BY <1>4, ResolveAnswers
<1>6. /\ TRUE \in BOOLEAN /\ FALSE \in BOOLEAN /\ {} \in SUBSET Nat
  OBVIOUS
<1>7. PICK in : in = Entered(s, base, p)
  OBVIOUS
<1>8. in.err = Ok /\ in.node = DirNode(d)
  <2>1. PICK up : up = OnTheWay(s, base, q)
    OBVIOUS
  <2>2. in = Enter(s, Walk(s)[base], up)
    BY <1>1, <1>7, <2>1 DEF Entered, OnTheWay
  <2>3. Fits(in)
    <3>1. Smooth(in)
      BY <1>1, <1>3, <1>4, <1>7, RoomForPaths
    <3> QED BY <3>1 DEF Smooth, Fits
  <2>4. PICK r : r = Followed(s, base + 1, q, {})
    OBVIOUS
  <2>5. r.err = Ok /\ r.node = DirNode(d)
    BY <1>5, <2>4 DEF LeadsTo, Followed
  <2>6. Dir1(s, base, q) = r
    <3>1. r.node.kind = "Dir" /\ r.node.idx = d
      BY <2>5 DEF DirNode
    <3> QED BY <2>4, <2>5, <3>1, AsDirOk DEF Dir1
  <2>7. Dir1(s, base, q) = in
    BY <1>2, <2>1, <2>2, <2>3, <2>5, <2>6, EnterIsResolve
  <2> QED BY <2>5, <2>6, <2>7
<1>9. Found(s, base, p) /\ Looked(s, base, p) = node
  BY <1>1, <1>7, <1>8 DEF Found, Looked, DirNode
<1>10. LeadsTo(s, p, FALSE, node)
  <2>1. OnTheWay(s, base + 1, p) = Resolved(Looked(s, base, p), Passed(s, base, p))
    BY <1>1, <1>2, <1>9, AnswerFound DEF OnTheWay
  <2>2. ResolveNode(s, p, FALSE) = Resolved(node, Passed(s, base, p))
    BY <1>5, <1>9, <2>1 DEF OnTheWay
  <2>3. Resolved(node, Passed(s, base, p)).err = Ok /\ Resolved(node, Passed(s, base, p)).node = node
    BY ResultFields
  <2> QED BY <2>2, <2>3, Zenon DEF LeadsTo
<1>11. ASSUME node.kind # "Symlink"
       PROVE  LeadsTo(s, p, TRUE, node)
  <2>1. Looked(s, base, p).kind # "Symlink"
    BY <1>9, <1>11
  <2>2. Followed(s, base + 1, p, {}) = Resolved(Looked(s, base, p), Passed(s, base, p))
    BY <1>1, <1>2, <1>6, <1>9, <2>1, AnswerFound DEF Followed
  <2>3. ResolveNode(s, p, TRUE) = Resolved(node, Passed(s, base, p))
    BY <1>5, <1>9, <2>2 DEF Followed
  <2>4. Resolved(node, Passed(s, base, p)).err = Ok /\ Resolved(node, Passed(s, base, p)).node = node
    BY ResultFields
  <2> QED BY <2>3, <2>4, Zenon DEF LeadsTo
<1>12. ASSUME node.kind = "Symlink", ResolveNode(s, s.symlinks[node.idx], TRUE).err = Ok
       PROVE  LeadsTo(s, p, TRUE, ResolveNode(s, s.symlinks[node.idx], TRUE).node)
  <2>1. PICK k : k = node.idx
    OBVIOUS
  <2>2. k \in DOMAIN s.symlinks /\ k \in Nat /\ s.symlinks[k] \in PathName
    BY <1>2, <1>9, <1>12, <2>1, FoundLink
  <2>3. PICK target \in PathName : target = s.symlinks[k] /\ Len(target) <= long
    BY <2>2 DEF Roomy, TargetsShort
  <2>4. PICK r : r = Followed(s, base + 1, target, {})
    OBVIOUS
  <2>5. r.err = Ok /\ r = ResolveNode(s, target, TRUE)
    BY <1>5, <1>12, <2>1, <2>3, <2>4 DEF Followed
  <2>6. Followed(s, base, target, {}) = r
    <3>1. Smooth(WalkAnswer(s, base, target, TRUE, {}))
      BY <1>4, <1>6, <2>3, RoomForPaths
    <3>2. Fits(WalkAnswer(s, base, target, TRUE, {}))
      BY <3>1 DEF Smooth, Fits
    <3> QED BY <1>2, <1>6, <2>4, <3>2, OneMoreFrame DEF Enough, Followed
  <2>7. Beyond(s, base, p, {}) = r
    <3>1. Followed(s, base, target, Seen({}, k)) = Followed(s, base, target, {})
      BY <1>2, <2>2, <2>3, <2>5, <2>6, LinkOnce
    <3> QED BY <1>9, <2>1, <2>3, <2>6, <3>1 DEF Beyond
  <2>0. Looked(s, base, p).kind = "Symlink" /\ Looked(s, base, p).idx \notin {}
    BY <1>9, <1>12
  <2>8. Followed(s, base + 1, p, {}) = Via(Passed(s, base, p), Beyond(s, base, p, {}))
    BY <1>1, <1>2, <1>6, <1>9, <2>0, AnswerFound DEF Followed
  <2>9. ResolveNode(s, p, TRUE) = Via(Passed(s, base, p), r)
    BY <1>5, <2>7, <2>8 DEF Followed
  <2>10. Via(Passed(s, base, p), r).err = r.err /\ Via(Passed(s, base, p), r).node = r.node
    BY ResultFields
  <2> QED BY <2>1, <2>3, <2>5, <2>9, <2>10, Zenon DEF LeadsTo
<1> QED BY <1>1, <1>10, <1>11, <1>12

=============================================================================
