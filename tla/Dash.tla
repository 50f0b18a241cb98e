--------------------------------- MODULE Dash ---------------------------------
(***************************************************************************)
(* Differential abstract state hash (dash/src/lib.rs): calc_dir_hash lists *)
(* a file system and hashes the list, get_diff merges the lists of two     *)
(* file systems from their ends.  A list is in the order of the walk, which *)
(* sorts each directory by file name; the merge compares whole paths as    *)
(* strings.                                                                *)
(*                                                                         *)
(* A file name is a sequence of characters, a path a sequence of names, a  *)
(* listing a function from paths to what is hashed of the entry (owner and *)
(* group under the default options).  A hash is the sequence it is made    *)
(* from: collisions are left out.  Indices start at 1.                     *)
(***************************************************************************)
EXTENDS Naturals, Sequences, FiniteSets

Seqs == INSTANCE SequencesExt

CONSTANTS
  Characters,  \* of file names, by their codes
  Slash,       \* the code of the separator
  Listings     \* pairs of listings to compare

\* The names the generator makes are numbers, whose digits come after '/'.
ASSUME DigitsFollowSlash ==
  /\ Slash \in Nat /\ Characters \subseteq Nat
  /\ \A c \in Characters : Slash < c

Root == <<>>

ASSUME ListingsAssumption ==
  \A pair \in Listings : \A s \in {"fst", "snd"} :
    /\ IsFiniteSet(DOMAIN pair[s]) /\ Root \in DOMAIN pair[s]
    /\ \A path \in DOMAIN pair[s] \ {Root} :
         /\ path \in Seq(Seq(Characters) \ {<<>>})
         /\ Seqs!Front(path) \in DOMAIN pair[s]

VARIABLES
  vec,       \* for each side, the list made of what was found there
  index,     \* for each side, the entry the merge is at
  res,       \* the differences
  merging    \* whether the merge goes on

vars == <<vec, index, res, merging>>

Sides == {"fst", "snd"}

------------------------------------------------------------------------------
\* The order of strings.
Less(s, t) ==
  \E i \in DOMAIN t :
    /\ i <= Len(s) + 1 /\ \A j \in 1 .. i - 1 : s[j] = t[j]
    /\ i <= Len(s) => s[i] < t[i]

\* Mutant: what is below a directory comes before it.
WalkedBeforeContentsFirst(p, q) ==
  \E i \in DOMAIN p :
    /\ i <= Len(q) + 1 /\ \A j \in 1 .. i - 1 : p[j] = q[j]
    /\ i <= Len(q) => Less(p[i], q[i])

\* The order of the walk: a directory, then what is below it, then its siblings.
WalkedBefore(p, q) ==
  \E i \in DOMAIN q :
    /\ i <= Len(p) + 1 /\ \A j \in 1 .. i - 1 : p[j] = q[j]
    /\ i <= Len(p) => Less(p[i], q[i])

\* rel_path, the path as a string.
RelPath(path) ==
  LET string[n \in 0 .. Len(path)] ==
        CASE n = 0 -> <<>>
          [] n = 1 -> path[n]
          [] OTHER -> string[n - 1] \o <<Slash>> \o path[n]
  IN  string[Len(path)]

FileInfo(found, path) == [path |-> path, rel_path |-> RelPath(path), data |-> found[path]]

\* calc_dir_hash: the entry with n others before it is the one after n.
Walk(found) ==
  [i \in 1 .. Cardinality(DOMAIN found) |->
     FileInfo(found, CHOOSE p \in DOMAIN found :
                       Cardinality({q \in DOMAIN found : WalkedBefore(q, p)}) = i - 1)]

\* What is hashed of an entry.
AddToHasher(info) == <<info.rel_path, info.data>>

DirHash(infos) == [i \in DOMAIN infos |-> AddToHasher(infos[i])]

\* Mutant: the hash leaves out the entry itself.
CalcFileinfoHashBelow(infos, rel_path) ==
  DirHash(SelectSeq(infos, LAMBDA info : /\ info.rel_path # rel_path
                                         /\ Seqs!IsPrefix(rel_path, info.rel_path)))

\* Every entry whose path begins with the same string counts.
CalcFileinfoHash(infos, rel_path) ==
  LET hasher[n \in 0 .. Len(infos)] ==
        CASE n = 0 -> <<>>
          [] n > 0 /\ Seqs!IsPrefix(rel_path, infos[n].rel_path) ->
               Append(hasher[n - 1], AddToHasher(infos[n]))
          [] OTHER -> hasher[n - 1]
  IN  hasher[Len(infos)]

------------------------------------------------------------------------------
Entry(s) == vec[s][index[s]]

HashesDiffer(rel_path) ==
  CalcFileinfoHash(vec.fst, rel_path) # CalcFileinfoHash(vec.snd, rel_path)

FileIsDifferent(path)  == [kind |-> "FileIsDifferent", path |-> path]
OnlyOneExists(s, path) == [kind |-> "OnlyOneExists", side |-> s, path |-> path]

Init ==
  /\ \E found \in Listings : vec = [s \in Sides |-> Walk(found[s])]
  /\ index = [s \in Sides |-> Len(vec[s])]
  /\ res = <<>> /\ merging = TRUE

\* The sides advance, unless one of them is at its first entry.
Advance(sides) ==
  IF \E s \in sides : index[s] = 1
  THEN merging' = FALSE /\ UNCHANGED index
  ELSE /\ index' = [s \in Sides |-> IF s \in sides THEN index[s] - 1 ELSE index[s]]
       /\ UNCHANGED merging

Equal ==
  /\ merging /\ Entry("fst").rel_path = Entry("snd").rel_path
  /\ res' = IF HashesDiffer(Entry("fst").rel_path)
            THEN Append(res, FileIsDifferent(Entry("fst").path)) ELSE res
  /\ Advance(Sides)
  /\ UNCHANGED vec

\* The entry of side s is after that of the other side t, which has none like it.
After(s, t) ==
  /\ merging /\ Less(Entry(t).rel_path, Entry(s).rel_path)
  /\ res' = Append(res, OnlyOneExists(s, Entry(s).path))
  /\ Advance({s})
  /\ UNCHANGED vec

\* Mutant: the first entry is left as well.
RestWithFirst(s) == [k \in 1 .. index[s] |-> OnlyOneExists(s, vec[s][index[s] + 1 - k].path)]

\* handle_last_diff: what is left of a list, if more than its first entry is.
Rest(s) ==
  IF index[s] = 1 THEN <<>>
  ELSE [k \in 1 .. index[s] |-> OnlyOneExists(s, vec[s][index[s] + 1 - k].path)]

Done == ~merging /\ \A s \in Sides : index[s] = 0

HandleLastDiff ==
  /\ ~merging /\ ~Done
  /\ res' = res \o Rest("fst") \o Rest("snd")
  /\ index' = [s \in Sides |-> 0]
  /\ UNCHANGED <<vec, merging>>

Finished == Done /\ UNCHANGED vars

Next == Equal \/ After("fst", "snd") \/ After("snd", "fst") \/ HandleLastDiff \/ Finished

Spec == Init /\ [][Next]_vars

------------------------------------------------------------------------------
PathsOf(s) == {vec[s][i].path : i \in DOMAIN vec[s]}

ReportedOnce(s) ==
  {path \in PathsOf(s) :
     Cardinality({k \in DOMAIN res : res[k] = OnlyOneExists(s, path)}) = 1}

\* An entry is reported to exist on one side only when it does, and once: the
\* merge of two lists in the order of the walk by comparisons of whole paths
\* never loses step, whatever each side has that the other has not
\* (lib.rs:133-201).
OneSidedEntriesAreReported ==
  Done =>
    /\ ReportedOnce("fst") = PathsOf("fst") \ PathsOf("snd")
    /\ ReportedOnce("snd") = PathsOf("snd") \ PathsOf("fst")
    /\ Cardinality({k \in DOMAIN res : res[k].kind = "OnlyOneExists"})
         = Cardinality(ReportedOnce("fst")) + Cardinality(ReportedOnce("snd"))

\* A difference of the hashes always shows in the list, and the list is empty
\* when the hashes agree: the runner asks for the list only after the hashes
\* differed, and drops the test when the list is empty (runner.rs:293-302).
ListAgreesWithHashes ==
  Done => (res = <<>> <=> DirHash(vec.fst) = DirHash(vec.snd))

\* An entry that both sides have, with other data, is reported as different.
ChangedEntriesAreReported ==
  Done =>
    \A i \in DOMAIN vec.fst, j \in DOMAIN vec.snd :
      vec.fst[i].path = vec.snd[j].path /\ vec.fst[i].data # vec.snd[j].data =>
        \E k \in DOMAIN res : res[k] = FileIsDifferent(vec.fst[i].path)

===============================================================================
