------------------------------- MODULE Generator -------------------------------
(***************************************************************************)
(* The generator of test cases (diffuzzer/src/abstract_fs/generator.rs).    *)
(* generate_new grows a workload from a new AbstractFS by append_one, which *)
(* looks at the nodes that are alive, keeps the kinds of operation that can *)
(* apply, draws one by weight and calls it.  It unwraps the result: it      *)
(* claims that what it draws from the alive nodes always succeeds.          *)
(***************************************************************************)
EXTENDS GeneratorChoices

CONSTANT WeightsSet  \* the weights a configuration may give

ASSUME WeightsAssumption == WeightsSet \subseteq [Kinds -> Nat]

VARIABLES weights,       \* kind of operation |-> weight (operation.rs), never changed
          fs,            \* the AbstractFS being grown
          name_idx,      \* the number gen_name turns into the next name
          unwrap_failed  \* an unwrap has failed

generator_vars == <<weights, fs, name_idx, unwrap_failed>>

(***************************************************************************)
(* append_one, one action for the kinds whose result is unwrapped, one for  *)
(* rename and one for the draw that finds no kind left.  Names bounds the   *)
(* names generated.                                                         *)
(***************************************************************************)
Drawn(s, alive, kind) == Applicable(s, alive, kind) /\ weights[kind] > 0

GenName(kind) ==
  IF kind \in NamingKinds
  THEN name_idx \in Names /\ name_idx' = name_idx + 1
  ELSE UNCHANGED name_idx

Unwrap(out) == fs' = out.fs /\ unwrap_failed' = (out.err # Ok)

AppendDrawn(kind, alive) ==
  /\ ~unwrap_failed
  /\ Drawn(fs, alive, kind)
  /\ GenName(kind)
  /\ \E op \in CallsFor(fs, alive, kind, name_idx) : Unwrap(Apply(fs, op))
  /\ UNCHANGED weights

AppendUnwrapped(kind) == AppendDrawn(kind, Alive(fs))

(* The loop ends at the first attempt that is not a move of a directory     *)
(* into itself, whatever that attempt returns.                              *)
Attempt(out) == out.err # "RenameToSubdirectoryError" /\ fs' = out.fs

RenameDrawn(alive) ==
  /\ ~unwrap_failed
  /\ Drawn(fs, alive, "Rename")
  /\ GenName("Rename")
  /\ \E op \in CallsFor(fs, alive, "Rename", name_idx) : Attempt(Apply(fs, op))
  /\ UNCHANGED <<weights, unwrap_failed>>

AppendRename == RenameDrawn(Alive(fs))

NoKindLeft ==
  /\ ~unwrap_failed
  /\ \A kind \in Kinds : ~Drawn(fs, Alive(fs), kind)
  /\ unwrap_failed' = TRUE
  /\ UNCHANGED <<weights, fs, name_idx>>

GeneratorInit == weights \in WeightsSet /\ fs = NewFS /\ name_idx = 0 /\ unwrap_failed = FALSE

GeneratorNext == (\E kind \in Kinds \ {"Rename"} : AppendUnwrapped(kind)) \/ AppendRename \/ NoKindLeft

GeneratorSpec == GeneratorInit /\ [][GeneratorNext]_generator_vars

(***************************************************************************)
(* Properties.                                                              *)
(***************************************************************************)
\* No unwrap of append_one fails: whatever is drawn from the alive nodes can be
\* applied, and a kind is always left to draw unless the configuration gives no
\* weight to any of the kinds that need nothing to exist.
UnwrapsFailOnlyWithoutWeights ==
  unwrap_failed => \A kind \in {"MkDir", "Create", "Symlink"} : weights[kind] = 0

\* "Appends one random operation at the end of workload." (generator.rs): one,
\* not none; an error of rename other than a move into itself would be dropped
\* without a trace and leave the workload short.
AppendsExactlyOne ==
  [][ ~unwrap_failed' => /\ Len(fs'.recording) = Len(fs.recording) + 1
                         /\ SubSeq(fs'.recording, 1, Len(fs.recording)) = fs.recording ]_generator_vars

\* Every path that alive() reports leads to the node it is reported for, also
\* when it runs through a symlink and after renames and removals of what the
\* symlink went through.
AlivePathsLeadToTheirNodes ==
  LET alive == Alive(fs)
  IN  /\ \A at \in alive.dirs : ResolveNode(fs, at[2], TRUE).node = DirNode(at[1])
      /\ \A at \in alive.files : ResolveNode(fs, at[2], FALSE).node = FileNode(at[1])
      /\ \A at \in alive.files_symlinked : ResolveNode(fs, at[2], TRUE).node = FileNode(at[1])

\* "Weights determine the likelihood of operation to be picked." (operation.rs):
\* a kind of weight zero never occurs in the workload.
WeightsAreRespected ==
  \A i \in DOMAIN fs.recording : weights[fs.recording[i].kind] > 0

=============================================================================
