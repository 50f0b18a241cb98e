-------------------------------- MODULE Mutator --------------------------------
(***************************************************************************)
(* The mutator of the grey-box fuzzer (fuzzing/greybox/mutator.rs), which   *)
(* draws edits of a workload until enough of them have succeeded.  Seeds    *)
(* are mutated again and again, so one workload that goes through one call  *)
(* of mutate after the other stands for the corpus: it begins as the empty  *)
(* workload, the first seed.                                                *)
(*                                                                          *)
(* An edit that fails leaves everything as it was: it is a stuttering step. *)
(***************************************************************************)
EXTENDS WorkloadEdits

MutationKinds == {"Insert", "Remove"}

(* What of a configuration the mutator sees: the weights of the kinds of    *)
(* operation, the kinds of mutation of positive weight, max_workload_length *)
(* and greybox.max_mutations.                                               *)
Configuration(weights, mutations, max_length, max_mutations) ==
  [weights |-> weights, mutations |-> mutations,
   max_length |-> max_length, max_mutations |-> max_mutations]

CONSTANT Configurations

ASSUME ConfigurationsAssumption ==
  \A c \in Configurations :
    /\ c.weights \in [Kinds -> Nat]
    /\ \E kind \in {"MkDir", "Create", "Symlink"} : c.weights[kind] > 0
    /\ c.mutations \subseteq MutationKinds
    /\ c.max_length \in Nat \ {0} /\ c.max_mutations \in Nat \ {0}

VARIABLES config,    \* one of the configurations, never changed
          input,     \* the workload
          left,      \* mutations to go in this call of mutate
          panicked   \* an unwrap or an assertion has failed

vars == <<config, input, left, panicked>>

(***************************************************************************)
(* mutate_once.                                                             *)
(***************************************************************************)
Running == left > 0 /\ ~panicked

MayInsert == "Insert" \in config.mutations /\ Len(input) < config.max_length
MayRemove == "Remove" \in config.mutations /\ input # <<>>

Edited(out) ==
  /\ out.err \in {Ok} \cup Crashes
  /\ panicked' = (out.err # Ok)
  /\ input' = IF out.err = Ok THEN out.fs.recording ELSE input
  /\ left' = left - 1
  /\ UNCHANGED config

\* Mutant: always the first operation.
RemovalsOfTheFirst == {RemoveAt(input, 1)}

Removals   == {RemoveAt(input, i) : i \in DOMAIN input}
Insertions == UNION {InsertAt(config.weights, input, i) : i \in 1 .. Len(input) + 1}

RemoveOnce == Running /\ MayRemove /\ \E out \in Removals : Edited(out)
InsertOnce == Running /\ MayInsert /\ \E out \in Insertions : Edited(out)

NoMutationLeft ==
  /\ Running /\ ~MayInsert /\ ~MayRemove
  /\ panicked' = TRUE
  /\ UNCHANGED <<config, input, left>>

(***************************************************************************)
(* mutate is called with a seed.                                            *)
(***************************************************************************)
Mutate ==
  /\ left = 0 /\ ~panicked
  /\ left' \in 1 .. config.max_mutations
  /\ UNCHANGED <<config, input, panicked>>

Init == config \in Configurations /\ input = <<>> /\ left = 0 /\ panicked = FALSE

Next == Mutate \/ RemoveOnce \/ InsertOnce \/ NoMutationLeft

Spec == Init /\ [][Next]_vars

(***************************************************************************)
(* Properties.                                                              *)
(***************************************************************************)
\* A workload that went through any mutations is valid, and its descriptors are
\* the ones its own opens return: later opens get new descriptors when one
\* before them comes or goes (mutator.rs:38-47, 108-129).
WorkloadsReplayToThemselves ==
  /\ Replay(NewFS, input).err = Ok
  /\ Replay(NewFS, input).fs.recording = input

ButDescriptors(ops) == [i \in DOMAIN ops |-> Anonymous(ops[i])]

\* "Tries to remove operation from workload at the index", "Tries to insert
\* random operation to workload at the index" (mutator.rs): a successful edit
\* changes the workload by that one operation, and by the descriptors that
\* opens return, and it never grows past max_workload_length.
EditsOneOperation ==
  [][input' # input =>
       /\ Len(input') <= config.max_length
       /\ \/ \E i \in DOMAIN input :
               ButDescriptors(input') = Seqs!RemoveAt(ButDescriptors(input), i)
          \/ \E i \in DOMAIN input' :
               ButDescriptors(input) = Seqs!RemoveAt(ButDescriptors(input'), i)]_vars

\* No unwrap fails while both kinds of mutation have a weight, and one of the kinds
\* of operation that need nothing to exist: what append_one draws also applies in
\* the middle of a mutated workload, with links that dangle, and there is always
\* a kind of mutation left (generator.rs:103-197, greybox/mutator.rs:51-67).
PanicsOnlyWithoutWeights == panicked => config.mutations # MutationKinds

LinksOf(s) == {e \in (1 .. Len(s.dirs)) \X Keys : s.dirs[e[1]][e[2]].kind = "Symlink"}

\* No mutation makes links that form a loop, although removing an operation can
\* leave a link to a name that is free again: a new name is none that a target
\* mentions (mutator.rs:91-100).
LinksNeverLoop ==
  LET s == Replay(NewFS, input).fs
  IN  \A e \in LinksOf(s) :
        ResolveNode(s, s.symlinks[s.dirs[e[1]][e[2]].idx], TRUE).err
          \notin Crashes \cup {"LoopExists"}

\* The loop of mutate counts the edits that succeed, so one must be left that does, or
\* the fuzzer would draw for ever: whatever the workload has become, there is an
\* index at which an operation can go, or come (greybox/mutator.rs:40-50).
SomeEditSucceeds ==
  Running /\ (MayInsert \/ MayRemove) =>
    \/ MayRemove /\ \E out \in Removals : out.err = Ok
    \/ MayInsert /\ \E out \in Insertions : out.err = Ok

=============================================================================
