---------------------------- MODULE WorkloadEdits ----------------------------
(***************************************************************************)
(* insert and remove (diffuzzer/src/abstract_fs/mutator.rs): the edits of a *)
(* workload at an index, which keep what a replay of the edited workload    *)
(* records.  The mutator and the reducer are made of them.                  *)
(***************************************************************************)
EXTENDS GeneratorChoices

Seqs == INSTANCE SequencesExt

(***************************************************************************)
(* Names already in use: those of every path an operation makes or opens,   *)
(* and of the targets of links, which need not exist.                       *)
(***************************************************************************)
NamedBy(op) ==
  CASE op.kind \in {"MkDir", "Create", "Open"} -> {op.path}
    [] op.kind \in {"Hardlink", "Rename"} -> {op.old_path, op.new_path}
    [] op.kind = "Symlink" -> {op.target, op.linkpath}
    [] OTHER -> {}

\* Mutant: the targets of links are forgotten.
UsedNamesButTargets(ops) ==
  UNION {Seqs!ToSet(path) :
           path \in UNION {IF ops[i].kind = "Symlink" THEN {ops[i].linkpath}
                           ELSE NamedBy(ops[i]) : i \in DOMAIN ops}}

UsedNames(ops) ==
  UNION {Seqs!ToSet(path) : path \in UNION {NamedBy(ops[i]) : i \in DOMAIN ops}}

(* gen_name, which counts from zero: Names bounds what it may give.         *)
FreshNames(ops) == {n \in Names \ UsedNames(ops) : \A m \in Names \ UsedNames(ops) : n <= m}

(***************************************************************************)
(* The two edits.  Each ends with the outcome of a replay, whose recording  *)
(* is the new workload.                                                     *)
(***************************************************************************)
\* Mutant: the operations themselves are kept, not what their replay records.
RemoveAtUnrecorded(ops, i) ==
  [err |-> Replay(NewFS, Seqs!RemoveAt(ops, i)).err,
   fs  |-> [NewFS EXCEPT !.recording = Seqs!RemoveAt(ops, i)]]

RemoveAt(ops, i) == Replay(NewFS, Seqs!RemoveAt(ops, i))

NamesFor(kind, ops) == IF kind \in NamingKinds THEN FreshNames(ops) ELSE {0}

(* What append_one may draw in s, and what becomes of it.                   *)
Draws(weights, s, alive, ops) ==
  UNION {{[kind |-> kind, out |-> Apply(s, op)] :
            op \in UNION {CallsFor(s, alive, kind, name) : name \in NamesFor(kind, ops)}} :
           kind \in {k \in Kinds : Applicable(s, alive, k) /\ weights[k] > 0}}

(* The result is unwrapped, but for rename, whose errors are dropped; a     *)
(* move of a directory into itself is drawn again.                          *)
Unwrapped(draw) ==
  IF draw.out.err = Ok \/ draw.kind = "Rename" THEN [err |-> Ok, fs |-> draw.out.fs]
  ELSE Failed(draw.out.fs, "Panic")

AppendOne(weights, s, alive, ops) ==
  {Unwrapped(draw) : draw \in {d \in Draws(weights, s, alive, ops) :
                                d.kind = "Rename" => d.out.err # "RenameToSubdirectoryError"}}

\* Mutant: the operation at the index is replaced.
ReplayAfterReplacing(out, ops, i) ==
  IF out.err # Ok THEN out ELSE Replay(out.fs, SubSeq(ops, i + 1, Len(ops)))

(* The operations from the index on follow the inserted one.                *)
ReplayAfter(out, ops, i) ==
  IF out.err # Ok THEN out ELSE Replay(out.fs, SubSeq(ops, i, Len(ops)))

(* before is what a replay of the operations before the index leaves.       *)
InsertAfter(weights, before, ops, i) ==
  IF before.err # Ok THEN {before}
  ELSE {ReplayAfter(out, ops, i) : out \in AppendOne(weights, before.fs, Alive(before.fs), ops)}

InsertAt(weights, ops, i) ==
  InsertAfter(weights, Replay(NewFS, SubSeq(ops, 1, i - 1)), ops, i)

=============================================================================
