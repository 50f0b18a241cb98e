-------------------------------- MODULE Reducer --------------------------------
(***************************************************************************)
(* The reducer of test cases (diffuzzer/src/fuzzing/reducer.rs).  It runs a *)
(* workload, and if the two file systems differ tries to remove each of its *)
(* operations, from the last to the first, keeping the shorter workload     *)
(* when it shows the same difference.  Whatever else a shorter one shows is *)
(* saved as a variation.                                                    *)
(* Every run is a test of Executor, whose file systems need not be           *)
(* deterministic.  Indices start at 1.                                       *)
(***************************************************************************)
EXTENDS WorkloadEdits, Executor

CONSTANTS
  Testcases,   \* the workloads to reduce
  DashDiffs,   \* what dash may find, beside the traces
  Crash        \* what a run shows that panicked or timed out

(* A saved test case is the recording of a tree that its operations made.   *)
ASSUME ReducerAssumption ==
  \A ops \in Testcases :
    /\ ops \in Seq(Operation)
    /\ Replay(NewFS, ops).err = Ok /\ Replay(NewFS, ops).fs.recording = ops

VARIABLES
  original,       \* the workload read
  phase,          \* "first", then "reduce" until "done", "panicked" or "failed"
  original_diff,  \* what it showed
  bugcase,        \* the shortest workload so far
  idx,            \* idx_to_remove
  reduced,        \* the report in the directory "reduced", or none
  variations      \* the same for each directory "variation-<index>"

reduction == <<original, phase, original_diff, bugcase, idx, reduced, variations>>
vars == <<reduction, executor>>

------------------------------------------------------------------------------
(* What a test that came to its end has shown.                              *)
NoDiff == [trace |-> <<>>, dash |-> {}]

Shown == {[trace |-> TraceDiff(rows.fst, rows.snd), dash |-> d] : d \in DashDiffs}

AnyInteresting(diff) == diff # NoDiff

\* Mutant: the rows are not looked at.
SameDiffLengths(old, new) == DOMAIN old.trace = DOMAIN new.trace /\ old.dash = new.dash

SameDiff(old, new) ==
  /\ DOMAIN old.trace = DOMAIN new.trace
  /\ \A i \in DOMAIN old.trace : /\ IgnoreIndexEqual(old.trace[i].fst, new.trace[i].fst)
                                /\ IgnoreIndexEqual(old.trace[i].snd, new.trace[i].snd)
  /\ old.dash = new.dash

Report(ops, shown) == [input |-> ops, shown |-> shown]

Init ==
  /\ original \in Testcases /\ bugcase = original /\ phase = "first"
  /\ original_diff = NoDiff /\ idx = 0
  /\ reduced = {} /\ variations = [i \in DOMAIN original |-> {}]
  /\ ExecutorInit

TestOriginal == phase = "first" /\ StartTest(original) /\ UNCHANGED reduction

\* run: the index of the last operation is a subtraction that fails for the
\* empty workload.
JudgeOriginal ==
  /\ phase = "first" /\ stage = "done" /\ Cleared
  /\ original_diff' \in Shown
  /\ phase' = IF ~AnyInteresting(original_diff') THEN "done"
              ELSE IF original = <<>> THEN "panicked" ELSE "reduce"
  /\ idx' = Len(original)
  /\ UNCHANGED <<original, bugcase, reduced, variations>>

\* Outcomes other than a comparison are not handled.
OriginalCrashes ==
  /\ phase = "first" /\ stage = "crashed" /\ Cleared
  /\ phase' = "panicked"
  /\ UNCHANGED <<original, original_diff, bugcase, idx, reduced, variations>>

NextOperation ==
  IF idx = 1 THEN phase' = "done" /\ UNCHANGED idx ELSE idx' = idx - 1 /\ UNCHANGED phase

TryWithout ==
  /\ phase = "reduce"
  /\ \E out \in {RemoveAt(bugcase, idx)} : out.err = Ok /\ StartTest(out.fs.recording)
  /\ UNCHANGED reduction

\* The workload is not valid without this operation.
SkipOperation ==
  /\ phase = "reduce" /\ stage = "idle" /\ RemoveAt(bugcase, idx).err # Ok
  /\ UNCHANGED <<executor, original, original_diff, bugcase, reduced, variations>>
  /\ NextOperation

\* Without this operation there is no difference.
KeepOperation ==
  /\ phase = "reduce" /\ stage = "done" /\ NoDiff \in Shown /\ Cleared
  /\ UNCHANGED <<original, original_diff, bugcase, reduced, variations>>
  /\ NextOperation

\* Mutant: the report is of the workload before the removal.
DropOperationReportedLate ==
  /\ phase = "reduce" /\ stage = "done" /\ Cleared
  /\ \E shown \in Shown :
       /\ AnyInteresting(shown) /\ SameDiff(original_diff, shown)
       /\ bugcase' = workload /\ reduced' = {Report(bugcase, shown)}
  /\ UNCHANGED <<original, original_diff, variations>>
  /\ NextOperation

DropOperation ==
  /\ phase = "reduce" /\ stage = "done" /\ Cleared
  /\ \E shown \in Shown :
       /\ AnyInteresting(shown) /\ SameDiff(original_diff, shown)
       /\ bugcase' = workload /\ reduced' = {Report(workload, shown)}
  /\ UNCHANGED <<original, original_diff, variations>>
  /\ NextOperation

Variations ==
  IF stage = "crashed" THEN {Crash}
  ELSE {shown \in Shown : AnyInteresting(shown) /\ ~SameDiff(original_diff, shown)}

\* Mutant: the reports of variations are numbered by what is left.
SaveVariationByLength ==
  /\ phase = "reduce" /\ stage \in {"done", "crashed"} /\ Cleared
  /\ \E shown \in Variations :
       variations' = [variations EXCEPT ![Len(bugcase)] = {Report(workload, shown)}]
  /\ UNCHANGED <<original, original_diff, bugcase, reduced>>
  /\ NextOperation

SaveVariation ==
  /\ phase = "reduce" /\ stage \in {"done", "crashed"} /\ Cleared
  /\ \E shown \in Variations :
       variations' = [variations EXCEPT ![idx] = {Report(workload, shown)}]
  /\ UNCHANGED <<original, original_diff, bugcase, reduced>>
  /\ NextOperation

\* Compiling, running or saving returns an error.
Fail ==
  /\ phase \in {"first", "reduce"} /\ phase' = "failed" /\ Cleared
  /\ UNCHANGED <<original, original_diff, bugcase, idx, reduced, variations>>

Ended == phase \in {"done", "panicked", "failed"}

Finished == Ended /\ UNCHANGED vars

Test == RunTest /\ UNCHANGED reduction

Next ==
  \/ TestOriginal \/ JudgeOriginal \/ OriginalCrashes
  \/ TryWithout \/ SkipOperation \/ KeepOperation \/ DropOperation \/ SaveVariation
  \/ Test \/ Fail \/ Finished

Spec == Init /\ [][Next]_vars

------------------------------------------------------------------------------
IsSubsequence(short, long) ==
  \E at \in [DOMAIN short -> DOMAIN long] :
    /\ \A i, j \in DOMAIN short : i < j => at[i] < at[j]
    /\ \A i \in DOMAIN short : Anonymous(short[i]) = Anonymous(long[at[i]])

\* What is left of the workload is some of its operations in their order, a valid
\* workload by itself, whatever descriptors its opens have come to return.
BugcaseIsPartOfOriginal ==
  /\ IsSubsequence(bugcase, original)
  /\ Replay(NewFS, bugcase).err = Ok /\ Replay(NewFS, bugcase).fs.recording = bugcase

(* The difference, but for the indices of its rows.                         *)
Shows(d) ==
  <<[i \in DOMAIN d.trace |-> <<[d.trace[i].fst EXCEPT !.index = 0],
                                [d.trace[i].snd EXCEPT !.index = 0]>>], d.dash>>

\* The report under "reduced" is of the shortest workload found, and shows what
\* the original showed, but for the indices of the rows: it does not drift to
\* another difference in a series of removals (reducer.rs:95-115, 188-213).
ReducedShowsTheOriginalDifference ==
  bugcase # original =>
    /\ reduced # {}
    /\ \A report \in reduced : /\ report.input = bugcase
                               /\ Shows(report.shown) = Shows(original_diff)

\* A variation is never overwritten by another one: each index is tried once,
\* although the workload changes (reducer.rs:91, 126-181).
VariationsAreKept ==
  [][\A i \in DOMAIN variations : variations[i] # {} => variations'[i] = variations[i]]_vars

=============================================================================
