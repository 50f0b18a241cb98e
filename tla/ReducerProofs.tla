---------------------------- MODULE ReducerProofs ----------------------------
(***************************************************************************)
(* The reducer, for any workloads, any file systems and anything dash may   *)
(* find.                                                                    *)
(***************************************************************************)
EXTENDS Reducer, OperationProofs, FiniteSetTheorems

(* Two differences that the reducer takes for the same show the same, but   *)
(* for the indices of their rows.                                           *)
LEMMA SameDiffShows ==
  ASSUME NEW old, NEW new, SameDiff(old, new)
  PROVE  Shows(new) = Shows(old)
  BY DEF SameDiff, Shows, IgnoreIndexEqual

(* The index and the numbers of the variations are those of operations.     *)
Positions ==
  /\ DOMAIN original \subseteq Int /\ Len(original) \in Int
  /\ DOMAIN variations \subseteq Int
  /\ phase = "reduce" => idx \in Int

(* Nothing is removed before the first difference is judged.                *)
Unreduced == phase = "first" => bugcase = original

(* Every variation is of an index that has been tried.                      *)
UntriedAreEmpty ==
  /\ phase = "first" => \A i \in DOMAIN variations : variations[i] = {}
  /\ phase = "reduce" => \A i \in DOMAIN variations : i <= idx => variations[i] = {}

(* The report under "reduced" shows the original difference by itself; that *)
(* no variation is overwritten needs that untried indices have none.        *)
IInv == Positions /\ Unreduced /\ UntriedAreEmpty /\ ReducedShowsTheOriginalDifference

(* The invariant holds at the start.                                        *)
LEMMA InitInv == Init => IInv
<1> SUFFICES ASSUME Init
             PROVE  IInv
  OBVIOUS
<1>1. original \in Seq(Operation)
  BY ReducerAssumption DEF Init
<1>2. DOMAIN original = 1 .. Len(original) /\ Len(original) \in Nat
  BY <1>1
<1>4. Positions
  BY <1>2 DEF Init, Positions
<1>5. Unreduced /\ ReducedShowsTheOriginalDifference
  BY DEF Init, Unreduced, ReducedShowsTheOriginalDifference
<1>6. UntriedAreEmpty
  BY DEF Init, UntriedAreEmpty
<1> QED BY <1>4, <1>5, <1>6 DEF IInv

(* The loop goes on with the index before, or ends.                         *)
LEMMA GoesOn ==
  ASSUME IInv, phase = "reduce", NextOperation,
         UNCHANGED <<original, original_diff, variations>>
  PROVE  Positions' /\ Unreduced' /\ UntriedAreEmpty'
<1>1. \/ phase' = "done"
      \/ phase' = "reduce" /\ idx' = idx - 1 /\ idx \in Int
  BY DEF IInv, Positions, NextOperation
<1> QED BY <1>1 DEF IInv, Positions, Unreduced, UntriedAreEmpty

(* Every step keeps the invariant.                                          *)
LEMMA NextInv == IInv /\ [Next]_vars => IInv'
<1> SUFFICES ASSUME IInv, [Next]_vars
             PROVE  IInv'
  OBVIOUS
<1> USE DEF IInv
<1>1. CASE UNCHANGED reduction
  BY <1>1 DEF reduction, Positions, Unreduced, UntriedAreEmpty, ReducedShowsTheOriginalDifference
<1>2. CASE JudgeOriginal
  <2>1. bugcase = original /\ UNCHANGED <<original, bugcase, variations>>
    BY <1>2 DEF JudgeOriginal, Unreduced
  <2>2. phase = "first" /\ phase' # "first" /\ idx' = Len(original)
    BY <1>2 DEF JudgeOriginal
  <2> QED BY <2>1, <2>2 DEF Positions, Unreduced, UntriedAreEmpty, ReducedShowsTheOriginalDifference
<1>3. CASE OriginalCrashes \/ Fail
  BY <1>3 DEF OriginalCrashes, Fail, Positions, Unreduced, UntriedAreEmpty,
              ReducedShowsTheOriginalDifference
<1>4. CASE SkipOperation \/ KeepOperation
  <2>1. phase = "reduce" /\ NextOperation /\ UNCHANGED <<original, original_diff, variations>>
    BY <1>4 DEF SkipOperation, KeepOperation
  <2>2. ReducedShowsTheOriginalDifference'
    BY <1>4 DEF SkipOperation, KeepOperation, ReducedShowsTheOriginalDifference
  <2> QED BY <2>1, <2>2, GoesOn
<1>5. CASE DropOperation
  <2>1. phase = "reduce" /\ NextOperation /\ UNCHANGED <<original, original_diff, variations>>
    BY <1>5 DEF DropOperation
  <2>2. PICK shown \in Shown : /\ SameDiff(original_diff, shown)
                               /\ bugcase' = workload /\ reduced' = {Report(workload, shown)}
    BY <1>5 DEF DropOperation
  <2>3. Shows(shown) = Shows(original_diff)
    BY <2>2, SameDiffShows
  <2>4. ReducedShowsTheOriginalDifference'
    <3>1. PICK report : report = Report(workload, shown)
      OBVIOUS
    <3>2. report.input = workload /\ report.shown = shown
      BY <3>1 DEF Report
    <3>3. reduced' = {report}
      BY <2>2, <3>1
    <3>4. Shows(original_diff)' = Shows(original_diff)
      BY <2>1 DEF Shows
    <3> QED BY <2>2, <2>3, <3>2, <3>3, <3>4 DEF ReducedShowsTheOriginalDifference
  <2> QED BY <2>1, <2>4, GoesOn
<1>6. CASE SaveVariation
  <2>1. phase = "reduce" /\ NextOperation /\ UNCHANGED <<original, original_diff>>
    BY <1>6 DEF SaveVariation
  <2>2. /\ DOMAIN variations' = DOMAIN variations
        /\ \A i \in DOMAIN variations : i # idx => variations'[i] = variations[i]
    BY <1>6 DEF SaveVariation
  <2>3. \/ phase' = "done" /\ idx' = idx
        \/ phase' = "reduce" /\ idx' = idx - 1
    BY <2>1 DEF NextOperation
  <2>4. Positions' /\ Unreduced'
    BY <2>1, <2>2, <2>3 DEF Positions, Unreduced
  <2>5. UntriedAreEmpty'
    BY <2>1, <2>2, <2>3 DEF Positions, UntriedAreEmpty
  <2>6. ReducedShowsTheOriginalDifference'
    BY <1>6 DEF SaveVariation, ReducedShowsTheOriginalDifference
  <2> QED BY <2>4, <2>5, <2>6
<1>7. UNCHANGED vars => UNCHANGED reduction
  BY DEF vars
<1>8. TestOriginal \/ TryWithout \/ Test \/ Finished => UNCHANGED reduction
  BY <1>7 DEF TestOriginal, TryWithout, Test, Finished
<1> QED BY <1>1, <1>2, <1>3, <1>4, <1>5, <1>6, <1>7, <1>8 DEF Next

(* What the reducer saves as "reduced" shows the difference that the        *)
(* workload it was given showed (reducer.rs:95-115, 188-213).               *)
THEOREM ReductionsShowTheOriginalDifference == Spec => []ReducedShowsTheOriginalDifference
<1>1. IInv => ReducedShowsTheOriginalDifference
  BY DEF IInv
<1> QED BY InitInv, NextInv, <1>1, PTL DEF Spec

(* No variation is overwritten by another one (reducer.rs:91, 126-181).     *)
THEOREM NoVariationIsLost == Spec => VariationsAreKept
<1> DEFINE Kept == \A i \in DOMAIN variations : variations[i] # {} => variations'[i] = variations[i]
<1>1. ASSUME IInv, [Next]_vars
      PROVE  [Kept]_vars
  <2>1. CASE SaveVariation
    <3>1. phase = "reduce" /\ \A i \in DOMAIN variations : i # idx => variations'[i] = variations[i]
      BY <2>1 DEF SaveVariation
    <3> QED BY <1>1, <3>1 DEF IInv, Positions, UntriedAreEmpty
  <2>2. CASE variations' = variations
    BY <2>2
  <2>3. UNCHANGED reduction => variations' = variations
    BY DEF reduction
  <2>4. \/ SaveVariation \/ variations' = variations \/ UNCHANGED vars
    BY <1>1, <2>3 DEF Next, TestOriginal, JudgeOriginal, OriginalCrashes, TryWithout, SkipOperation,
                      KeepOperation, DropOperation, Test, Fail, Finished
  <2> QED BY <2>1, <2>2, <2>4
<1>2. Spec => [][Kept]_vars
  BY <1>1, InitInv, NextInv, PTL DEF Spec
<1> QED BY <1>2 DEF VariationsAreKept

(***************************************************************************)
(* What is left of the workload.                                            *)
(***************************************************************************)
(* All of a workload is a part of it.                                       *)
LEMMA WholeIsPart ==
  ASSUME NEW ops \in Seq(Operation)
  PROVE  IsSubsequence(ops, ops)
<1>1. PICK at : at = [i \in DOMAIN ops |-> i]
  OBVIOUS
<1>2. at \in [DOMAIN ops -> DOMAIN ops] /\ \A i \in DOMAIN ops : at[i] = i
  BY <1>1
<1> QED BY <1>2 DEF IsSubsequence

(* With one operation less, a part is still a part.                         *)
LEMMA LessIsPart ==
  ASSUME NEW long \in Seq(Operation), NEW part \in Seq(Operation), IsSubsequence(part, long),
         NEW short \in Seq(Operation), NEW i \in 1 .. Len(part), OneGone(short, part, i)
  PROVE  IsSubsequence(short, long)
<1>1. PICK at \in [DOMAIN part -> DOMAIN long] :
        /\ \A j, k \in DOMAIN part : j < k => at[j] < at[k]
        /\ \A k \in DOMAIN part : Anonymous(part[k]) = Anonymous(long[at[k]])
  BY DEF IsSubsequence
<1>2. PICK n \in Nat : n = Len(short) /\ Len(part) = n + 1
  BY DEF OneGone
<1>3. DOMAIN short = 1 .. n /\ DOMAIN part = 1 .. n + 1 /\ i \in 1 .. n + 1
  BY <1>2
<1>4. PICK from : from = [k \in 1 .. n |-> IF k < i THEN k ELSE k + 1]
  OBVIOUS
<1>5. /\ \A k \in 1 .. n : from[k] \in 1 .. n + 1
      /\ \A j, k \in 1 .. n : j < k => from[j] < from[k]
  BY <1>3, <1>4
<1>6. \A k \in 1 .. n : Anonymous(short[k]) = Anonymous(part[from[k]])
  BY <1>2, <1>4 DEF OneGone
<1>7. PICK back : back = [k \in 1 .. n |-> at[from[k]]]
  OBVIOUS
<1>8. back \in [DOMAIN short -> DOMAIN long]
  BY <1>1, <1>3, <1>5, <1>7
<1>9. \A j, k \in DOMAIN short : j < k => back[j] < back[k]
  BY <1>1, <1>3, <1>5, <1>7
<1>10. \A k \in DOMAIN short : Anonymous(short[k]) = Anonymous(long[back[k]])
  BY <1>1, <1>3, <1>5, <1>6, <1>7
<1> QED BY <1>8, <1>9, <1>10 DEF IsSubsequence

(* A test runs the workload it was started with until it is judged.         *)
LEMMA RunKeepsWorkload ==
  ASSUME RunTest
  PROVE  workload' = workload /\ stage # "idle"
<1>1. stage \in FileSystems => stage # "idle"
  BY DEF FileSystems
<1>2. ASSUME NEW fns, Calls(fns)
      PROVE  stage # "idle"
  BY <1>1, <1>2 DEF Calls
<1>3. ASSUME NEW r, NEW number, NEW through, AppendTrace(r, number, through)
      PROVE  workload' = workload
  BY <1>3 DEF AppendTrace
<1>4. DoOnPath \/ DoCreate \/ DoOpen => workload' = workload /\ stage # "idle"
  BY <1>2, <1>3 DEF DoOnPath, DoCreate, DoOpen
<1>5. DoClose \/ DoFSync \/ DoTransfer => workload' = workload /\ stage # "idle"
  BY <1>2, <1>3 DEF DoClose, DoFSync, DoTransfer
<1>6. DoTransferTooLarge \/ EndOfTest \/ TestCrashes => workload' = workload /\ stage # "idle"
  BY <1>1, <1>2 DEF DoTransferTooLarge, EndOfTest, TestCrashes
<1> QED BY <1>4, <1>5, <1>6 DEF RunTest

(* The workload left is a recording, and a part of the original one; so is  *)
(* the workload under test, which is all of it at first and lacks the       *)
(* operation at the index then.                                             *)
Left ==
  /\ original \in Seq(Operation)
  /\ Recording(bugcase) /\ IsSubsequence(bugcase, original)
  /\ phase = "first" => bugcase = original
  /\ phase = "reduce" => idx \in 1 .. Len(bugcase)

UnderTest ==
  stage # "idle" =>
    Recording(workload) /\ (phase = "reduce" => OneGone(workload, bugcase, idx))

(* They are so at the start.                                                *)
LEMMA InitLeft == Init => Left /\ UnderTest
<1> SUFFICES ASSUME Init
             PROVE  Left /\ UnderTest
  OBVIOUS
<1>1. Recording(original)
  BY ReducerAssumption DEF Init, Recording
<1>2. original \in Seq(Operation) /\ IsSubsequence(original, original)
  BY <1>1, WholeIsPart DEF Recording
<1>3. Left
  BY <1>1, <1>2 DEF Init, Left
<1>4. UnderTest
  BY DEF Init, ExecutorInit, UnderTest
<1> QED BY <1>3, <1>4

(* A test starts with such a workload.                                      *)
LEMMA StartsUnderTest ==
  ASSUME Left, TestOriginal \/ TryWithout
  PROVE  UnderTest'
<1>1. CASE TestOriginal
  <2>1. workload' = original /\ phase = "first" /\ phase' = phase
    BY <1>1 DEF TestOriginal, StartTest, reduction
  <2>2. Recording(original)
    BY <2>1 DEF Left
  <2> QED BY <2>1, <2>2 DEF UnderTest
<1>2. CASE TryWithout
  <2>1. PICK out : out = RemoveAt(bugcase, idx) /\ out.err = Ok /\ workload' = out.fs.recording
    BY <1>2 DEF TryWithout, StartTest
  <2>2. phase = "reduce" /\ bugcase' = bugcase /\ idx' = idx /\ idx \in 1 .. Len(bugcase)
    BY <1>2 DEF TryWithout, reduction, Left
  <2>3. bugcase \in Seq(Operation)
    BY DEF Left, Recording
  <2>4. out = Replay(NewFS, Without(bugcase, idx))
    BY <2>1 DEF RemoveAt, Seqs!RemoveAt, Without
  <2>5. PICK n : n = Len(bugcase) - 1
    OBVIOUS
  <2>6. n \in Nat /\ Len(bugcase) = n + 1 /\ idx \in 1 .. n + 1
    BY <2>2, <2>3, <2>5
  <2>7. PICK short : short = workload'
    OBVIOUS
  <2>8. Recording(short) /\ OneGone(short, bugcase, idx)
    BY <2>1, <2>3, <2>4, <2>6, <2>7, RemovalReplays
  <2> QED BY <2>2, <2>7, <2>8 DEF UnderTest
<1> QED BY <1>1, <1>2

(* The loop goes on with the same workload.                                 *)
LEMMA GoesOnWithIt ==
  ASSUME Left, phase = "reduce", NextOperation, UNCHANGED <<original, bugcase>>
  PROVE  Left'
<1>1. idx \in 1 .. Len(bugcase) /\ Len(bugcase) \in Nat
  BY DEF Left, Recording
<1>2. \/ phase' = "done"
      \/ phase' = "reduce" /\ idx' \in 1 .. Len(bugcase)
  BY <1>1 DEF NextOperation
<1> QED BY <1>2 DEF Left

(* Or with the shorter one.                                                 *)
LEMMA GoesOnWithLess ==
  ASSUME Left, UnderTest, DropOperation
  PROVE  Left'
<1>1. /\ phase = "reduce" /\ stage = "done" /\ NextOperation /\ original' = original
      /\ bugcase' = workload
  BY DEF DropOperation
<1>2. Recording(workload) /\ OneGone(workload, bugcase, idx)
  BY <1>1 DEF UnderTest
<1>3. IsSubsequence(workload, original)
  BY <1>1, <1>2, LessIsPart DEF Left, Recording
<1>4. Len(workload) \in Nat /\ Len(bugcase) = Len(workload) + 1 /\ idx \in 1 .. Len(bugcase)
  BY <1>1, <1>2 DEF Left, Recording, OneGone
<1>5. \/ phase' = "done"
      \/ phase' = "reduce" /\ idx' \in 1 .. Len(workload)
  BY <1>1, <1>4 DEF NextOperation
<1>6. PICK w : w = workload
  OBVIOUS
<1>7. bugcase' = w /\ Recording(w) /\ IsSubsequence(w, original)
  BY <1>1, <1>2, <1>3, <1>6
<1> QED BY <1>1, <1>5, <1>6, <1>7 DEF Left

(* Every step keeps both.                                                   *)
LEMMA NextLeft == Left /\ UnderTest /\ [Next]_vars => Left' /\ UnderTest'
<1> SUFFICES ASSUME Left, UnderTest, [Next]_vars
             PROVE  Left' /\ UnderTest'
  OBVIOUS
<1>1. UNCHANGED reduction => Left'
  BY DEF reduction, Left
<1>2. ASSUME Cleared
      PROVE  UnderTest'
  BY <1>2 DEF Cleared, UnderTest
<1>3. CASE UNCHANGED vars
  BY <1>1, <1>3 DEF vars, reduction, executor, UnderTest
<1>4. CASE TestOriginal \/ TryWithout
  BY <1>1, <1>4, StartsUnderTest DEF TestOriginal, TryWithout
<1>5. CASE Test
  <2>1. UNCHANGED reduction /\ workload' = workload /\ stage # "idle"
    BY <1>5, RunKeepsWorkload DEF Test
  <2> QED BY <1>1, <2>1 DEF reduction, UnderTest
<1>6. CASE JudgeOriginal
  <2>1. /\ phase = "first" /\ Cleared /\ UNCHANGED <<original, bugcase>> /\ idx' = Len(original)
        /\ phase' \in {"done", "panicked", "reduce"}
        /\ phase' = "reduce" => original # <<>>
    BY <1>6 DEF JudgeOriginal
  <2>2. original # <<>> => Len(original) \in 1 .. Len(original)
    BY DEF Left
  <2>3. Left'
    BY <2>1, <2>2 DEF Left
  <2> QED BY <1>2, <2>1, <2>3
<1>7. CASE OriginalCrashes \/ Fail
  BY <1>2, <1>7 DEF OriginalCrashes, Fail, Left
<1>8. CASE SkipOperation
  <2>1. phase = "reduce" /\ stage = "idle" /\ NextOperation /\ UNCHANGED <<executor, original, bugcase>>
    BY <1>8 DEF SkipOperation
  <2>2. Left'
    BY <2>1, GoesOnWithIt
  <2> QED BY <2>1, <2>2 DEF executor, UnderTest
<1>9. CASE KeepOperation \/ SaveVariation
  <2>1. phase = "reduce" /\ Cleared /\ NextOperation /\ UNCHANGED <<original, bugcase>>
    BY <1>9 DEF KeepOperation, SaveVariation
  <2> QED BY <1>2, <2>1, GoesOnWithIt
<1>10. CASE DropOperation
  BY <1>2, <1>10, GoesOnWithLess DEF DropOperation
<1> QED BY <1>3, <1>4, <1>5, <1>6, <1>7, <1>8, <1>9, <1>10 DEF Next, Finished

(* A reduction leaves some of the operations it was given, in their order,  *)
(* which make a valid workload by themselves (reducer.rs:74-139,            *)
(* mutator.rs:108-129).                                                     *)
THEOREM ReductionsAreParts == Spec => []BugcaseIsPartOfOriginal
<1>1. Left => BugcaseIsPartOfOriginal
  BY DEF Left, Recording, BugcaseIsPartOfOriginal
<1> QED BY InitLeft, NextLeft, <1>1, PTL DEF Spec

(***************************************************************************)
(* The process that runs the test, as a function of how its calls end.      *)
(***************************************************************************)
LowestIn(numbers) ==
  CHOOSE n \in FirstFree .. FirstFree + Cardinality(numbers) :
    /\ n \notin numbers
    /\ \A m \in FirstFree .. n - 1 : m \in numbers

(* The number in the row of a call, and the open it reaches.                *)
Number(open, call) == IF call.fn \in {"Create", "Open"} THEN LowestIn(DOMAIN open) ELSE 0

Reaches(fds, open, call) ==
  IF call.fn \in OnDescriptor /\ fds[call.var] \in DOMAIN open THEN open[fds[call.var]] ELSE NoFile

(* Its variables and its table after the k-th call.                         *)
FdAfter(fds, open, call, r) ==
  IF call.fn = "Open"
  THEN [fds EXCEPT ![call.var] = IF r.errno = 0 THEN LowestIn(DOMAIN open) ELSE -1]
  ELSE fds

OpenAfter(fds, open, call, r, k) ==
  IF call.fn = "Open" /\ r.errno = 0
  THEN [n \in DOMAIN open \cup {LowestIn(DOMAIN open)} |->
          IF n = LowestIn(DOMAIN open) THEN k ELSE open[n]]
  ELSE IF call.fn = "Close" THEN [n \in DOMAIN open \ {fds[call.var]} |-> open[n]]
  ELSE open

(* The next call of the test is made, and ends so.                          *)
Made(r) ==
  /\ stage \in FileSystems /\ Position \in DOMAIN workload
  /\ Ends(This.fn, r)
  /\ AppendTrace(r, Number(open_fds, This), Reaches(fd, open_fds, This))
  /\ fd' = FdAfter(fd, open_fds, This, r)
  /\ open_fds' = OpenAfter(fd, open_fds, This, r, Position)

(* There always is a lowest free number.                                    *)
LEMMA LowestIsFree ==
  ASSUME NEW numbers, IsFiniteSet(numbers)
  PROVE  LowestIn(numbers) \in Nat \ {0} /\ LowestIn(numbers) \notin numbers
<1>1. PICK c \in Nat : c = Cardinality(numbers)
  BY FS_CardinalityType
<1>2. PICK first \in Nat : first = FirstFree /\ first # 0
  BY ExecutorAssumption
<1>3. PICK range : range = first .. first + c
  OBVIOUS
<1>4. IsFiniteSet(range) /\ Cardinality(range) = c + 1
  <2>1. first \in Int /\ first + c \in Int /\ ~ first > first + c /\ (first + c) - first + 1 = c + 1
    BY <1>1, <1>2
  <2> QED BY <1>3, <2>1, FS_Interval
<1>5. range \ numbers # {}
  <2>1. range \notin SUBSET numbers
    BY <1>1, <1>4, FS_Subset
  <2> QED BY <2>1
<1>6. range \ numbers \subseteq Nat
  BY <1>1, <1>2, <1>3
<1>7. PICK n \in range \ numbers : \A m \in range \ numbers : n <= m
  BY <1>5, <1>6, LeastNat
<1>8. ASSUME NEW m \in first .. n - 1
      PROVE  m \in numbers
  <2>1. n \in Nat /\ n <= first + c
    BY <1>1, <1>2, <1>3, <1>7
  <2>2. m \in range /\ ~ n <= m
    BY <1>1, <1>2, <1>3, <2>1
  <2> QED BY <1>7, <2>2
<1>9. \E x \in FirstFree .. FirstFree + Cardinality(numbers) :
        /\ x \notin numbers
        /\ \A m \in FirstFree .. x - 1 : m \in numbers
  BY <1>1, <1>2, <1>3, <1>7, <1>8
<1>10. LowestIn(numbers) \in first .. first + c /\ LowestIn(numbers) \notin numbers
  BY <1>1, <1>2, <1>9 DEF LowestIn
<1> QED BY <1>1, <1>2, <1>10

(* Every call but one that exits makes such a step.                         *)
LEMMA CallsAreMade ==
  ASSUME RunTest
  PROVE  \/ \E r : Made(r)
         \/ DoTransferTooLarge \/ EndOfTest \/ TestCrashes
<1> DEFINE call == This
<1>1. LowestFree = LowestIn(DOMAIN open_fds)
  BY DEF LowestFree, LowestIn
<1>2. ASSUME stage \in FileSystems, NEW kind \in CallKinds, NEW r \in Responses[stage][kind]
      PROVE  Ends(kind, r)
  BY <1>2, ExecutorAssumption
<1>3. ASSUME NEW kind \in OnDescriptor
      PROVE  Ends(kind, Response(kind, EBADF, 0, NoData))
  <2>1. PICK r : r = Response(kind, EBADF, 0, NoData)
    OBVIOUS
  <2>2. r = [syscall |-> kind, errno |-> 9, count |-> 0, data |-> NoData]
    BY <2>1 DEF Response, EBADF
  <2>3. kind \notin {"Create", "Remove"}
    BY DEF OnDescriptor
  <2>5. r.syscall = kind /\ r.errno = 9 /\ r.count = 0 /\ r.data = NoData
    BY <2>2
  <2>6. Ends(kind, r)
    BY <2>2, <2>3, <2>5 DEF Ends, Response
  <2> QED BY <2>1, <2>6
<1>4. CASE DoOnPath
  <2>1. PICK r \in Responses[stage][call.fn] : AppendTrace(r, 0, NoFile)
    BY <1>4 DEF DoOnPath
  <2>2. stage \in FileSystems /\ Position \in DOMAIN workload /\ call.fn \in OnPaths /\ UNCHANGED <<fd, open_fds>>
    BY <1>4 DEF DoOnPath, Calls
  <2>3. call.fn \in CallKinds /\ call.fn \notin OnDescriptor /\ call.fn \notin {"Create", "Open"}
    BY <2>2 DEF OnPaths, CallKinds, OnDescriptor
  <2>4. call.fn # "Close" /\ call.fn # "Open"
    BY <2>3 DEF OnDescriptor
  <2>5. Made(r)
    BY <1>2, <2>1, <2>2, <2>3, <2>4 DEF Made, Number, Reaches, FdAfter, OpenAfter
  <2> QED BY <2>5
<1>5. CASE DoCreate
  <2>1. PICK r \in Responses[stage].Create : AppendTrace(r, LowestFree, NoFile)
    BY <1>5 DEF DoCreate
  <2>2. stage \in FileSystems /\ Position \in DOMAIN workload /\ call.fn = "Create" /\ UNCHANGED <<fd, open_fds>>
    BY <1>5 DEF DoCreate, Calls
  <2>3. "Create" \in CallKinds /\ "Create" \notin OnDescriptor
    BY DEF CallKinds, OnDescriptor
  <2>4. Made(r)
    BY <1>1, <1>2, <2>1, <2>2, <2>3 DEF Made, Number, Reaches, FdAfter, OpenAfter
  <2> QED BY <2>4
<1>6. CASE DoOpen
  <2>1. PICK r \in Responses[stage].Open :
          /\ AppendTrace(r, LowestFree, NoFile)
          /\ IF r.errno = 0
             THEN /\ fd' = [fd EXCEPT ![call.var] = LowestFree]
                  /\ open_fds' = [n \in DOMAIN open_fds \cup {LowestFree} |->
                                    IF n = LowestFree THEN Position ELSE open_fds[n]]
             ELSE fd' = [fd EXCEPT ![call.var] = -1] /\ UNCHANGED open_fds
    BY <1>6 DEF DoOpen
  <2>2. stage \in FileSystems /\ Position \in DOMAIN workload /\ call.fn = "Open"
    BY <1>6 DEF DoOpen, Calls
  <2>3. "Open" \in CallKinds /\ "Open" \notin OnDescriptor /\ "Open" # "Close"
    BY DEF CallKinds, OnDescriptor
  <2>4. fd' = FdAfter(fd, open_fds, call, r) /\ open_fds' = OpenAfter(fd, open_fds, call, r, Position)
    BY <1>1, <2>1, <2>2, <2>3 DEF FdAfter, OpenAfter
  <2>5. AppendTrace(r, Number(open_fds, call), Reaches(fd, open_fds, call))
    BY <1>1, <2>1, <2>2, <2>3 DEF Number, Reaches
  <2>6. Made(r)
    BY <1>2, <2>1, <2>2, <2>3, <2>4, <2>5 DEF Made
  <2> QED BY <2>6
<1>7. CASE DoClose \/ DoFSync \/ DoTransfer
  <2>1. PICK r \in Answers(fd[call.var]) : AppendTrace(r, 0, Through(fd[call.var]))
    BY <1>7 DEF DoClose, DoFSync, DoTransfer
  <2>2. stage \in FileSystems /\ Position \in DOMAIN workload /\ call.fn \in OnDescriptor
    BY <1>7 DEF DoClose, DoFSync, DoTransfer, Calls, OnDescriptor
  <2>3. call.fn \in CallKinds /\ call.fn \notin {"Create", "Open"}
    BY <2>2 DEF CallKinds, OnDescriptor
  <2>4. Ends(call.fn, r)
    BY <1>2, <1>3, <2>1, <2>2, <2>3 DEF Answers
  <2>5. fd' = fd
    BY <1>7 DEF DoClose, DoFSync, DoTransfer
  <2>6. open_fds' = OpenAfter(fd, open_fds, call, r, Position)
    BY <1>7, <2>3 DEF DoClose, DoFSync, DoTransfer, Calls, OpenAfter, Fns!Restrict
  <2>7. AppendTrace(r, Number(open_fds, call), Reaches(fd, open_fds, call))
    BY <2>1, <2>2, <2>3 DEF Number, Reaches, Through
  <2>8. Made(r)
    BY <2>2, <2>3, <2>4, <2>5, <2>6, <2>7 DEF Made, FdAfter
  <2> QED BY <2>8
<1> QED BY <1>4, <1>5, <1>6, <1>7 DEF RunTest

(* Every variable the program uses is declared.                             *)
Declared(ops) ==
  \A i \in DOMAIN ops :
    ops[i].kind \in OnDescriptor \cup {"Open"} => ops[i].des \in 1 .. DescriptorsN(ops)

(* So they are in a workload that is a recording (encode.rs:17-31).         *)
LEMMA RecordingDeclares ==
  ASSUME NEW ops, Recording(ops)
  PROVE  Declared(ops) /\ DescriptorsN(ops) \in Nat
<1>1. PICK c \in Nat : \A i \in DOMAIN ops : ops[i].kind = "Open" => ops[i].des \in 1 .. c
  BY RecordingThreaded
<1>2. Threaded(ops) /\ ops \in Seq(Operation)
  BY RecordingThreaded DEF Recording
<1>3. PICK D : D = Opened(ops)
  OBVIOUS
<1>4. \A d \in D : d \in 1 .. c
  BY <1>1, <1>3 DEF Opened
<1>5. \A i \in DOMAIN ops : ops[i].kind \in OnDescriptor \cup {"Open"} => ops[i].des \in D
  <2>1. ASSUME NEW i \in DOMAIN ops, ops[i].kind = "Open"
        PROVE  ops[i].des \in D
    BY <1>3, <2>1 DEF Opened
  <2>2. ASSUME NEW i \in DOMAIN ops, ops[i].kind \in OnDescriptor
        PROVE  ops[i].des \in D
    <3>1. PICK j \in 1 .. i - 1 : ops[j].kind = "Open" /\ ops[j].des = ops[i].des
      BY <1>2, <2>2 DEF Threaded, StillOpen, UsesDescriptor, OnDescriptor
    <3>2. j \in DOMAIN ops
      BY <1>2, <3>1
    <3> QED BY <1>3, <3>1, <3>2 DEF Opened
  <2> QED BY <2>1, <2>2
<1>6. CASE D = {}
  BY <1>3, <1>5, <1>6 DEF Declared, DescriptorsN
<1>7. CASE D # {}
  <2>1. PICK bounds : bounds = {b \in Nat : \A d \in D : d <= b}
    OBVIOUS
  <2>2. c \in bounds
    BY <1>1, <1>4, <2>1
  <2>3. PICK b \in bounds : \A a \in bounds : b <= a
    BY <2>1, <2>2, LeastNat
  <2>4. b \in D
    <3>1. SUFFICES ASSUME b \notin D
                   PROVE  FALSE
      OBVIOUS
    <3>2. b \in Nat /\ \A d \in D : d \in Nat /\ d # 0 /\ d <= b /\ d # b
      BY <1>4, <2>1, <3>1
    <3>3. b # 0
      BY <1>7, <3>2
    <3>4. b - 1 \in Nat /\ ~ b <= b - 1 /\ \A d \in D : d <= b - 1
      BY <3>2, <3>3
    <3>5. b - 1 \in bounds
      BY <2>1, <3>4
    <3> QED BY <2>3, <3>4, <3>5
  <2>5. \E n \in D : \A m \in D : m <= n
    BY <2>1, <2>4
  <2>6. PICK n \in D : n = DescriptorsN(ops) /\ \A m \in D : m <= n
    BY <1>3, <1>7, <2>5 DEF DescriptorsN
  <2>7. \A d \in D : d \in 1 .. n
    BY <1>4, <2>6
  <2> QED BY <1>4, <1>5, <2>6, <2>7 DEF Declared
<1> QED BY <1>6, <1>7

(* OpenOf, for any workload.                                                *)
OpenBefore(ops, i) ==
  CHOOSE j \in 1 .. i - 1 :
    /\ ops[j].kind = "Open" /\ ops[j].des = ops[i].des
    /\ \A k \in j + 1 .. i - 1 : ops[k].kind = "Open" => ops[k].des # ops[i].des

(* No call up to the n-th closes the descriptor of the j-th.                *)
StaysOpen(ops, j, n) == \A k \in j + 1 .. n : ops[k].kind = "Close" => ops[k].des # ops[j].des

(* A call through a descriptor has one open of it before, and no close.     *)
LEMMA OpenBeforeIsOpen ==
  ASSUME NEW ops \in Seq(Operation), Threaded(ops), NEW i \in DOMAIN ops, ops[i].kind \in OnDescriptor,
         NEW j, j = OpenBefore(ops, i)
  PROVE  /\ j \in 1 .. i - 1 /\ ops[j].kind = "Open" /\ ops[j].des = ops[i].des
         /\ StaysOpen(ops, j, i - 1)
<1>1. PICK o \in 1 .. i - 1 : /\ ops[o].kind = "Open" /\ ops[o].des = ops[i].des
                              /\ \A k \in o + 1 .. i - 1 : ops[k].kind = "Close" => ops[k].des # ops[i].des
  BY DEF Threaded, StillOpen, UsesDescriptor, OnDescriptor
<1>2. \A k \in 1 .. i - 1 : k \in DOMAIN ops
  OBVIOUS
<1>3. \A k \in 1 .. i - 1 : ops[k].kind = "Open" /\ ops[k].des = ops[i].des => k = o
  BY <1>1, <1>2 DEF Threaded
<1>4. \A k \in o + 1 .. i - 1 : k \in 1 .. i - 1 /\ k # o
  BY <1>1
<1>5. \A k \in o + 1 .. i - 1 : ops[k].kind = "Open" => ops[k].des # ops[i].des
  BY <1>3, <1>4
<1>6. j \in 1 .. i - 1 /\ ops[j].kind = "Open" /\ ops[j].des = ops[i].des
  BY <1>1, <1>5 DEF OpenBefore
<1>7. j = o
  BY <1>3, <1>6
<1> QED BY <1>1, <1>6, <1>7 DEF StaysOpen

(* Sequences of anything.                                                   *)
IsSeq(s) == \E S : s \in Seq(S)

Longer(s, e) == Append(s, e)

(* The first n elements are the same.                                       *)
Alike(n, s, t) == \A j \in 1 .. n : t[j] = s[j]

(* These are the answers after the call at n + 1 has ended so.               *)
IsNext(ops, n, r, ans, more) ==
  /\ n \in Nat /\ n + 1 \in DOMAIN ops /\ Len(ans) = n
  /\ Len(more) = n + 1 /\ more[n + 1].response = r /\ Alike(n, ans, more)

LEMMA OneMore ==
  ASSUME NEW s, IsSeq(s), NEW e, NEW t, t = Longer(s, e)
  PROVE  /\ IsSeq(t) /\ Len(s) \in Nat /\ Len(t) = Len(s) + 1 /\ t[Len(s) + 1] = e
         /\ DOMAIN s = 1 .. Len(s) /\ DOMAIN t = 1 .. Len(s) + 1
         /\ Alike(Len(s), s, t)
<1>1. PICK S : s \in Seq(S)
  BY DEF IsSeq
<1>2. PICK T : T = S \cup {e}
  OBVIOUS
<1>3. s \in Seq(T) /\ e \in T
  BY <1>1, <1>2
<1>4. t = Append(s, e)
  BY DEF Longer
<1>5. t \in Seq(T) /\ Len(t) = Len(s) + 1
  BY <1>3, <1>4
<1>6. IsSeq(t)
  BY <1>5 DEF IsSeq
<1>7. t[Len(s) + 1] = e /\ \A j \in 1 .. Len(s) : t[j] = s[j]
  BY <1>3, <1>4
<1> QED BY <1>3, <1>5, <1>6, <1>7 DEF Alike

(* What an open that has been made means for the process.                   *)
OpenKept(ops, ans, fds, open, j) ==
  /\ ans[j].response.errno # 0 => fds[ops[j].des] = -1
  /\ ans[j].response.errno = 0 /\ StaysOpen(ops, j, Len(ans)) =>
       fds[ops[j].des] \in DOMAIN open /\ open[fds[ops[j].des]] = j

(* The process after these answers.                                         *)
Faithful(ops, ans, fds, open) ==
  /\ fds \in [1 .. DescriptorsN(ops) -> Int]
  /\ IsFiniteSet(DOMAIN open) /\ DOMAIN open \subseteq Nat
  /\ \A j \in 1 .. Len(ans) : ops[j].kind = "Open" => OpenKept(ops, ans, fds, open, j)

(* A call through a descriptor reaches what its open has opened.            *)
LEMMA ReachesItsFile ==
  ASSUME NEW ops \in Seq(Operation), Threaded(ops), NEW ans, NEW n \in Nat, Len(ans) = n,
         n + 1 \in DOMAIN ops, ops[n + 1].kind \in OnDescriptor, NEW j, j = OpenBefore(ops, n + 1),
         NEW fds, NEW open, Faithful(ops, ans, fds, open)
  PROVE  Reaches(fds, open, EncodeOp(ops[n + 1])) = IF ans[j].response.errno = 0 THEN j ELSE NoFile
<1>1. /\ j \in 1 .. n /\ ops[j].kind = "Open" /\ ops[j].des = ops[n + 1].des
      /\ StaysOpen(ops, j, n)
  <2>1. n + 1 - 1 = n
    OBVIOUS
  <2> QED BY <2>1, OpenBeforeIsOpen
<1>2. OpenKept(ops, ans, fds, open, j)
  BY <1>1 DEF Faithful
<1>3. PICK d : d = ops[n + 1].des
  OBVIOUS
<1>4. EncodeOp(ops[n + 1]).var = d /\ EncodeOp(ops[n + 1]).fn \in OnDescriptor
  BY <1>3 DEF EncodeOp
<1>5. ans[j].response.errno # 0 => fds[d] = -1 /\ -1 \notin DOMAIN open
  BY <1>1, <1>2, <1>3 DEF OpenKept, Faithful
<1>6. ans[j].response.errno = 0 => fds[d] \in DOMAIN open /\ open[fds[d]] = j
  BY <1>1, <1>2, <1>3 DEF OpenKept
<1> QED BY <1>4, <1>5, <1>6 DEF Reaches

(* The process goes on so, whatever the call and however it ends.           *)
LEMMA FaithfulGoesOn ==
  ASSUME NEW ops \in Seq(Operation), Threaded(ops), Declared(ops), DescriptorsN(ops) \in Nat,
         NEW n, NEW r, NEW ans, NEW more, IsNext(ops, n, r, ans, more),
         NEW fds, NEW open, Faithful(ops, ans, fds, open)
  PROVE  Faithful(ops, more, FdAfter(fds, open, EncodeOp(ops[n + 1]), r),
                  OpenAfter(fds, open, EncodeOp(ops[n + 1]), r, n + 1))
<1>0. /\ n \in Nat /\ n + 1 \in DOMAIN ops /\ Len(ans) = n
      /\ Len(more) = n + 1 /\ more[n + 1].response = r /\ Alike(n, ans, more)
  BY DEF IsNext
<1> SUFFICES ASSUME n \in Nat, n + 1 \in DOMAIN ops, Len(ans) = n,
                    Len(more) = n + 1, more[n + 1].response = r, Alike(n, ans, more),
                    NEW call, call = EncodeOp(ops[n + 1]),
                    NEW fds2, fds2 = FdAfter(fds, open, call, r),
                    NEW open2, open2 = OpenAfter(fds, open, call, r, n + 1)
             PROVE  Faithful(ops, more, fds2, open2)
  BY <1>0
<1>1. PICK low : low = LowestIn(DOMAIN open)
  OBVIOUS
<1>2. low \in Nat /\ low \notin DOMAIN open
  BY <1>1, LowestIsFree DEF Faithful
<1>3. PICK d : d = ops[n + 1].des
  OBVIOUS
<1>4. /\ call.fn = ops[n + 1].kind
      /\ call.fn \in OnDescriptor \cup {"Open"} => call.var = d /\ d \in 1 .. DescriptorsN(ops)
  BY <1>3 DEF EncodeOp, Declared
<1>5. \A j \in 1 .. n : j \in DOMAIN ops /\ n + 1 \in j + 1 .. n + 1 /\ j # n + 1
  OBVIOUS
<1>6. ASSUME NEW j \in 1 .. n, StaysOpen(ops, j, n + 1)
      PROVE  StaysOpen(ops, j, n) /\ (call.fn = "Close" => ops[j].des # d)
  BY <1>3, <1>4, <1>5, <1>6 DEF StaysOpen
<1>7. ASSUME NEW j \in 1 .. n, ops[j].kind = "Open"
      PROVE  /\ ops[j].des \in 1 .. DescriptorsN(ops)
             /\ call.fn = "Open" => ops[j].des # d
  BY <1>3, <1>4, <1>5, <1>7 DEF Declared, Threaded
<1>8. CASE call.fn = "Open"
  <2>1. call.fn # "Close"
    BY <1>8
  <2>2. PICK x \in Int : fds2 = [fds EXCEPT ![d] = x] /\ x = IF r.errno = 0 THEN low ELSE -1
    <3>1. call.var = d
      BY <1>4, <1>8
    <3>2. PICK x : x = IF r.errno = 0 THEN low ELSE -1
      OBVIOUS
    <3>3. x \in Int
      BY <1>2, <3>2
    <3>4. fds2 = [fds EXCEPT ![d] = x]
      BY <1>1, <1>8, <3>1, <3>2 DEF FdAfter
    <3> QED BY <3>2, <3>3, <3>4
  <2>3. fds2 \in [1 .. DescriptorsN(ops) -> Int] /\ fds2[d] = x /\ \A v \in 1 .. DescriptorsN(ops) : v # d => fds2[v] = fds[v]
    BY <1>4, <1>8, <2>2 DEF Faithful
  <2>4. r.errno = 0 => /\ DOMAIN open2 = DOMAIN open \cup {low} /\ open2[low] = n + 1
                       /\ \A m \in DOMAIN open : open2[m] = open[m]
    BY <1>1, <1>2, <1>8 DEF OpenAfter
  <2>5. r.errno # 0 => open2 = open
    BY <1>8, <2>1 DEF OpenAfter
  <2>6. IsFiniteSet(DOMAIN open2) /\ DOMAIN open2 \subseteq Nat
    <3>1. PICK D : D = DOMAIN open
      OBVIOUS
    <3>2. IsFiniteSet(D) /\ D \subseteq Nat /\ IsFiniteSet(D \cup {low})
      BY <3>1, FS_AddElement DEF Faithful
    <3> QED BY <1>2, <2>4, <2>5, <3>1, <3>2
  <2>7. ASSUME NEW j \in 1 .. n, ops[j].kind = "Open"
        PROVE  OpenKept(ops, more, fds2, open2, j)
    <3>1. OpenKept(ops, ans, fds, open, j) /\ more[j] = ans[j]
      BY <2>7 DEF Faithful, Alike
    <3>2. fds2[ops[j].des] = fds[ops[j].des]
      BY <1>7, <1>8, <2>3, <2>7
    <3>3. \A m \in DOMAIN open : m \in DOMAIN open2 /\ open2[m] = open[m]
      BY <2>4, <2>5
    <3> QED BY <1>6, <3>1, <3>2, <3>3 DEF OpenKept
  <2>8. OpenKept(ops, more, fds2, open2, n + 1)
    BY <1>3, <2>2, <2>3, <2>4 DEF OpenKept
  <2>9. \A j \in 1 .. n + 1 : j = n + 1 \/ j \in 1 .. n
    OBVIOUS
  <2> QED BY <2>3, <2>6, <2>7, <2>8, <2>9 DEF Faithful
<1>9. CASE call.fn # "Open"
  <2>1. fds2 = fds /\ ops[n + 1].kind # "Open"
    BY <1>4, <1>9 DEF FdAfter
  <2>2. CASE call.fn = "Close"
    <3>1. /\ DOMAIN open2 = DOMAIN open \ {fds[d]}
          /\ \A m \in DOMAIN open : m # fds[d] => open2[m] = open[m]
      BY <1>4, <1>9, <2>2 DEF OpenAfter, OnDescriptor
    <3>2. IsFiniteSet(DOMAIN open2) /\ DOMAIN open2 \subseteq Nat
      <4>1. PICK D, x : D = DOMAIN open /\ x = fds[d]
        OBVIOUS
      <4>2. IsFiniteSet(D) /\ D \subseteq Nat
        BY <4>1 DEF Faithful
      <4>3. IsFiniteSet(D \ {x})
        BY <4>2, FS_RemoveElement
      <4> QED BY <3>1, <4>1, <4>2, <4>3
    <3>3. PICK o : o = OpenBefore(ops, n + 1)
      OBVIOUS
    <3>4. o \in 1 .. n /\ ops[o].kind = "Open" /\ ops[o].des = d /\ StaysOpen(ops, o, n)
      <4>1. n + 1 - 1 = n /\ ops[n + 1].kind \in OnDescriptor
        BY <1>4, <2>2 DEF OnDescriptor
      <4> QED BY <1>3, <3>3, <4>1, OpenBeforeIsOpen
    <3>5. OpenKept(ops, ans, fds, open, o)
      BY <3>4 DEF Faithful
    <3>6. ASSUME NEW j \in 1 .. n, ops[j].kind = "Open"
          PROVE  OpenKept(ops, more, fds2, open2, j)
      <4>1. OpenKept(ops, ans, fds, open, j) /\ more[j] = ans[j]
        BY <3>6 DEF Faithful, Alike
      <4>2. ASSUME ans[j].response.errno = 0, StaysOpen(ops, j, n + 1)
            PROVE  fds[ops[j].des] \in DOMAIN open2 /\ open2[fds[ops[j].des]] = j
        <5>1. StaysOpen(ops, j, n) /\ ops[j].des # d
          BY <1>6, <2>2, <4>2
        <5>2. fds[ops[j].des] \in DOMAIN open /\ open[fds[ops[j].des]] = j
          BY <4>1, <4>2, <5>1 DEF OpenKept
        <5>3. j # o
          BY <3>4, <5>1
        <5>4. fds[ops[j].des] # fds[d]
          <6>1. ans[o].response.errno # 0 => fds[d] = -1 /\ -1 \notin DOMAIN open
            BY <3>4, <3>5 DEF OpenKept, Faithful
          <6>2. ans[o].response.errno = 0 => open[fds[d]] = o
            BY <3>4, <3>5 DEF OpenKept
          <6> QED BY <5>2, <5>3, <6>1, <6>2
        <5> QED BY <3>1, <5>2, <5>4
      <4> QED BY <2>1, <4>1, <4>2 DEF OpenKept
    <3>7. \A j \in 1 .. n + 1 : j = n + 1 \/ j \in 1 .. n
      OBVIOUS
    <3> QED BY <2>1, <3>2, <3>6, <3>7 DEF Faithful
  <2>3. CASE call.fn # "Close"
    <3>1. open2 = open
      BY <1>9, <2>3 DEF OpenAfter
    <3>2. ASSUME NEW j \in 1 .. n, ops[j].kind = "Open"
          PROVE  OpenKept(ops, more, fds2, open2, j)
      <4>1. OpenKept(ops, ans, fds, open, j) /\ more[j] = ans[j]
        BY <3>2 DEF Faithful, Alike
      <4> QED BY <1>6, <2>1, <3>1, <4>1 DEF OpenKept
    <3>3. \A j \in 1 .. n + 1 : j = n + 1 \/ j \in 1 .. n
      OBVIOUS
    <3> QED BY <2>1, <3>1, <3>2, <3>3 DEF Faithful
  <2> QED BY <2>2, <2>3
<1> QED BY <1>8, <1>9

(***************************************************************************)
(* The history of a process: what it was before each of its calls.          *)
(***************************************************************************)
RanCall(H, ops, ans, rws, k) ==
  /\ Ends(ops[k].kind, ans[k].response) /\ IsFiniteSet(DOMAIN H[k].open)
  /\ H[k + 1].fd = FdAfter(H[k].fd, H[k].open, EncodeOp(ops[k]), ans[k].response)
  /\ H[k + 1].open = OpenAfter(H[k].fd, H[k].open, EncodeOp(ops[k]), ans[k].response, k)
  /\ rws[k] = Row(k, EncodeOp(ops[k]), ans[k].response, Number(H[k].open, EncodeOp(ops[k])))

Ran(H, ops, ans, rws) ==
  /\ H[1].fd = Globals(ops) /\ H[1].open = Inherited
  /\ \A k \in 1 .. Len(ans) : RanCall(H, ops, ans, rws, k)

(* That of a process that has made no call yet.                             *)
LEMMA FreshProcess ==
  ASSUME NEW ops, DescriptorsN(ops) \in Nat, NEW ans, Len(ans) = 0, NEW rws
  PROVE  /\ Faithful(ops, ans, Globals(ops), Inherited)
         /\ \E H : Ran(H, ops, ans, rws) /\ H[1].fd = Globals(ops) /\ H[1].open = Inherited
<1>1. PICK first \in Nat : first = FirstFree /\ first # 0
  BY ExecutorAssumption
<1>2. DOMAIN Inherited = 0 .. first - 1 /\ IsFiniteSet(0 .. first - 1)
  BY <1>1, FS_Interval DEF Inherited
<1>3. Globals(ops) \in [1 .. DescriptorsN(ops) -> Int]
  BY DEF Globals
<1>4. Faithful(ops, ans, Globals(ops), Inherited)
  BY <1>1, <1>2, <1>3 DEF Faithful
<1>5. PICK p : p = [fd |-> Globals(ops), open |-> Inherited]
  OBVIOUS
<1>6. PICK H : H = [k \in {1} |-> p]
  OBVIOUS
<1>7. H[1].fd = Globals(ops) /\ H[1].open = Inherited
  BY <1>5, <1>6
<1> QED BY <1>4, <1>7 DEF Ran

(* That of a process after one more call.                                   *)
LEMMA RanGoesOn ==
  ASSUME NEW ops, NEW n, NEW r, NEW ans, NEW more, IsNext(ops, n, r, ans, more),
         Ends(ops[n + 1].kind, r), NEW fds, NEW open, IsFiniteSet(DOMAIN open),
         NEW rws, NEW rws2, Alike(n, rws, rws2),
         rws2[n + 1] = Row(n + 1, EncodeOp(ops[n + 1]), r, Number(open, EncodeOp(ops[n + 1]))),
         NEW H, Ran(H, ops, ans, rws), H[n + 1].fd = fds, H[n + 1].open = open
  PROVE  \E H2 : /\ Ran(H2, ops, more, rws2)
                 /\ H2[n + 2].fd = FdAfter(fds, open, EncodeOp(ops[n + 1]), r)
                 /\ H2[n + 2].open = OpenAfter(fds, open, EncodeOp(ops[n + 1]), r, n + 1)
<1>0. /\ n \in Nat /\ n + 1 \in DOMAIN ops /\ Len(ans) = n
      /\ Len(more) = n + 1 /\ more[n + 1].response = r /\ Alike(n, ans, more)
  BY DEF IsNext
<1> SUFFICES ASSUME n \in Nat, n + 1 \in DOMAIN ops, Len(ans) = n,
                    Len(more) = n + 1, more[n + 1].response = r, Alike(n, ans, more),
                    NEW call, call = EncodeOp(ops[n + 1]),
                    NEW fds2, fds2 = FdAfter(fds, open, call, r),
                    NEW open2, open2 = OpenAfter(fds, open, call, r, n + 1)
             PROVE  \E H2 : Ran(H2, ops, more, rws2) /\ H2[n + 2].fd = fds2 /\ H2[n + 2].open = open2
  BY <1>0
<1>1. PICK p : p.fd = fds2 /\ p.open = open2
  <2>1. PICK p : p = [fd |-> fds2, open |-> open2]
    OBVIOUS
  <2> QED BY <2>1
<1>2. PICK H2 : H2 = [k \in Nat |-> IF k = n + 2 THEN p ELSE H[k]]
  OBVIOUS
<1>3. H2[n + 2] = p /\ \A k \in 1 .. n + 1 : H2[k] = H[k]
  BY <1>2
<1>4. ASSUME NEW k \in 1 .. n
      PROVE  RanCall(H2, ops, more, rws2, k)
  <2>1. RanCall(H, ops, ans, rws, k)
    BY DEF Ran
  <2>2. H2[k] = H[k] /\ H2[k + 1] = H[k + 1] /\ more[k] = ans[k] /\ rws2[k] = rws[k]
    BY <1>3 DEF Alike
  <2> QED BY <2>1, <2>2 DEF RanCall
<1>5. RanCall(H2, ops, more, rws2, n + 1)
  <2>1. H2[n + 1].fd = fds /\ H2[n + 1].open = open /\ n + 1 + 1 = n + 2
    BY <1>3
  <2>2. H2[n + 1 + 1].fd = fds2 /\ H2[n + 1 + 1].open = open2
    BY <1>1, <1>3
  <2> QED BY <2>1, <2>2 DEF RanCall
<1>6. \A k \in 1 .. n + 1 : k = n + 1 \/ k \in 1 .. n
  OBVIOUS
<1>7. H2[1].fd = Globals(ops) /\ H2[1].open = Inherited
  BY <1>3 DEF Ran
<1>8. Ran(H2, ops, more, rws2)
  BY <1>4, <1>5, <1>6, <1>7 DEF Ran
<1> QED BY <1>1, <1>3, <1>8

(***************************************************************************)
(* The test, from its start until it is judged.                             *)
(***************************************************************************)
(* The rows and the answers are those of the calls made.                    *)
Sequences ==
  /\ DOMAIN rows = FileSystems /\ DOMAIN answered = FileSystems
  /\ \A f \in FileSystems :
       /\ IsSeq(rows[f]) /\ IsSeq(answered[f]) /\ Len(rows[f]) = Len(answered[f])
       /\ Len(answered[f]) <= Len(workload)

(* One process has come to its end before the other starts.                 *)
Progress ==
  /\ stage = "idle" => \A f \in FileSystems : answered[f] = <<>>
  /\ stage = "fst" => answered["snd"] = <<>>
  /\ stage = "snd" => Len(answered["fst"]) = Len(workload)
  /\ stage = "done" => \A f \in FileSystems : Len(answered[f]) = Len(workload)

(* Each has a history, which the one that is running has come to the end of.*)
HasRun(f, H) ==
  /\ Ran(H, workload, answered[f], rows[f])
  /\ stage = f => H[Len(answered[f]) + 1].fd = fd /\ H[Len(answered[f]) + 1].open = open_fds

Histories == stage # "idle" => \A f \in FileSystems : \E H : HasRun(f, H)

Process == stage \in FileSystems => Faithful(workload, answered[stage], fd, open_fds)

(* The answers of one process have reached their files.                     *)
ReachedFiles(ops, ans) ==
  \A i \in 1 .. Len(ans) :
    ops[i].kind \in OnDescriptor =>
      ans[i].through =
        IF ans[OpenBefore(ops, i)].response.errno = 0 THEN OpenBefore(ops, i) ELSE NoFile

FilesReached == \A f \in FileSystems : ReachedFiles(workload, answered[f])

TestInv == Sequences /\ Progress /\ Histories /\ Process /\ FilesReached

(* One more answer.                                                         *)
LEMMA ReachedGoesOn ==
  ASSUME NEW ops \in Seq(Operation), Threaded(ops), NEW n, NEW r, NEW ans, NEW more,
         IsNext(ops, n, r, ans, more), ReachedFiles(ops, ans),
         NEW fds, NEW open, Faithful(ops, ans, fds, open),
         more[n + 1].through = Reaches(fds, open, EncodeOp(ops[n + 1]))
  PROVE  ReachedFiles(ops, more)
<1> USE DEF IsNext
<1>1. ASSUME NEW i \in 1 .. n + 1, ops[i].kind \in OnDescriptor
      PROVE  more[i].through =
               IF more[OpenBefore(ops, i)].response.errno = 0 THEN OpenBefore(ops, i) ELSE NoFile
  <2>1. PICK j : j = OpenBefore(ops, i)
    OBVIOUS
  <2>2. i \in DOMAIN ops
    OBVIOUS
  <2>3. j \in 1 .. i - 1
    BY <1>1, <2>1, <2>2, OpenBeforeIsOpen
  <2>4. more[j] = ans[j]
    BY <2>3 DEF Alike
  <2>5. CASE i = n + 1
    BY <1>1, <2>1, <2>4, <2>5, ReachesItsFile
  <2>6. CASE i # n + 1
    <3>1. i \in 1 .. n /\ more[i] = ans[i]
      BY <2>6 DEF Alike
    <3> QED BY <1>1, <2>1, <2>4, <3>1 DEF ReachedFiles
  <2> QED BY <2>5, <2>6
<1> QED BY <1>1 DEF ReachedFiles

(* A call keeps the test so.                                                *)
LEMMA CallKeepsTest ==
  ASSUME TestInv, Recording(workload), NEW r, Made(r)
  PROVE  TestInv'
<1>1. PICK ops, f : ops = workload /\ f = stage
  OBVIOUS
<1>2. ops \in Seq(Operation) /\ Threaded(ops) /\ Declared(ops) /\ DescriptorsN(ops) \in Nat
  BY <1>1, RecordingThreaded, RecordingDeclares DEF Recording
<1>3. /\ f \in FileSystems /\ Position \in DOMAIN workload
      /\ Ends(This.fn, r)
      /\ AppendTrace(r, Number(open_fds, This), Reaches(fd, open_fds, This))
      /\ fd' = FdAfter(fd, open_fds, This, r)
      /\ open_fds' = OpenAfter(fd, open_fds, This, r, Position)
  BY <1>1 DEF Made
<1>4. PICK ans, rws : ans = answered[f] /\ rws = rows[f]
  OBVIOUS
<1>5. IsSeq(ans) /\ IsSeq(rws) /\ Len(rws) = Len(ans)
  BY <1>3, <1>4 DEF TestInv, Sequences
<1>6. PICK n : n = Len(ans)
  OBVIOUS
<1>7. n \in Nat /\ Position = n + 1 /\ n + 1 \in DOMAIN ops /\ Len(ops) \in Nat /\ n + 1 <= Len(ops)
  <2>1. n \in Nat /\ Position = n + 1
    BY <1>1, <1>4, <1>5, <1>6, OneMore DEF Position
  <2> QED BY <1>1, <1>2, <1>3, <2>1
<1>8. PICK call : call = EncodeOp(ops[n + 1])
  OBVIOUS
<1>9. This = call /\ call.fn = ops[n + 1].kind
  BY <1>1, <1>7, <1>8 DEF This, EncodeC, EncodeOp
<1>10. PICK number, through : number = Number(open_fds, call) /\ through = Reaches(fd, open_fds, call)
  OBVIOUS
<1>11. PICK e, row : e = [response |-> r, through |-> through] /\ row = Row(n + 1, call, r, number)
  OBVIOUS
<1>12. e.response = r /\ e.through = through
  BY <1>11
<1>13. PICK more, rws2 : more = Longer(ans, e) /\ rws2 = Longer(rws, row)
  OBVIOUS
<1>14. /\ rows' = [rows EXCEPT ![f] = rws2] /\ answered' = [answered EXCEPT ![f] = more]
       /\ stage' = f /\ workload' = ops
  BY <1>1, <1>3, <1>4, <1>7, <1>9, <1>10, <1>11, <1>13 DEF AppendTrace, Longer
<1>15. /\ IsSeq(more) /\ Len(more) = n + 1 /\ more[n + 1] = e /\ Alike(n, ans, more)
       /\ IsSeq(rws2) /\ Len(rws2) = n + 1 /\ rws2[n + 1] = row /\ Alike(n, rws, rws2)
  <2>1. IsSeq(more) /\ Len(more) = n + 1 /\ more[n + 1] = e /\ Alike(n, ans, more)
    BY <1>5, <1>6, <1>13, OneMore
  <2>2. Len(rws) = n
    BY <1>5, <1>6
  <2>3. IsSeq(rws2) /\ Len(rws2) = n + 1 /\ rws2[n + 1] = row /\ Alike(n, rws, rws2)
    BY <1>5, <1>13, <2>2, OneMore
  <2> QED BY <2>1, <2>3
<1>16. /\ DOMAIN rows' = FileSystems /\ DOMAIN answered' = FileSystems
       /\ rows'[f] = rws2 /\ answered'[f] = more
       /\ \A g \in FileSystems : g # f => rows'[g] = rows[g] /\ answered'[g] = answered[g]
  BY <1>3, <1>14 DEF TestInv, Sequences
<1>17. Sequences'
  BY <1>1, <1>7, <1>14, <1>15, <1>16 DEF TestInv, Sequences
<1>18. Progress'
  <2>1. f \in {"fst", "snd"}
    BY <1>3 DEF FileSystems
  <2>2. f # "idle" /\ f # "done"
    BY <2>1
  <2> QED BY <1>1, <1>14, <1>16, <2>1, <2>2 DEF TestInv, Progress, FileSystems
<1>19. Faithful(ops, ans, fd, open_fds)
  BY <1>1, <1>3, <1>4 DEF TestInv, Process
<1>20. IsNext(ops, n, r, ans, more)
  BY <1>6, <1>7, <1>12, <1>15 DEF IsNext
<1>21. Faithful(ops, more, fd', open_fds')
  <2>1. fd' = FdAfter(fd, open_fds, call, r) /\ open_fds' = OpenAfter(fd, open_fds, call, r, n + 1)
    BY <1>3, <1>7, <1>9
  <2> QED BY <1>2, <1>8, <1>19, <1>20, <2>1, FaithfulGoesOn
<1>22. Process'
  BY <1>1, <1>14, <1>16, <1>21 DEF Process
<1>23. FilesReached'
  <2>1. ReachedFiles(ops, ans)
    BY <1>1, <1>3, <1>4 DEF TestInv, FilesReached
  <2>2. more[n + 1].through = Reaches(fd, open_fds, EncodeOp(ops[n + 1])) /\ Len(ans) = n
    BY <1>6, <1>8, <1>10, <1>12, <1>15
  <2>3. ReachedFiles(ops, more)
    BY <1>2, <1>19, <1>20, <2>1, <2>2, ReachedGoesOn
  <2> QED BY <1>1, <1>14, <1>16, <2>3 DEF TestInv, FilesReached
<1>24. Histories'
  <2>1. stage # "idle"
    BY <1>1, <1>3 DEF FileSystems
  <2>2. PICK H : Ran(H, ops, ans, rws) /\ H[n + 1].fd = fd /\ H[n + 1].open = open_fds
    BY <1>1, <1>3, <1>4, <1>6, <2>1 DEF TestInv, Histories, HasRun
  <2>3. fd' = FdAfter(fd, open_fds, call, r) /\ open_fds' = OpenAfter(fd, open_fds, call, r, n + 1)
    BY <1>3, <1>7, <1>9
  <2>4. /\ Ends(ops[n + 1].kind, r) /\ more[n + 1].response = r /\ Len(ans) = n
        /\ rws2[n + 1] = Row(n + 1, call, r, Number(open_fds, call)) /\ IsFiniteSet(DOMAIN open_fds)
    BY <1>3, <1>6, <1>9, <1>10, <1>11, <1>12, <1>15, <1>19 DEF Faithful
  <2>5. PICK H2 : Ran(H2, ops, more, rws2) /\ H2[n + 2].fd = fd' /\ H2[n + 2].open = open_fds'
    <3>1. PICK fds2, open2 : fds2 = fd' /\ open2 = open_fds'
      OBVIOUS
    <3>2. \E H2 : Ran(H2, ops, more, rws2) /\ H2[n + 2].fd = fds2 /\ H2[n + 2].open = open2
      BY <1>8, <1>15, <1>20, <2>2, <2>3, <2>4, <3>1, RanGoesOn
    <3> QED BY <3>1, <3>2
  <2>6. Len(more) + 1 = n + 2
    BY <1>7, <1>15
  <2>7. HasRun(f, H2)'
    BY <1>1, <1>14, <1>16, <2>5, <2>6 DEF HasRun
  <2>8. ASSUME NEW g \in FileSystems, g # f
        PROVE  \E G : HasRun(g, G)'
    <3>1. PICK G : HasRun(g, G)
      BY <2>1 DEF TestInv, Histories
    <3>2. HasRun(g, G)'
      BY <1>1, <1>14, <1>16, <2>8, <3>1 DEF HasRun
    <3> QED BY <3>2
  <2>9. \A g \in FileSystems : \E G : HasRun(g, G)'
    BY <2>7, <2>8
  <2> QED BY <2>9 DEF Histories
<1> QED BY <1>17, <1>18, <1>22, <1>23, <1>24 DEF TestInv

(* A new process starts: that of the first file system, or the second.      *)
LEMMA ProcessStarts ==
  ASSUME Sequences', FilesReached', Progress', Recording(workload'), NEW f, f = stage', f # "idle",
         Len(answered'[f]) = 0, fd' = Globals(workload'), open_fds' = Inherited,
         \A g \in FileSystems : g # f => \E H : HasRun(g, H)'
  PROVE  TestInv'
<1>1. PICK ops, ans, rws : ops = workload' /\ ans = answered'[f] /\ rws = rows'[f]
  OBVIOUS
<1>2. DescriptorsN(ops) \in Nat
  BY <1>1, RecordingDeclares
<1>3. /\ Faithful(ops, ans, Globals(ops), Inherited)
      /\ \E H : Ran(H, ops, ans, rws) /\ H[1].fd = Globals(ops) /\ H[1].open = Inherited
  BY <1>1, <1>2, FreshProcess
<1>4. Process'
  BY <1>1, <1>3 DEF Process
<1>5. f \in FileSystems => \E H : HasRun(f, H)'
  <2>1. PICK H : Ran(H, ops, ans, rws) /\ H[1].fd = fd' /\ H[1].open = open_fds'
    BY <1>1, <1>3
  <2>2. Len(ans) + 1 = 1
    BY <1>1
  <2>3. HasRun(f, H)'
    BY <1>1, <2>1, <2>2 DEF HasRun
  <2> QED BY <2>3
<1>6. \A g \in FileSystems : \E H : HasRun(g, H)'
  BY <1>5
<1>7. Histories'
  BY <1>6 DEF Histories
<1> QED BY <1>4, <1>7 DEF TestInv

(* Without a test there is nothing to say.                                  *)
LEMMA NoTest ==
  ASSUME stage' = "idle", rows' = [f \in FileSystems |-> <<>>], answered' = [f \in FileSystems |-> <<>>],
         workload' \in Seq(Operation)
  PROVE  TestInv'
<1>1. IsSeq(<<>>) /\ Len(<<>>) = 0
  <2>1. <<>> \in Seq({})
    OBVIOUS
  <2> QED BY <2>1 DEF IsSeq
<1>2. Sequences'
  BY <1>1 DEF Sequences
<1>3. FilesReached'
  BY DEF FilesReached, ReachedFiles
<1>4. Progress' /\ Histories' /\ Process'
  BY DEF Progress, Histories, Process, FileSystems
<1> QED BY <1>2, <1>3, <1>4 DEF TestInv

(* A test starts.                                                           *)
LEMMA TestStarts ==
  ASSUME NEW ops, StartTest(ops), Recording(ops)
  PROVE  TestInv'
<1>1. /\ stage' = "fst" /\ workload' = ops /\ fd' = Globals(ops) /\ open_fds' = Inherited
      /\ rows' = [f \in FileSystems |-> <<>>] /\ answered' = [f \in FileSystems |-> <<>>]
  BY DEF StartTest
<1>2. ops \in Seq(Operation) /\ DescriptorsN(ops) \in Nat /\ Len(ops) \in Nat
  BY RecordingDeclares DEF Recording
<1>3. IsSeq(<<>>) /\ Len(<<>>) = 0
  <2>1. <<>> \in Seq({})
    OBVIOUS
  <2> QED BY <2>1 DEF IsSeq
<1>4. Sequences'
  BY <1>1, <1>2, <1>3 DEF Sequences
<1>5. FilesReached'
  BY <1>1 DEF FilesReached, ReachedFiles
<1>6. Progress'
  BY <1>1 DEF Progress, FileSystems
<1>7. ASSUME NEW g \in FileSystems, g # "fst"
      PROVE  \E H : HasRun(g, H)'
  <2>1. PICK H : Ran(H, ops, <<>>, <<>>)
    BY <1>2, <1>3, FreshProcess
  <2>2. HasRun(g, H)'
    BY <1>1, <1>7, <2>1 DEF HasRun
  <2> QED BY <2>2
<1>8. answered'["fst"] = <<>>
  BY <1>1 DEF FileSystems
<1> QED BY <1>1, <1>3, <1>4, <1>5, <1>6, <1>7, <1>8, ProcessStarts

(* A process ends.                                                          *)
LEMMA ProcessEnds ==
  ASSUME TestInv, Recording(workload), EndOfTest
  PROVE  TestInv'
<1>1. /\ stage \in FileSystems /\ Position \notin DOMAIN workload
      /\ stage' = IF stage = "fst" THEN "snd" ELSE "done"
      /\ fd' = [v \in DOMAIN fd |-> 0] /\ open_fds' = Inherited
      /\ UNCHANGED <<workload, rows, answered>>
  BY DEF EndOfTest
<1>2. stage # "idle" /\ stage \in {"fst", "snd"}
  BY <1>1 DEF FileSystems
<1>3. Len(answered[stage]) = Len(workload)
  <2>1. PICK n : n = Len(answered[stage])
    OBVIOUS
  <2>2. n \in Nat /\ Position = n + 1 /\ n <= Len(workload)
    BY <1>1, <2>1, OneMore DEF TestInv, Sequences, Position
  <2>3. workload \in Seq(Operation)
    BY DEF Recording
  <2> QED BY <1>1, <2>1, <2>2, <2>3
<1>4. Sequences' /\ FilesReached'
  BY <1>1 DEF TestInv, Sequences, FilesReached
<1>5. Progress'
  BY <1>1, <1>2, <1>3 DEF TestInv, Progress, FileSystems
<1>6. ASSUME NEW g \in FileSystems, g # stage'
      PROVE  \E H : HasRun(g, H)'
  <2>1. PICK H : HasRun(g, H)
    BY <1>2 DEF TestInv, Histories
  <2>2. HasRun(g, H)'
    BY <1>1, <1>6, <2>1 DEF HasRun
  <2> QED BY <2>2
<1>7. CASE stage = "fst"
  <2>1. stage' = "snd" /\ answered'["snd"] = <<>> /\ Len(answered'["snd"]) = 0
    BY <1>1, <1>7 DEF TestInv, Progress
  <2>2. fd' = Globals(workload')
    BY <1>1 DEF TestInv, Process, Faithful, Globals
  <2> QED BY <1>1, <1>4, <1>5, <1>6, <2>1, <2>2, ProcessStarts
<1>8. CASE stage = "snd"
  <2>1. stage' = "done" /\ stage' \notin FileSystems
    BY <1>1, <1>8 DEF FileSystems
  <2>2. \A g \in FileSystems : \E H : HasRun(g, H)'
    BY <1>6, <2>1
  <2>3. Histories' /\ Process'
    BY <2>1, <2>2 DEF Histories, Process
  <2> QED BY <1>4, <1>5, <2>3 DEF TestInv
<1> QED BY <1>2, <1>7, <1>8

(* The test goes no further.                                                *)
LEMMA TestBreaks ==
  ASSUME TestInv, stage \in FileSystems, stage' \in {"crashed", "exited"},
         UNCHANGED <<workload, fd, open_fds, rows, answered>>
  PROVE  TestInv'
<1>1. stage # "idle" /\ stage' \notin FileSystems \cup {"idle", "fst", "snd", "done"}
  BY DEF FileSystems
<1>2. Sequences' /\ FilesReached' /\ Progress' /\ Process'
  BY <1>1 DEF TestInv, Sequences, FilesReached, Progress, Process
<1>3. ASSUME NEW g \in FileSystems
      PROVE  \E H : HasRun(g, H)'
  <2>1. PICK H : HasRun(g, H)
    BY <1>1 DEF TestInv, Histories
  <2>2. HasRun(g, H)'
    BY <1>1, <2>1 DEF HasRun
  <2> QED BY <2>2
<1> QED BY <1>2, <1>3 DEF TestInv, Histories

(* Every step of the reducer keeps the test so.                             *)
LEMMA NextTest == Left /\ UnderTest /\ TestInv /\ [Next]_vars => TestInv'
<1> SUFFICES ASSUME Left, UnderTest, TestInv, [Next]_vars
             PROVE  TestInv'
  OBVIOUS
<1>1. CASE UNCHANGED executor
  BY <1>1 DEF executor, TestInv, Sequences, Progress, Histories, HasRun, Process, FilesReached
<1>2. ASSUME Cleared
      PROVE  TestInv'
  <2>1. workload' = <<>> /\ <<>> \in Seq(Operation)
    BY <1>2 DEF Cleared
  <2> QED BY <1>2, <2>1, NoTest DEF Cleared
<1>3. CASE TestOriginal \/ TryWithout
  <2>1. PICK ops : StartTest(ops)
    BY <1>3 DEF TestOriginal, TryWithout
  <2>2. stage' # "idle" /\ workload' = ops
    BY <2>1 DEF StartTest
  <2>3. Recording(workload')
    BY <1>3, <2>2, StartsUnderTest DEF UnderTest
  <2> QED BY <2>1, <2>2, <2>3, TestStarts
<1>4. CASE RunTest
  <2>1. Recording(workload)
    BY <1>4, RunKeepsWorkload DEF UnderTest
  <2>2. DoTransferTooLarge \/ TestCrashes => TestInv'
    BY TestBreaks DEF DoTransferTooLarge, TestCrashes, Calls
  <2> QED BY <1>4, <2>1, <2>2, CallsAreMade, CallKeepsTest, ProcessEnds
<1>5. UNCHANGED vars \/ SkipOperation \/ Finished => UNCHANGED executor
  BY DEF vars, SkipOperation, Finished
<1>6. JudgeOriginal \/ OriginalCrashes \/ KeepOperation \/ DropOperation \/ SaveVariation \/ Fail => Cleared
  BY DEF JudgeOriginal, OriginalCrashes, KeepOperation, DropOperation, SaveVariation, Fail
<1> QED BY <1>1, <1>2, <1>3, <1>4, <1>5, <1>6 DEF Next, Test

(* It is so before the first.                                               *)
LEMMA InitTest == Init => TestInv
<1> SUFFICES ASSUME Init
             PROVE  TestInv
  OBVIOUS
<1>1. /\ stage = "idle" /\ workload = <<>>
      /\ rows = [f \in FileSystems |-> <<>>] /\ answered = [f \in FileSystems |-> <<>>]
  BY DEF Init, ExecutorInit
<1>2. IsSeq(<<>>) /\ Len(<<>>) = 0
  <2>1. <<>> \in Seq({})
    OBVIOUS
  <2> QED BY <2>1 DEF IsSeq
<1>3. Sequences
  BY <1>1, <1>2 DEF Sequences
<1>4. FilesReached /\ Progress /\ Histories /\ Process
  BY <1>1 DEF FilesReached, ReachedFiles, Progress, Histories, Process, FileSystems
<1> QED BY <1>3, <1>4 DEF TestInv

(* A call through a descriptor reaches the file its open has opened, and no *)
(* file if that failed (encode.rs:17-31, 63-67, executor.cpp:454-474).      *)
THEOREM CallsReachTheirFiles == Spec => []DescriptorsActOnTheirFiles
<1>1. TestInv => DescriptorsActOnTheirFiles
  <2> SUFFICES ASSUME TestInv, NEW f \in FileSystems, NEW i \in DOMAIN answered[f],
                      workload[i].kind \in OnDescriptor
               PROVE  answered[f][i].through =
                        IF answered[f][OpenOf(i)].response.errno = 0 THEN OpenOf(i) ELSE NoFile
    BY DEF DescriptorsActOnTheirFiles
  <2>1. OpenOf(i) = OpenBefore(workload, i)
    BY DEF OpenOf, OpenBefore
  <2>2. i \in 1 .. Len(answered[f])
    BY OneMore DEF TestInv, Sequences
  <2> QED BY <2>1, <2>2 DEF TestInv, FilesReached, ReachedFiles
<1> QED BY InitLeft, NextLeft, InitTest, NextTest, <1>1, PTL DEF Spec

(***************************************************************************)
(* The comparison of two traces.                                            *)
(***************************************************************************)
(* One turn of its loop (objective/trace.rs:24-34).                         *)
Compared(diff, a, b, k) == IF a[k] = b[k] THEN diff ELSE Append(diff, RowIsDifferent(a[k], b[k]))

IsDiffer(f, a, b, n) == f[0] = <<>> /\ \A k \in 1 .. n : f[k] = Compared(f[k - 1], a, b, k)

(* There are such differences for every n.                                  *)
LEMMA DifferExists ==
  ASSUME NEW a, NEW b, NEW n \in Nat
  PROVE  \E f : IsDiffer(f, a, b, n)
<1> DEFINE T == {m \in Nat : \E f : IsDiffer(f, a, b, m)}
<1>1. 0 \in T
  <2>1. IsDiffer([i \in {0} |-> <<>>], a, b, 0)
    BY DEF IsDiffer
  <2> QED BY <2>1
<1>2. ASSUME NEW m \in Nat, m \in T
      PROVE  m + 1 \in T
  <2>1. PICK f : IsDiffer(f, a, b, m)
    BY <1>2
  <2> DEFINE last == Compared(f[m], a, b, m + 1)
             h    == [i \in 0 .. m + 1 |-> IF i = m + 1 THEN last ELSE f[i]]
  <2>2. h[0] = <<>>
    BY <2>1 DEF IsDiffer
  <2>3. ASSUME NEW k \in 1 .. m + 1
        PROVE  h[k] = Compared(h[k - 1], a, b, k)
    <3>1. CASE k = m + 1
      <4>1. h[k] = last /\ h[k - 1] = f[m]
        BY <3>1
      <4> QED BY <3>1, <4>1
    <3>2. CASE k \in 1 .. m
      <4>1. h[k] = f[k] /\ h[k - 1] = f[k - 1]
        BY <3>2
      <4> QED BY <2>1, <3>2, <4>1 DEF IsDiffer
    <3> QED BY <3>1, <3>2
  <2>4. IsDiffer(h, a, b, m + 1)
    <3> HIDE DEF h
    <3> QED BY <2>2, <2>3 DEF IsDiffer
  <2> QED BY <2>4
<1> HIDE DEF T
<1>3. Nat \subseteq T
  BY <1>1, <1>2, NatSetInduction
<1> QED BY <1>3 DEF T

(* Two of them agree.                                                       *)
LEMMA DiffersAgree ==
  ASSUME NEW a, NEW b, NEW n \in Nat, NEW f, NEW h, IsDiffer(f, a, b, n), IsDiffer(h, a, b, n)
  PROVE  \A k \in 0 .. n : f[k] = h[k]
<1> DEFINE T == {k \in Nat : k <= n => f[k] = h[k]}
<1>1. 0 \in T
  BY DEF IsDiffer
<1>2. ASSUME NEW k \in Nat, k \in T
      PROVE  k + 1 \in T
  <2> SUFFICES ASSUME k + 1 <= n
               PROVE  f[k + 1] = h[k + 1]
    OBVIOUS
  <2>1. k + 1 \in 1 .. n /\ (k + 1) - 1 = k /\ f[k] = h[k]
    BY <1>2
  <2> QED BY <2>1 DEF IsDiffer
<1> HIDE DEF T
<1>3. Nat \subseteq T
  BY <1>1, <1>2, NatSetInduction
<1> QED BY <1>3 DEF T

(* The recursive function of TraceDiff satisfies its equation.              *)
LEMMA TraceDiffCompares ==
  ASSUME NEW a, NEW b, NEW n \in Nat, n = Len(a), Len(b) = n
  PROVE  \E f : IsDiffer(f, a, b, n) /\ TraceDiff(a, b) = f[n]
<1> DEFINE Recurs(f) ==
             f = [k \in Nat |-> IF k = 0 THEN <<>>
                                ELSE IF a[k] = b[k] THEN f[k - 1]
                                ELSE Append(f[k - 1], RowIsDifferent(a[k], b[k]))]
           upTo(m) == CHOOSE f : IsDiffer(f, a, b, m)
           g == [m \in Nat |-> upTo(m)[m]]
<1>1. ASSUME NEW m \in Nat
      PROVE  IsDiffer(upTo(m), a, b, m)
  BY DifferExists
<1> HIDE DEF upTo
<1>2. g[0] = <<>>
  BY <1>1 DEF IsDiffer
<1>3. ASSUME NEW m \in Nat, m # 0
      PROVE  g[m] = Compared(g[m - 1], a, b, m)
  <2>1. m - 1 \in Nat /\ m \in 1 .. m /\ m - 1 \in 0 .. m - 1
    BY <1>3
  <2>2. IsDiffer(upTo(m), a, b, m - 1) /\ IsDiffer(upTo(m - 1), a, b, m - 1)
    BY <1>1, <2>1 DEF IsDiffer
  <2>3. upTo(m)[m - 1] = upTo(m - 1)[m - 1]
    BY <2>1, <2>2, DiffersAgree
  <2>4. upTo(m)[m] = Compared(upTo(m)[m - 1], a, b, m)
    BY <1>1, <2>1 DEF IsDiffer
  <2> QED BY <2>1, <2>3, <2>4
<1>4. Recurs(g)
  <2>1. \A k \in Nat : g[k] = IF k = 0 THEN <<>>
                              ELSE IF a[k] = b[k] THEN g[k - 1]
                              ELSE Append(g[k - 1], RowIsDifferent(a[k], b[k]))
    <3> HIDE DEF g
    <3> QED BY <1>2, <1>3 DEF Compared
  <2>2. g = [k \in Nat |-> g[k]]
    OBVIOUS
  <2> HIDE DEF g
  <2> QED BY <2>1, <2>2
<1>5. PICK r : r = CHOOSE f : Recurs(f)
  OBVIOUS
<1>6. TraceDiff(a, b) = r[n]
  BY <1>5 DEF TraceDiff
<1>7. Recurs(r)
  <2> HIDE DEF Recurs, g
  <2> QED BY <1>4, <1>5
<1>8. IsDiffer(r, a, b, n)
  <2>1. r[0] = <<>>
    BY <1>7
  <2>2. ASSUME NEW k \in 1 .. n
        PROVE  r[k] = Compared(r[k - 1], a, b, k)
    <3>1. k \in Nat /\ k # 0
      OBVIOUS
    <3> QED BY <1>7, <3>1 DEF Compared
  <2> QED BY <2>1, <2>2 DEF IsDiffer
<1> QED BY <1>6, <1>8

(* The k-th is the first pair of rows that differ.                          *)
FirstPair(a, b, k) == a[k] # b[k] /\ \A j \in 1 .. k - 1 : a[j] = b[j]

(* The difference after n rows: empty if these are the same, or else it     *)
(* begins with the first pair.                                              *)
BeginsWithFirst(diff, a, b, n) ==
  \/ diff = <<>> /\ \A k \in 1 .. n : a[k] = b[k]
  \/ /\ IsSeq(diff) /\ Len(diff) # 0
     /\ \E k \in 1 .. n : FirstPair(a, b, k) /\ diff[1] = RowIsDifferent(a[k], b[k])

(* It stays so with one row more.                                           *)
LEMMA StillBeginsWithFirst ==
  ASSUME NEW a, NEW b, NEW n \in Nat, NEW diff, BeginsWithFirst(diff, a, b, n),
         NEW more, more = Compared(diff, a, b, n + 1)
  PROVE  BeginsWithFirst(more, a, b, n + 1)
<1>1. \A k \in 1 .. n + 1 : k = n + 1 \/ k \in 1 .. n
  OBVIOUS
<1>2. CASE a[n + 1] = b[n + 1]
  <2>1. more = diff
    BY <1>2 DEF Compared
  <2>2. \A k \in 1 .. n : k \in 1 .. n + 1
    OBVIOUS
  <2> QED BY <1>1, <1>2, <2>1, <2>2 DEF BeginsWithFirst
<1>3. CASE a[n + 1] # b[n + 1]
  <2>1. PICK pair : pair = RowIsDifferent(a[n + 1], b[n + 1])
    OBVIOUS
  <2>2. more = Longer(diff, pair)
    BY <1>3, <2>1 DEF Compared, Longer
  <2>3. IsSeq(diff)
    <3>1. <<>> \in Seq({})
      OBVIOUS
    <3> QED BY <3>1 DEF BeginsWithFirst, IsSeq
  <2>4. /\ IsSeq(more) /\ Len(diff) \in Nat /\ Len(more) = Len(diff) + 1 /\ more[Len(diff) + 1] = pair
        /\ Alike(Len(diff), diff, more)
    BY <2>2, <2>3, OneMore
  <2>5. CASE diff = <<>> /\ \A k \in 1 .. n : a[k] = b[k]
    <3>1. Len(diff) = 0
      BY <2>5
    <3>2. FirstPair(a, b, n + 1) /\ more[1] = pair
      BY <1>3, <2>4, <2>5, <3>1 DEF FirstPair
    <3>3. n + 1 \in 1 .. n + 1
      OBVIOUS
    <3> QED BY <2>1, <2>4, <3>1, <3>2, <3>3 DEF BeginsWithFirst
  <2>6. CASE Len(diff) # 0
    <3>1. more[1] = diff[1] /\ Len(more) # 0
      BY <2>4, <2>6 DEF Alike
    <3>2. diff # <<>>
      BY <2>6
    <3>3. PICK k \in 1 .. n : FirstPair(a, b, k) /\ diff[1] = RowIsDifferent(a[k], b[k])
      BY <3>2 DEF BeginsWithFirst
    <3>4. k \in 1 .. n + 1
      OBVIOUS
    <3> QED BY <2>4, <3>1, <3>3, <3>4 DEF BeginsWithFirst
  <2> QED BY <2>5, <2>6 DEF BeginsWithFirst
<1> QED BY <1>2, <1>3

(* What the comparison of two traces of the same length yields.             *)
LEMMA TraceDiffIsFirst ==
  ASSUME NEW a, NEW b, NEW n \in Nat, n = Len(a), Len(b) = n
  PROVE  BeginsWithFirst(TraceDiff(a, b), a, b, n)
<1>1. PICK f : IsDiffer(f, a, b, n) /\ TraceDiff(a, b) = f[n]
  BY TraceDiffCompares
<1> DEFINE T == {k \in Nat : k <= n => BeginsWithFirst(f[k], a, b, k)}
<1>2. 0 \in T
  <2>1. f[0] = <<>> /\ \A k \in 1 .. 0 : a[k] = b[k]
    BY <1>1 DEF IsDiffer
  <2> QED BY <2>1 DEF BeginsWithFirst
<1>3. ASSUME NEW k \in Nat, k \in T
      PROVE  k + 1 \in T
  <2> SUFFICES ASSUME k + 1 <= n
               PROVE  BeginsWithFirst(f[k + 1], a, b, k + 1)
    OBVIOUS
  <2>1. k + 1 \in 1 .. n /\ (k + 1) - 1 = k /\ BeginsWithFirst(f[k], a, b, k)
    BY <1>3
  <2>2. f[k + 1] = Compared(f[k], a, b, k + 1)
    BY <1>1, <2>1 DEF IsDiffer
  <2> QED BY <2>1, <2>2, StillBeginsWithFirst
<1> HIDE DEF T
<1>4. Nat \subseteq T
  BY <1>2, <1>3, NatSetInduction
<1>5. BeginsWithFirst(f[n], a, b, n)
  BY <1>4 DEF T
<1> QED BY <1>1, <1>5

(* A row tells how its call ended (executor.cpp:302-417, 503-511).          *)
LEMMA RowTells ==
  ASSUME NEW call, NEW r, NEW q, Ends(call.fn, r), Ends(call.fn, q), NEW number \in Nat, NEW i,
         Row(i, call, r, number) = Row(i, call, q, number)
  PROVE  r = q
<1>1. /\ Command(call, r) = Command(call, q) /\ ReturnCode(call, r, number) = ReturnCode(call, q, number)
      /\ r.errno = q.errno /\ Extra(call, r) = Extra(call, q)
  <2>1. PICK one, other : one = Row(i, call, r, number) /\ other = Row(i, call, q, number)
    OBVIOUS
  <2>2. /\ one.command = Command(call, r) /\ one.return_code = ReturnCode(call, r, number)
        /\ one.errno = r.errno /\ one.extra = Extra(call, r)
    BY <2>1 DEF Row
  <2>3. /\ other.command = Command(call, q) /\ other.return_code = ReturnCode(call, q, number)
        /\ other.errno = q.errno /\ other.extra = Extra(call, q)
    BY <2>1 DEF Row
  <2> QED BY <2>1, <2>2, <2>3
<1>2. r.syscall = q.syscall
  <2>1. CASE call.fn \notin {"Create", "Remove"}
    BY <2>1 DEF Ends
  <2>2. CASE call.fn = "Remove"
    BY <1>1, <2>2 DEF Command
  <2>3. CASE call.fn = "Create"
    <3>1. ASSUME NEW x, Ends(call.fn, x)
          PROVE  /\ x.syscall = "Create" \/ (x.syscall = "CLOSE" /\ x.errno # 0)
                 /\ x.syscall = "CLOSE" => ReturnCode(call, x, number) = number
                 /\ x.syscall = "Create" /\ x.errno # 0 => ReturnCode(call, x, number) = -1
      BY <2>3, <3>1 DEF Ends, ReturnCode, Status
    <3>2. number # -1
      OBVIOUS
    <3> QED BY <1>1, <3>1, <3>2
  <2> QED BY <2>1, <2>2, <2>3
<1>3. r.count = q.count
  <2>1. CASE call.fn \notin {"Read", "Write"} \/ r.errno # 0
    BY <1>1, <2>1 DEF Ends
  <2>2. CASE call.fn \in {"Read", "Write"} /\ r.errno = 0
    BY <1>1, <2>2 DEF ReturnCode, Status
  <2> QED BY <2>1, <2>2
<1>4. r.data = q.data
  <2>1. CASE call.fn # "Read" \/ r.errno # 0
    BY <1>1, <2>1 DEF Ends
  <2>2. CASE call.fn = "Read" /\ r.errno = 0
    BY <1>1, <2>2 DEF Extra
  <2> QED BY <2>1, <2>2
<1>5. r = Response(r.syscall, r.errno, r.count, r.data) /\ q = Response(q.syscall, q.errno, q.count, q.data)
  BY DEF Ends
<1> QED BY <1>1, <1>2, <1>3, <1>4, <1>5

(* Two processes that had the same answers are the same.                    *)
LEMMA SameAnswersSameProcess ==
  ASSUME NEW ops, NEW n \in Nat, NEW H, NEW a, NEW b, NEW ra, NEW rb, NEW G, Len(a) = n, Len(b) = n,
         Ran(H, ops, a, ra), Ran(G, ops, b, rb),
         NEW k \in 1 .. n, \A j \in 1 .. k - 1 : a[j].response = b[j].response
  PROVE  H[k].fd = G[k].fd /\ H[k].open = G[k].open
<1> DEFINE Same(j) == H[j].fd = G[j].fd /\ H[j].open = G[j].open
           T == {j \in Nat : j + 1 <= k => Same(j + 1)}
<1>1. 0 \in T
  BY DEF Ran
<1>2. ASSUME NEW j \in Nat, j \in T
      PROVE  j + 1 \in T
  <2> SUFFICES ASSUME j + 1 + 1 <= k
               PROVE  Same(j + 1 + 1)
    OBVIOUS
  <2>1. PICK m : m = j + 1
    OBVIOUS
  <2>2. m \in 1 .. n /\ m \in 1 .. k - 1 /\ Same(m)
    BY <1>2, <2>1
  <2>3. a[m].response = b[m].response
    BY <2>2
  <2>4. RanCall(H, ops, a, ra, m) /\ RanCall(G, ops, b, rb, m)
    BY <2>2 DEF Ran
  <2>5. Same(m + 1)
    BY <2>2, <2>3, <2>4 DEF RanCall
  <2> QED BY <2>1, <2>5
<1> HIDE DEF T
<1>3. Nat \subseteq T
  BY <1>1, <1>2, NatSetInduction
<1>4. k - 1 \in Nat /\ (k - 1) + 1 = k
  OBVIOUS
<1>5. k - 1 \in T
  BY <1>3, <1>4
<1> QED BY <1>4, <1>5 DEF T

(* As long as the answers are the same, the rows are exactly if the next    *)
(* answers are.                                                             *)
LEMMA RowsFollowAnswers ==
  ASSUME NEW ops, NEW n \in Nat, NEW H, NEW a, NEW b, NEW ra, NEW rb, NEW G, Len(a) = n, Len(b) = n,
         Ran(H, ops, a, ra), Ran(G, ops, b, rb),
         NEW k \in 1 .. n, \A j \in 1 .. k - 1 : a[j].response = b[j].response
  PROVE  (a[k].response = b[k].response => ra[k] = rb[k]) /\ (ra[k] = rb[k] => a[k].response = b[k].response)
<1>1. H[k].fd = G[k].fd /\ H[k].open = G[k].open
  BY SameAnswersSameProcess
<1>2. RanCall(H, ops, a, ra, k) /\ RanCall(G, ops, b, rb, k)
  BY DEF Ran
<1>3. PICK call, number, r, q : /\ call = EncodeOp(ops[k]) /\ number = Number(H[k].open, call)
                                /\ r = a[k].response /\ q = b[k].response
  OBVIOUS
<1>4. ra[k] = Row(k, call, r, number) /\ rb[k] = Row(k, call, q, number)
  BY <1>1, <1>2, <1>3 DEF RanCall
<1>5. Ends(call.fn, r) /\ Ends(call.fn, q)
  BY <1>2, <1>3 DEF RanCall, EncodeOp
<1>6. number \in Nat
  <2>1. PICK numbers : numbers = DOMAIN H[k].open
    OBVIOUS
  <2>2. IsFiniteSet(numbers)
    BY <1>2, <2>1 DEF RanCall
  <2>3. LowestIn(numbers) \in Nat
    BY <2>2, LowestIsFree
  <2> QED BY <1>3, <2>1, <2>3 DEF Number
<1>7. ASSUME ra[k] = rb[k]
      PROVE  r = q
  <2>1. Row(k, call, r, number) = Row(k, call, q, number)
    BY <1>4, <1>7
  <2> QED BY <1>5, <1>6, <2>1, RowTells
<1> QED BY <1>3, <1>4, <1>7

(* The calls up to the n-th that two file systems answered differently, and *)
(* the first of them.                                                       *)
Differing(a, b, n) == {i \in 1 .. n : a[i].response # b[i].response}

(* The rows that differ first are of the least of these calls.              *)
FirstIsLeast(ra, rb, n, D) ==
  /\ D = {} => \A k \in 1 .. n : ra[k] = rb[k]
  /\ \A k \in 1 .. n : FirstPair(ra, rb, k) => k \in D /\ \A j \in D : k <= j
  /\ (\A k \in 1 .. n : ra[k] = rb[k]) => D = {}

(* The first row that differs is of the first call that was answered        *)
(* differently.                                                             *)
LEMMA FirstRowIsOfFirstAnswer ==
  ASSUME NEW ops, NEW n \in Nat, NEW H, NEW a, NEW b, NEW ra, NEW rb, NEW G, Len(a) = n, Len(b) = n,
         Ran(H, ops, a, ra), Ran(G, ops, b, rb)
  PROVE  FirstIsLeast(ra, rb, n, Differing(a, b, n))
<1> DEFINE D == Differing(a, b, n)
<1>1. ASSUME D = {}, NEW k \in 1 .. n
      PROVE  ra[k] = rb[k]
  <2>1. \A j \in 1 .. n : a[j].response = b[j].response
    BY <1>1 DEF Differing
  <2>2. \A j \in 1 .. k - 1 : j \in 1 .. n
    OBVIOUS
  <2> QED BY <2>1, <2>2, RowsFollowAnswers
<1>2. ASSUME D # {}
      PROVE  \E d \in D : (\A j \in D : d <= j) /\ FirstPair(ra, rb, d)
  <2>1. D \subseteq Nat
    BY DEF Differing
  <2>2. PICK d \in D : \A j \in D : d <= j
    BY <1>2, <2>1, LeastNat
  <2>3. d \in 1 .. n /\ a[d].response # b[d].response
    BY DEF Differing
  <2>4. ASSUME NEW j \in 1 .. d - 1
        PROVE  j \in 1 .. n /\ a[j].response = b[j].response
    <3>1. j \in 1 .. n /\ ~ d <= j
      BY <2>3
    <3> QED BY <2>2, <3>1 DEF Differing
  <2>5. ra[d] # rb[d]
    BY <2>3, <2>4, RowsFollowAnswers
  <2>6. ASSUME NEW j \in 1 .. d - 1
        PROVE  ra[j] = rb[j]
    <3>1. j \in 1 .. n /\ \A i \in 1 .. j - 1 : i \in 1 .. d - 1
      BY <2>3
    <3>2. \A i \in 1 .. j - 1 : a[i].response = b[i].response
      BY <2>4, <3>1
    <3> QED BY <2>4, <3>1, <3>2, RowsFollowAnswers
  <2>7. FirstPair(ra, rb, d)
    BY <2>5, <2>6 DEF FirstPair
  <2> QED BY <2>2, <2>7
<1>3. ASSUME NEW k \in 1 .. n, FirstPair(ra, rb, k)
      PROVE  k \in D /\ \A j \in D : k <= j
  <2>1. ra[k] # rb[k]
    BY <1>3 DEF FirstPair
  <2>2. D # {}
    BY <1>1, <2>1
  <2>3. PICK d \in D : (\A j \in D : d <= j) /\ FirstPair(ra, rb, d)
    BY <1>2, <2>2
  <2>4. d \in 1 .. n
    BY DEF Differing
  <2>5. d = k
    <3>1. ~ d < k
      <4>1. d < k => d \in 1 .. k - 1
        BY <2>4
      <4> QED BY <1>3, <2>3, <4>1 DEF FirstPair
    <3>2. ~ k < d
      <4>1. k < d => k \in 1 .. d - 1
        BY <2>4
      <4> QED BY <2>1, <2>3, <4>1 DEF FirstPair
    <3> QED BY <2>4, <3>1, <3>2
  <2> QED BY <2>3, <2>5
<1>4. ASSUME \A k \in 1 .. n : ra[k] = rb[k], D # {}
      PROVE  FALSE
  <2>1. PICK d \in D : FirstPair(ra, rb, d)
    BY <1>2, <1>4
  <2>2. d \in 1 .. n
    BY DEF Differing
  <2> QED BY <1>4, <2>1, <2>2 DEF FirstPair
<1> HIDE DEF D
<1>5. D = {} => \A k \in 1 .. n : ra[k] = rb[k]
  BY <1>1
<1>6. \A k \in 1 .. n : FirstPair(ra, rb, k) => k \in D /\ \A j \in D : k <= j
  BY <1>3
<1>7. (\A k \in 1 .. n : ra[k] = rb[k]) => D = {}
  BY <1>4
<1>8. FirstIsLeast(ra, rb, n, D)
  BY <1>5, <1>6, <1>7 DEF FirstIsLeast
<1> QED BY <1>8 DEF D

(* Two traces differ exactly when the file systems answered some call       *)
(* differently, first in the row of the first such call                     *)
(* (executor.cpp:313-523, objective/trace.rs:19-37).                        *)
THEOREM DifferencesAreReal == Spec => []FirstDifferenceIsReal
<1>1. ASSUME TestInv, UnderTest
      PROVE  FirstDifferenceIsReal
  <2> SUFFICES ASSUME stage = "done"
               PROVE  FirstDifferenceIsReal
    BY DEF FirstDifferenceIsReal
  <2>1. PICK a, b, ra, rb, ops : /\ a = answered["fst"] /\ b = answered["snd"]
                                 /\ ra = rows["fst"] /\ rb = rows["snd"] /\ ops = workload
    OBVIOUS
  <2>2. stage # "idle" /\ "fst" \in FileSystems /\ "snd" \in FileSystems
    BY DEF FileSystems
  <2>3. PICK n \in Nat : n = Len(ops) /\ DOMAIN ops = 1 .. n
    <3>1. ops \in Seq(Operation)
      BY <1>1, <2>1, <2>2 DEF UnderTest, Recording
    <3> QED BY <3>1
  <2>4. Len(a) = n /\ Len(b) = n /\ Len(ra) = n /\ Len(rb) = n
    BY <1>1, <2>1, <2>2, <2>3 DEF TestInv, Progress, Sequences
  <2>5. PICK H, G : Ran(H, ops, a, ra) /\ Ran(G, ops, b, rb)
    BY <1>1, <2>1, <2>2 DEF TestInv, Histories, HasRun
  <2>6. PICK diff : diff = TraceDiff(ra, rb)
    OBVIOUS
  <2>7. PICK D : D = Differing(a, b, n)
    OBVIOUS
  <2>8. BeginsWithFirst(diff, ra, rb, n)
    BY <2>4, <2>6, TraceDiffIsFirst
  <2>9. FirstIsLeast(ra, rb, n, D)
    BY <2>4, <2>5, <2>7, FirstRowIsOfFirstAnswer
  <2>10. diff = <<>> => D = {}
    <3>1. Len(<<>>) = 0
      OBVIOUS
    <3> QED BY <2>8, <2>9, <3>1 DEF BeginsWithFirst, FirstIsLeast
  <2>11. D = {} => diff = <<>>
    BY <2>8, <2>9 DEF BeginsWithFirst, FirstPair, FirstIsLeast
  <2>12. diff # <<>> => \E i \in D : /\ \A j \in D : i <= j
                                     /\ diff[1] = RowIsDifferent(ra[i], rb[i])
    BY <2>8, <2>9 DEF BeginsWithFirst, FirstIsLeast
  <2>13. D = {i \in DOMAIN workload : Answer("fst", i) # Answer("snd", i)}
    BY <2>1, <2>3, <2>7 DEF Differing, Answer
  <2> QED BY <2>1, <2>6, <2>10, <2>11, <2>12, <2>13 DEF FirstDifferenceIsReal
<1> QED BY InitLeft, NextLeft, InitTest, NextTest, <1>1, PTL DEF Spec

=============================================================================
