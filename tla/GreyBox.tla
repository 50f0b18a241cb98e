-------------------------------- MODULE GreyBox --------------------------------
(***************************************************************************)
(* The grey-box fuzzer (fuzzing/greybox/fuzzer.rs, schedule.rs, feedback/): *)
(* it chooses a seed, mutates and runs it, and keeps the mutated workload   *)
(* as a seed of its own when its run covers something new.                  *)
(*                                                                          *)
(* A seed is its coverage and the number of times it was chosen: workloads  *)
(* are the matter of Mutator.  A coverage is a set of addresses; a file     *)
(* system of coverage type None covers nothing.  The first file system is   *)
(* measured by lcov, whose reports are read line by line, the second by     *)
(* kcov, which gives the addresses as they are.                             *)
(***************************************************************************)
EXTENDS LCov, FiniteSets

CONSTANTS
  FstReports,          \* the reports lcov may write of a run
  FstAddrs, SndAddrs,  \* what runs of either file system may cover
  Schedulers,          \* the schedulers a configuration may name
  InitialInputs,       \* the number of workloads in the initial corpus
  TestCount,           \* runs of the campaign: test_count
  Ms                   \* what greybox.m_constant may be

ASSUME GreyBoxAssumption ==
  /\ IsFiniteSet(FstAddrs) /\ IsFiniteSet(SndAddrs)
  /\ \A report \in FstReports :
       WellFormed(report) /\ Coverage(report) \cup Reported(report) \subseteq FstAddrs
  /\ Schedulers \subseteq {"Queue", "Fast"}
  /\ InitialInputs \in Nat /\ TestCount \in Nat /\ Ms \subseteq Nat

VARIABLES
  scheduler,     \* never changed
  m_constant,    \* of the Fast scheduler, never changed
  phase,         \* "pick", "run", then "done" or "failed"
  executions,    \* runs completed
  next_initial,  \* workloads of the initial corpus taken
  corpus,        \* the seeds
  next_index,    \* the index the queue goes on at, from zero
  fst_map,       \* the counts of fst_coverage_feedback; zero stands for no entry
  snd_map,       \* those of snd_coverage_feedback
  waited,        \* history: choices since each seed was chosen or added
  executed       \* history: the lines reported of the runs that were looked at

config == <<scheduler, m_constant>>
vars == <<config, phase, executions, next_initial, corpus, next_index,
          fst_map, snd_map, waited, executed>>

Seed(fst, snd) == [times_choosen |-> 0, fst |-> fst, snd |-> snd]

Init ==
  /\ scheduler \in Schedulers /\ m_constant \in Ms
  /\ phase = "pick" /\ executions = 0 /\ next_initial = 0
  /\ corpus = <<Seed({}, {})>> /\ next_index = 0
  /\ fst_map = [a \in FstAddrs |-> 0] /\ snd_map = [a \in SndAddrs |-> 0]
  /\ waited = <<0>> /\ executed = {}

(***************************************************************************)
(* pick_input.                                                              *)
(***************************************************************************)
Picking == phase = "pick" /\ executions < TestCount

PickInitial ==
  /\ Picking /\ next_initial < InitialInputs
  /\ next_initial' = next_initial + 1 /\ phase' = "run"
  /\ UNCHANGED <<config, executions, corpus, next_index, fst_map, snd_map, waited, executed>>

Chosen(i) ==
  /\ corpus' = [corpus EXCEPT ![i].times_choosen = @ + 1]
  /\ waited' = [j \in DOMAIN corpus |-> IF j = i THEN 0 ELSE waited[j] + 1]
  /\ phase' = "run"
  /\ UNCHANGED <<config, executions, next_initial, fst_map, snd_map, executed>>

\* Mutants: the queue wraps one seed late, or one too early.
QueuePositionLate  == IF next_index > Len(corpus) THEN 0 ELSE next_index
QueuePositionEarly == IF next_index + 1 >= Len(corpus) THEN 0 ELSE next_index

QueuePosition == IF next_index >= Len(corpus) THEN 0 ELSE next_index

ChooseFromQueue ==
  /\ Picking /\ next_initial = InitialInputs /\ scheduler = "Queue"
  /\ Chosen(QueuePosition + 1)
  /\ next_index' = QueuePosition + 1

(* Fractions are pairs of numbers; 1/0 is infinite.                         *)
LessThan(p, q) == p[1] * q[2] < q[1] * p[2]
Inverse(p) == <<p[2], p[1]>>

(* The count of the least frequent address of the path; one that has no     *)
(* entry counts as one.                                                     *)
Frequency(map, a) == IF map[a] = 0 THEN 1 ELSE map[a]

PathFrequency(coverage, map) ==
  IF coverage = {} THEN 1
  ELSE CHOOSE n \in {Frequency(map, a) : a \in coverage} :
         \A a \in coverage : n <= Frequency(map, a)

Power(times_choosen, coverage, map) ==
  LET p == <<2 ^ times_choosen, PathFrequency(coverage, map)>>
  IN  IF LessThan(p, <<m_constant, 1>>) THEN p ELSE <<m_constant, 1>>

SeedPower(i) ==
  LET fst == Power(corpus[i].times_choosen, corpus[i].fst, fst_map)
      snd == Power(corpus[i].times_choosen, corpus[i].snd, snd_map)
  IN  IF LessThan(fst, snd) THEN fst ELSE snd

(* The weight a seed is drawn with.                                         *)
Weight(i) == Inverse(SeedPower(i))

WeightsAreFinite == \A i \in DOMAIN corpus : LessThan(<<0, 1>>, SeedPower(i))

ChooseByWeight ==
  /\ Picking /\ next_initial = InitialInputs /\ scheduler = "Fast"
  /\ WeightsAreFinite
  /\ \E i \in DOMAIN corpus : LessThan(<<0, 1>>, Weight(i)) /\ Chosen(i)
  /\ UNCHANGED next_index

(* When m_constant is zero no power is above it and every weight is         *)
(* infinite: rand panics rather than draw by such weights.                  *)
ChooseFails ==
  /\ Picking /\ next_initial = InitialInputs /\ scheduler = "Fast"
  /\ ~WeightsAreFinite /\ phase' = "failed"
  /\ UNCHANGED <<config, executions, next_initial, corpus, next_index, fst_map, snd_map, waited, executed>>

(***************************************************************************)
(* The rest of fuzz_one.                                                    *)
(***************************************************************************)
Counted(map, coverage) ==
  [a \in DOMAIN map |-> IF a \in coverage THEN map[a] + 1 ELSE map[a]]

\* Mutant: any coverage is interesting.
IsInterestingAny(map, coverage) == coverage # {}

IsInteresting(map, coverage) == \E a \in coverage : map[a] = 0

EndRun == phase' = "pick" /\ executions' = executions + 1

\* Mutant: the second opinion is asked for only if the first is not interested.
SndCountedLazily(fst, snd) ==
  IF IsInteresting(fst_map, fst) THEN snd_map ELSE Counted(snd_map, snd)

SndCounted(fst, snd) == Counted(snd_map, snd)

(* What a run of the first file system leaves, and what is read of it.      *)
Measured ==
  {[coverage |-> Coverage(report), reported |-> Reported(report)] : report \in FstReports}

(* The two traces agree, and so do the trees: both opinions are heard.      *)
QuietRun(fst, snd) ==
  /\ fst_map' = Counted(fst_map, fst)
  /\ snd_map' = SndCounted(fst, snd)
  /\ IF IsInteresting(fst_map, fst) \/ IsInteresting(snd_map, snd)
     THEN corpus' = Append(corpus, Seed(fst, snd)) /\ waited' = Append(waited, 0)
     ELSE UNCHANGED <<corpus, waited>>

RunQuietly ==
  /\ phase = "run"
  /\ \E run \in Measured, snd \in SUBSET SndAddrs :
       QuietRun(run.coverage, snd) /\ executed' = executed \cup run.reported
  /\ EndRun
  /\ UNCHANGED <<config, next_initial, next_index>>

(* The seed is kept, but sending the statistics or saving it fails.         *)
SavingFails ==
  /\ phase = "run" /\ phase' = "failed"
  /\ \E run \in Measured, snd \in SUBSET SndAddrs :
       /\ IsInteresting(fst_map, run.coverage) \/ IsInteresting(snd_map, snd)
       /\ QuietRun(run.coverage, snd) /\ executed' = executed \cup run.reported
  /\ UNCHANGED <<config, executions, next_initial, next_index>>

(* Errors in both traces, a difference, a panic or a timeout are reported,  *)
(* and the coverage of the run is not looked at.                            *)
RunReported ==
  /\ phase = "run"
  /\ EndRun
  /\ UNCHANGED <<config, next_initial, corpus, next_index, fst_map, snd_map, waited, executed>>

(* An error ends the campaign: a mount, a run, a report or the first        *)
(* opinion fails,                                                           *)
RunFails ==
  /\ phase = "run" /\ phase' = "failed"
  /\ UNCHANGED <<config, executions, next_initial, corpus, next_index, fst_map, snd_map, waited, executed>>

(* or the second one, when the first has counted.                           *)
SndOpinionFails ==
  /\ phase = "run" /\ phase' = "failed"
  /\ \E run \in Measured : fst_map' = Counted(fst_map, run.coverage)
  /\ UNCHANGED <<config, executions, next_initial, corpus, next_index, snd_map, waited, executed>>

Finish ==
  /\ phase = "pick" /\ executions = TestCount /\ phase' = "done"
  /\ UNCHANGED <<config, executions, next_initial, corpus, next_index, fst_map, snd_map, waited, executed>>

Ended == phase \in {"done", "failed"} /\ UNCHANGED vars

Next ==
  \/ PickInitial \/ ChooseFromQueue \/ ChooseByWeight \/ ChooseFails
  \/ RunQuietly \/ SavingFails \/ RunReported \/ RunFails \/ SndOpinionFails
  \/ Finish \/ Ended

Spec == Init /\ [][Next]_vars

(***************************************************************************)
(* Properties.                                                              *)
(***************************************************************************)
Seeds == [times_choosen : Nat, fst : SUBSET FstAddrs, snd : SUBSET SndAddrs]

\* The position of the queue is never beyond its end, and there is always a seed.
TypeOK ==
  /\ scheduler \in Schedulers /\ m_constant \in Ms
  /\ phase \in {"pick", "run", "done", "failed"}
  /\ executions \in 0 .. TestCount /\ (phase = "run" => executions < TestCount)
  /\ next_initial \in 0 .. InitialInputs
  /\ corpus \in Seq(Seeds) /\ corpus # <<>> /\ next_index \in 0 .. Len(corpus)
  /\ fst_map \in [FstAddrs -> Nat] /\ snd_map \in [SndAddrs -> Nat]
  /\ waited \in Seq(Nat) /\ Len(waited) = Len(corpus)
  /\ executed \subseteq FstAddrs

\* An address has been counted exactly if a seed covers it, as long as no error
\* ended the campaign between the two opinions: nothing is covered without a seed
\* to show for it, and the frequency of a seed's path is that of its rarest address,
\* never the one that stands in for an address without a count
\* (fuzzer.rs:297-317, kcov.rs:34-56, schedule.rs:127-142).
CountedIffInSeed ==
  phase # "failed" =>
    /\ \A a \in FstAddrs : fst_map[a] > 0 <=> \E i \in DOMAIN corpus : a \in corpus[i].fst
    /\ \A a \in SndAddrs : snd_map[a] > 0 <=> \E i \in DOMAIN corpus : a \in corpus[i].snd

\* Every seed but the first covers something that none before it covers: the
\* corpus stays smaller than what there is to cover (fuzzer.rs:305-312).
SeedsCoverSomethingNew ==
  \A i \in DOMAIN corpus \ {1} :
    \/ \E a \in corpus[i].fst : \A j \in 1 .. i - 1 : a \notin corpus[j].fst
    \/ \E a \in corpus[i].snd : \A j \in 1 .. i - 1 : a \notin corpus[j].snd

\* The queue passes no seed over: each is chosen again before more choices than
\* there are seeds, although seeds are added behind it (schedule.rs:43-50).
QueueIsFair ==
  scheduler = "Queue" => \A i \in DOMAIN corpus : waited[i] < Len(corpus)

\* The frequencies kept are of the lines lcov reported as executed, each in the file
\* whose record it stands in: no line is left over for the next file of a report,
\* and no file hides another one.  Where a report holds several records of one file,
\* what counts is the last of them: it hides the lines of those before it
\* (lcov.rs:63-89, 96-116, 126-154).
CoverageIsOfExecutedLines ==
  phase # "failed" => {a \in FstAddrs : fst_map[a] > 0} = executed

=============================================================================
