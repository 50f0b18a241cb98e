----------------------------- MODULE GreyBoxProofs -----------------------------
(***************************************************************************)
(* The invariants of the grey-box fuzzer, for any addresses, any number of  *)
(* runs and both schedulers.                                                *)
(***************************************************************************)
EXTENDS GreyBox, WellFoundedInduction, TLAPS

USE DEF config

(***************************************************************************)
(* Lemmas about the operators.                                              *)
(***************************************************************************)

(* The queue goes on at a seed that there is.                               *)
LEMMA QueuePositionInCorpus ==
  ASSUME TypeOK
  PROVE  QueuePosition \in 0 .. Len(corpus) - 1
  BY DEF TypeOK, QueuePosition

(* A run counts the addresses it covers, and no others.                     *)
LEMMA CountedCounts ==
  ASSUME NEW A, NEW map \in [A -> Nat], NEW coverage \in SUBSET A
  PROVE  /\ Counted(map, coverage) \in [A -> Nat]
         /\ \A a \in A : Counted(map, coverage)[a] > 0 <=> map[a] > 0 \/ a \in coverage
  BY DEF Counted

(* What is read of a report, and what it says, are known addresses.         *)
LEMMA MeasuredAddresses ==
  \A run \in Measured : run.coverage \in SUBSET FstAddrs /\ run.reported \in SUBSET FstAddrs
  BY GreyBoxAssumption DEF Measured

LEMMA QuietRunCovers ==
  ASSUME RunQuietly \/ SavingFails
  PROVE  /\ \E fst \in SUBSET FstAddrs, snd \in SUBSET SndAddrs : QuietRun(fst, snd)
         /\ UNCHANGED <<config, next_initial, next_index>> /\ phase = "run"
         /\ executed \subseteq FstAddrs => executed' \subseteq FstAddrs
  BY MeasuredAddresses DEF RunQuietly, SavingFails

(***************************************************************************)
(* Types.                                                                   *)
(***************************************************************************)
LEMMA ChosenKeepsTypes ==
  ASSUME TypeOK, Picking, NEW i \in DOMAIN corpus, Chosen(i), next_index' \in 0 .. Len(corpus)
  PROVE  TypeOK'
<1>1. corpus \in Seq(Seeds) /\ corpus[i] \in Seeds
  BY DEF TypeOK
<1>2. PICK seed \in Seeds : corpus' = [corpus EXCEPT ![i] = seed]
  <2>1. [corpus[i] EXCEPT !.times_choosen = @ + 1] \in Seeds
    BY <1>1 DEF Seeds
  <2> QED
    BY <2>1 DEF Chosen
<1>3. corpus' \in Seq(Seeds) /\ Len(corpus') = Len(corpus)
  BY <1>1, <1>2
<1>4. waited' \in Seq(Nat) /\ Len(waited') = Len(corpus)
  <2>1. waited' \in [1 .. Len(corpus) -> Nat]
    BY <1>1 DEF TypeOK, Chosen
  <2> QED
    BY <2>1, <1>1
<1> QED
  BY <1>3, <1>4 DEF TypeOK, Chosen, Picking

(* The type invariant: the queue's position stays within the corpus, which  *)
(* is never empty, in every step of the fuzzer.                             *)
THEOREM TypeCorrect == Spec => []TypeOK
<1>1. Init => TypeOK
  BY GreyBoxAssumption DEF Init, TypeOK, Seed, Seeds
<1>2. ASSUME TypeOK, [Next]_vars PROVE TypeOK'
  <2> USE <1>2
  <2>1. CASE PickInitial
    BY <2>1, GreyBoxAssumption DEF PickInitial, Picking, TypeOK
  <2>2. CASE ChooseFromQueue
    <3>1. QueuePosition + 1 \in DOMAIN corpus
      BY QueuePositionInCorpus DEF TypeOK
    <3> QED
      BY <2>2, <3>1, ChosenKeepsTypes DEF ChooseFromQueue, TypeOK
  <2>3. CASE ChooseByWeight
    BY <2>3, ChosenKeepsTypes DEF ChooseByWeight, TypeOK
  <2>4. CASE RunQuietly \/ SavingFails
    <3>1. PICK fst \in SUBSET FstAddrs, snd \in SUBSET SndAddrs :
            /\ fst_map' = Counted(fst_map, fst) /\ snd_map' = Counted(snd_map, snd)
            /\ \/ corpus' = Append(corpus, Seed(fst, snd)) /\ waited' = Append(waited, 0)
               \/ UNCHANGED <<corpus, waited>>
      BY <2>4, QuietRunCovers DEF QuietRun, SndCounted
    <3>2. fst_map' \in [FstAddrs -> Nat] /\ snd_map' \in [SndAddrs -> Nat]
      BY <3>1, CountedCounts DEF TypeOK
    <3>3. /\ corpus' \in Seq(Seeds) /\ corpus' # <<>>
          /\ waited' \in Seq(Nat) /\ Len(waited') = Len(corpus')
          /\ Len(corpus') >= Len(corpus)
      <4>1. Seed(fst, snd) \in Seeds
        BY DEF Seed, Seeds
      <4>2. CASE UNCHANGED <<corpus, waited>>
        BY <4>2 DEF TypeOK
      <4>3. CASE corpus' = Append(corpus, Seed(fst, snd)) /\ waited' = Append(waited, 0)
        BY <4>1, <4>3 DEF TypeOK
      <4> QED
        BY <3>1, <4>2, <4>3
    <3>4. executions' \in 0 .. TestCount /\ phase' \in {"pick", "failed"}
      BY <2>4, GreyBoxAssumption DEF RunQuietly, SavingFails, EndRun, TypeOK
    <3> QED
      BY <2>4, QuietRunCovers, <3>2, <3>3, <3>4 DEF TypeOK
  <2>5. CASE SndOpinionFails
    <3>1. PICK fst \in SUBSET FstAddrs : fst_map' = Counted(fst_map, fst)
      BY <2>5, MeasuredAddresses DEF SndOpinionFails
    <3>2. fst_map' \in [FstAddrs -> Nat]
      BY <3>1, CountedCounts DEF TypeOK
    <3> QED
      BY <2>5, <3>2 DEF SndOpinionFails, TypeOK
  <2>6. CASE RunReported \/ RunFails \/ ChooseFails \/ Finish \/ Ended \/ UNCHANGED vars
    BY <2>6, GreyBoxAssumption DEF RunReported, EndRun, RunFails, ChooseFails, Finish, Ended, TypeOK, vars
  <2> QED
    BY <2>1, <2>2, <2>3, <2>4, <2>5, <2>6 DEF Next
<1> QED
  BY <1>1, <1>2, PTL DEF Spec

(***************************************************************************)
(* The queue.                                                               *)
(***************************************************************************)
(* How long each of n seeds has waited when the queue is at position x:     *)
(* those behind it were chosen in this round, those from it on in the last  *)
(* one, or were added since.                                                *)
WaitBound(w, x, n) ==
  \A i \in 1 .. n :
    /\ w[i] \in Nat
    /\ i <= x => w[i] = x - i
    /\ i > x => w[i] <= x + n - i

QueueInv == scheduler = "Queue" => WaitBound(waited, next_index, Len(corpus))

LEMMA WaitBoundAfterChoice ==
  ASSUME NEW n \in Nat \ {0}, NEW x \in 0 .. n, NEW w, WaitBound(w, x, n), NEW q,
         q = IF x >= n THEN 0 ELSE x
  PROVE  WaitBound([j \in 1 .. n |-> IF j = q + 1 THEN 0 ELSE w[j] + 1], q + 1, n)
<1>1. CASE x = n
  BY <1>1 DEF WaitBound
<1>2. CASE x < n
  BY <1>2 DEF WaitBound
<1> QED
  BY <1>1, <1>2

LEMMA WaitBoundAfterAddition ==
  ASSUME NEW n \in Nat, NEW x \in 0 .. n, NEW w \in Seq(Nat), Len(w) = n, WaitBound(w, x, n)
  PROVE  WaitBound(Append(w, 0), x, n + 1)
  BY DEF WaitBound

LEMMA QueueChoiceKeepsInv ==
  ASSUME TypeOK, QueueInv, ChooseFromQueue
  PROVE  QueueInv'
<1> DEFINE n == Len(corpus)
<1>1. n \in Nat \ {0} /\ DOMAIN corpus = 1 .. n /\ next_index \in 0 .. n
  BY DEF TypeOK
<1>2. /\ next_index' = QueuePosition + 1 /\ Len(corpus') = n
      /\ waited' = [j \in 1 .. n |-> IF j = QueuePosition + 1 THEN 0 ELSE waited[j] + 1]
  <2>1. DOMAIN corpus' = 1 .. n /\ corpus' \in Seq(Seeds)
    <3>1. QueuePosition + 1 \in DOMAIN corpus
      BY QueuePositionInCorpus, <1>1
    <3>2. TypeOK'
      BY <3>1, <1>1, ChosenKeepsTypes DEF ChooseFromQueue
    <3> QED
      BY <3>1, <3>2, <1>1 DEF ChooseFromQueue, Chosen, TypeOK
  <2> QED
    BY <2>1, <1>1 DEF ChooseFromQueue, Chosen
<1>3. WaitBound(waited, next_index, n)
  BY DEF QueueInv, ChooseFromQueue
<1>4. WaitBound(waited', next_index', n)
  BY <1>1, <1>2, <1>3, WaitBoundAfterChoice DEF QueuePosition
<1> QED
  BY <1>2, <1>4 DEF QueueInv

(* No seed waits for more choices than there are seeds, however many are    *)
(* added while it waits.                                                    *)
THEOREM QueueFair == Spec => []QueueIsFair
<1>1. Init => QueueInv
  BY DEF Init, QueueInv, WaitBound
<1>2. ASSUME TypeOK, QueueInv, [Next]_vars PROVE QueueInv'
  <2> USE <1>2
  <2>1. CASE ChooseFromQueue
    BY <2>1, QueueChoiceKeepsInv
  <2>2. CASE ChooseByWeight
    BY <2>2 DEF ChooseByWeight, Chosen, QueueInv
  <2>3. CASE RunQuietly \/ SavingFails
    <3>1. PICK fst \in SUBSET FstAddrs, snd \in SUBSET SndAddrs :
            \/ corpus' = Append(corpus, Seed(fst, snd)) /\ waited' = Append(waited, 0)
            \/ UNCHANGED <<corpus, waited>>
      BY <2>3, QuietRunCovers DEF QuietRun
    <3>2. CASE UNCHANGED <<corpus, waited>>
      BY <2>3, QuietRunCovers, <3>2 DEF QueueInv
    <3>3. CASE corpus' = Append(corpus, Seed(fst, snd)) /\ waited' = Append(waited, 0)
      <4>1. Len(corpus') = Len(corpus) + 1
        BY <3>3 DEF TypeOK
      <4>2. WaitBound(waited, next_index, Len(corpus)) =>
              WaitBound(waited', next_index, Len(corpus) + 1)
        BY <3>3, WaitBoundAfterAddition DEF TypeOK
      <4> QED
        BY <2>3, QuietRunCovers, <4>1, <4>2 DEF QueueInv
    <3> QED
      BY <3>1, <3>2, <3>3
  <2>4. CASE \/ PickInitial \/ RunReported \/ RunFails \/ ChooseFails \/ SndOpinionFails
             \/ Finish \/ Ended \/ UNCHANGED vars
    BY <2>4 DEF PickInitial, RunReported, RunFails, ChooseFails, SndOpinionFails, Finish, Ended, QueueInv, vars
  <2> QED
    BY <2>1, <2>2, <2>3, <2>4 DEF Next
<1>3. TypeOK /\ QueueInv => QueueIsFair
  BY DEF TypeOK, QueueInv, WaitBound, QueueIsFair
<1> QED
  BY <1>1, <1>2, <1>3, TypeCorrect, PTL DEF Spec

(***************************************************************************)
(* The corpus.                                                              *)
(***************************************************************************)
LEMMA ChosenKeepsCoverage ==
  ASSUME TypeOK, NEW i \in DOMAIN corpus, Chosen(i)
  PROVE  /\ DOMAIN corpus' = DOMAIN corpus
         /\ \A j \in DOMAIN corpus :
              corpus'[j].fst = corpus[j].fst /\ corpus'[j].snd = corpus[j].snd
  BY DEF TypeOK, Chosen, Seeds

CorpusInv == CountedIffInSeed /\ SeedsCoverSomethingNew

(* Coverages and counts decide the invariant.                               *)
LEMMA SameCoverageKeepsInv ==
  ASSUME TypeOK, CorpusInv, phase # "failed",
         DOMAIN corpus' = DOMAIN corpus,
         \A j \in DOMAIN corpus : corpus'[j].fst = corpus[j].fst /\ corpus'[j].snd = corpus[j].snd,
         UNCHANGED <<fst_map, snd_map>>
  PROVE  CorpusInv'
<1>1. CountedIffInSeed'
  BY DEF CorpusInv, CountedIffInSeed
<1>2. SeedsCoverSomethingNew'
  <2> SUFFICES ASSUME NEW i \in DOMAIN corpus \ {1}
               PROVE  \/ \E a \in corpus[i].fst : \A j \in 1 .. i - 1 : a \notin corpus'[j].fst
                      \/ \E a \in corpus[i].snd : \A j \in 1 .. i - 1 : a \notin corpus'[j].snd
    BY DEF SeedsCoverSomethingNew
  <2>1. 1 .. i - 1 \subseteq DOMAIN corpus
    BY DEF TypeOK
  <2> QED
    BY <2>1 DEF CorpusInv, SeedsCoverSomethingNew
<1> QED
  BY <1>1, <1>2 DEF CorpusInv

(* What the run of a new seed does to counts and corpus.                    *)
LEMMA NewSeedKeepsInv ==
  ASSUME TypeOK, CorpusInv, phase = "run",
         NEW fst \in SUBSET FstAddrs, NEW snd \in SUBSET SndAddrs,
         fst_map' = Counted(fst_map, fst), snd_map' = Counted(snd_map, snd),
         IsInteresting(fst_map, fst) \/ IsInteresting(snd_map, snd),
         corpus' = Append(corpus, Seed(fst, snd))
  PROVE  CorpusInv'
<1> DEFINE n == Len(corpus)
<1>1. /\ n \in Nat /\ DOMAIN corpus = 1 .. n /\ DOMAIN corpus' = 1 .. n + 1
      /\ corpus'[n + 1].fst = fst /\ corpus'[n + 1].snd = snd
      /\ \A j \in 1 .. n : corpus'[j] = corpus[j]
  BY DEF TypeOK, Seed
<1>2. /\ \A a \in FstAddrs : fst_map'[a] > 0 <=> fst_map[a] > 0 \/ a \in fst
      /\ \A a \in SndAddrs : snd_map'[a] > 0 <=> snd_map[a] > 0 \/ a \in snd
  BY CountedCounts DEF TypeOK
<1>3. /\ \A a \in FstAddrs : fst_map[a] > 0 <=> \E i \in 1 .. n : a \in corpus[i].fst
      /\ \A a \in SndAddrs : snd_map[a] > 0 <=> \E i \in 1 .. n : a \in corpus[i].snd
  BY <1>1 DEF CorpusInv, CountedIffInSeed
<1>4. CountedIffInSeed'
  BY <1>1, <1>2, <1>3 DEF CountedIffInSeed
<1>5. \/ \E a \in fst : \A j \in 1 .. n : a \notin corpus[j].fst
      \/ \E a \in snd : \A j \in 1 .. n : a \notin corpus[j].snd
  BY <1>3 DEF IsInteresting
<1>6. SeedsCoverSomethingNew'
  <2> SUFFICES ASSUME NEW i \in (1 .. n + 1) \ {1}
               PROVE  \/ \E a \in corpus'[i].fst : \A j \in 1 .. i - 1 : a \notin corpus'[j].fst
                      \/ \E a \in corpus'[i].snd : \A j \in 1 .. i - 1 : a \notin corpus'[j].snd
    BY <1>1 DEF SeedsCoverSomethingNew
  <2>1. CASE i = n + 1
    BY <1>1, <1>5, <2>1
  <2>2. CASE i \in 1 .. n
    BY <1>1, <2>2 DEF CorpusInv, SeedsCoverSomethingNew
  <2> QED
    BY <1>1, <2>1, <2>2
<1> QED
  BY <1>4, <1>6 DEF CorpusInv

(* A run of nothing new counts what seeds cover already.                    *)
LEMMA NothingNewKeepsInv ==
  ASSUME TypeOK, CorpusInv, phase = "run",
         NEW fst \in SUBSET FstAddrs, NEW snd \in SUBSET SndAddrs,
         fst_map' = Counted(fst_map, fst), snd_map' = Counted(snd_map, snd),
         ~IsInteresting(fst_map, fst), ~IsInteresting(snd_map, snd),
         corpus' = corpus
  PROVE  CorpusInv'
<1>1. /\ \A a \in FstAddrs : fst_map'[a] > 0 <=> fst_map[a] > 0
      /\ \A a \in SndAddrs : snd_map'[a] > 0 <=> snd_map[a] > 0
  <2>1. /\ \A a \in FstAddrs : fst_map'[a] > 0 <=> fst_map[a] > 0 \/ a \in fst
        /\ \A a \in SndAddrs : snd_map'[a] > 0 <=> snd_map[a] > 0 \/ a \in snd
    BY CountedCounts DEF TypeOK
  <2>2. (\A a \in fst : fst_map[a] > 0) /\ (\A a \in snd : snd_map[a] > 0)
    BY DEF TypeOK, IsInteresting
  <2> QED
    BY <2>1, <2>2
<1> QED
  BY <1>1 DEF CorpusInv, CountedIffInSeed, SeedsCoverSomethingNew

LEMMA CorpusInvStep ==
  ASSUME TypeOK, CorpusInv, [Next]_vars
  PROVE  CorpusInv'
<1>1. CASE ChooseFromQueue
  <2>1. QueuePosition + 1 \in DOMAIN corpus
    BY QueuePositionInCorpus DEF TypeOK
  <2> QED
    BY <1>1, <2>1, ChosenKeepsCoverage, SameCoverageKeepsInv DEF ChooseFromQueue, Chosen, Picking
<1>2. CASE ChooseByWeight
  <2>1. PICK i \in DOMAIN corpus : Chosen(i)
    BY <1>2 DEF ChooseByWeight
  <2> QED
    BY <1>2, <2>1, ChosenKeepsCoverage, SameCoverageKeepsInv DEF ChooseByWeight, Chosen, Picking
<1>3. CASE RunQuietly \/ SavingFails
  <2>1. PICK fst \in SUBSET FstAddrs, snd \in SUBSET SndAddrs :
          /\ fst_map' = Counted(fst_map, fst) /\ snd_map' = Counted(snd_map, snd)
          /\ IF IsInteresting(fst_map, fst) \/ IsInteresting(snd_map, snd)
             THEN corpus' = Append(corpus, Seed(fst, snd))
             ELSE corpus' = corpus
    BY <1>3, QuietRunCovers DEF QuietRun, SndCounted
  <2> QED
    BY <1>3, QuietRunCovers, <2>1, NewSeedKeepsInv, NothingNewKeepsInv
<1>4. CASE SndOpinionFails
  BY <1>4 DEF SndOpinionFails, CorpusInv, CountedIffInSeed, SeedsCoverSomethingNew
<1>5. CASE PickInitial \/ RunReported \/ RunFails \/ ChooseFails \/ Finish \/ Ended \/ UNCHANGED vars
  BY <1>5 DEF PickInitial, Picking, RunReported, RunFails, ChooseFails, Finish, Ended, vars,
              CorpusInv, CountedIffInSeed, SeedsCoverSomethingNew
<1> QED
  BY <1>1, <1>2, <1>3, <1>4, <1>5 DEF Next

LEMMA CorpusInvariant == Spec => []CorpusInv
<1>1. Init => CorpusInv
  BY DEF Init, Seed, CorpusInv, CountedIffInSeed, SeedsCoverSomethingNew
<1>2. TypeOK /\ CorpusInv /\ [Next]_vars => CorpusInv'
  BY CorpusInvStep
<1> QED
  BY <1>1, <1>2, TypeCorrect, PTL DEF Spec

(* Until an error ends the campaign, an address has been counted exactly if *)
(* a seed of the corpus covers it: no coverage is forgotten.                *)
THEOREM NothingCoveredIsForgotten == Spec => []CountedIffInSeed
<1>1. CorpusInv => CountedIffInSeed
  BY DEF CorpusInv
<1> QED
  BY <1>1, CorpusInvariant, PTL

(* Each seed has been kept for something that no seed before it covers.     *)
THEOREM CorpusHoldsNothingTwice == Spec => []SeedsCoverSomethingNew
<1>1. CorpusInv => SeedsCoverSomethingNew
  BY DEF CorpusInv
<1> QED
  BY <1>1, CorpusInvariant, PTL
(***************************************************************************)
(* The reader of lcov reports.                                              *)
(***************************************************************************)

(* Induction: a set that holds 0 and the successors of its members holds    *)
(* every natural number.                                                    *)
LEMMA NatSetInduction ==
  ASSUME NEW T, 0 \in T, \A n \in Nat : n \in T => n + 1 \in T
  PROVE  Nat \subseteq T
<1> SUFFICES ASSUME Nat \ T # {}
             PROVE  FALSE
  OBVIOUS
<1>1. PICK R : R = OpToRel(<, Nat)
  OBVIOUS
<1>2. IsWellFoundedOn(R, Nat)
  BY <1>1, NatLessThanWellFounded
<1>3. \A y, z \in Nat : y < z => <<y, z>> \in R
  BY <1>1 DEF OpToRel
<1>4. PICK n \in Nat \ T : \A m \in Nat \ T : ~ (<<m, n>> \in R)
  BY <1>2, WFMin
<1>5. n # 0 /\ n - 1 \in Nat /\ n - 1 < n
  BY <1>4
<1>6. n - 1 \in T
  BY <1>3, <1>4, <1>5
<1> QED BY <1>4, <1>5, <1>6

(* The readers after each of the first n lines.                             *)
IsReading(f, report, n) ==
  f[0] = NewReader /\ \A k \in 1 .. n : f[k] = ReadLine(f[k - 1], report[k])

(* There are such readers for every n.                                      *)
LEMMA ReadingExists ==
  ASSUME NEW report, NEW n \in Nat
  PROVE  \E f : IsReading(f, report, n)
<1> DEFINE T == {m \in Nat : \E f : IsReading(f, report, m)}
<1>1. 0 \in T
  <2>1. IsReading([i \in {0} |-> NewReader], report, 0)
    BY DEF IsReading
  <2> QED BY <2>1
<1>2. ASSUME NEW m \in Nat, m \in T
      PROVE  m + 1 \in T
  <2>1. PICK f : IsReading(f, report, m)
    BY <1>2
  <2> DEFINE last == ReadLine(f[m], report[m + 1])
             h    == [i \in 0 .. m + 1 |-> IF i = m + 1 THEN last ELSE f[i]]
  <2>2. h[0] = NewReader
    BY <2>1 DEF IsReading
  <2>3. ASSUME NEW k \in 1 .. m + 1
        PROVE  h[k] = ReadLine(h[k - 1], report[k])
    <3>1. CASE k = m + 1
      <4>1. h[k] = last /\ h[k - 1] = f[m]
        BY <3>1
      <4> QED BY <3>1, <4>1
    <3>2. CASE k \in 1 .. m
      <4>1. h[k] = f[k] /\ h[k - 1] = f[k - 1]
        BY <3>2
      <4> QED BY <2>1, <3>2, <4>1 DEF IsReading
    <3> QED BY <3>1, <3>2
  <2>4. IsReading(h, report, m + 1)
    <3> HIDE DEF h
    <3> QED BY <2>2, <2>3 DEF IsReading
  <2> QED BY <2>4
<1> HIDE DEF T
<1>3. Nat \subseteq T
  BY <1>1, <1>2, NatSetInduction
<1> QED BY <1>3 DEF T

(* Two readings of a report agree.                                          *)
LEMMA ReadingsAgree ==
  ASSUME NEW report, NEW n \in Nat, NEW f, NEW h,
         IsReading(f, report, n), IsReading(h, report, n)
  PROVE  \A k \in 0 .. n : f[k] = h[k]
<1> DEFINE T == {k \in Nat : k <= n => f[k] = h[k]}
<1>1. 0 \in T
  BY DEF IsReading
<1>2. ASSUME NEW k \in Nat, k \in T
      PROVE  k + 1 \in T
  <2> SUFFICES ASSUME k + 1 <= n
               PROVE  f[k + 1] = h[k + 1]
    OBVIOUS
  <2>1. k + 1 \in 1 .. n /\ (k + 1) - 1 = k /\ f[k] = h[k]
    BY <1>2
  <2> QED BY <2>1 DEF IsReading
<1> HIDE DEF T
<1>3. Nat \subseteq T
  BY <1>1, <1>2, NatSetInduction
<1> QED BY <1>3 DEF T

(* The recursive function of ParseFrom satisfies its equation.              *)
LEMMA ParseIsReading ==
  ASSUME NEW report, Len(report) \in Nat
  PROVE  \E f : IsReading(f, report, Len(report)) /\ ParseFrom(report) = f[Len(report)].files
<1> DEFINE Recurs(f) ==
             f = [n \in Nat |-> IF n = 0 THEN NewReader ELSE ReadLine(f[n - 1], report[n])]
           upTo(n) == CHOOSE f : IsReading(f, report, n)
           g == [n \in Nat |-> upTo(n)[n]]
<1>1. ASSUME NEW n \in Nat
      PROVE  IsReading(upTo(n), report, n)
  BY ReadingExists
<1> HIDE DEF upTo
<1>2. g[0] = NewReader
  BY <1>1 DEF IsReading
<1>3. ASSUME NEW n \in Nat, n # 0
      PROVE  g[n] = ReadLine(g[n - 1], report[n])
  <2>1. n - 1 \in Nat /\ n \in 1 .. n /\ n - 1 \in 0 .. n - 1
    BY <1>3
  <2>2. IsReading(upTo(n), report, n - 1) /\ IsReading(upTo(n - 1), report, n - 1)
    BY <1>1, <2>1 DEF IsReading
  <2>3. upTo(n)[n - 1] = upTo(n - 1)[n - 1]
    BY <2>1, <2>2, ReadingsAgree
  <2>4. upTo(n)[n] = ReadLine(upTo(n)[n - 1], report[n])
    BY <1>1, <2>1 DEF IsReading
  <2> QED BY <2>1, <2>3, <2>4
<1>4. Recurs(g)
  <2>1. \A n \in Nat : g[n] = IF n = 0 THEN NewReader ELSE ReadLine(g[n - 1], report[n])
    BY <1>2, <1>3
  <2>2. g = [n \in Nat |-> g[n]]
    OBVIOUS
  <2> HIDE DEF g
  <2> QED BY <2>1, <2>2
<1>5. PICK r : r = CHOOSE f : Recurs(f)
  OBVIOUS
<1>6. ParseFrom(report) = r[Len(report)].files
  BY <1>5 DEF ParseFrom
<1>7. Recurs(r)
  <2> HIDE DEF Recurs, g
  <2> QED BY <1>4, <1>5
<1>8. IsReading(r, report, Len(report))
  <2>1. r[0] = NewReader
    BY <1>7
  <2>2. ASSUME NEW k \in 1 .. Len(report)
        PROVE  r[k] = ReadLine(r[k - 1], report[k])
    <3>1. k \in Nat /\ k # 0
      OBVIOUS
    <3> QED BY <1>7, <3>1
  <2> QED BY <2>1, <2>2 DEF IsReading
<1> QED BY <1>6, <1>8

(* The lines a report has.                                                  *)
LEMMA LineKinds ==
  ASSUME NEW line \in Line
  PROVE  /\ line.tag = "end_of_record" <=> line = EndOfRecord
         /\ line.tag = "SF" => line.file \in DOMAIN ShortFileHash /\ line.file # NoFile
         /\ line.tag = "SF" => line = SourceFileName(line.file)
         /\ line.tag = "DA" => line.count \in Nat
<1>1. CASE line \in [tag : {"SF"}, file : DOMAIN ShortFileHash]
  BY <1>1, LCovAssumption DEF EndOfRecord, SourceFileName
<1>2. CASE line \in [tag : {"DA"}, line : Nat, count : Nat]
  BY <1>2 DEF EndOfRecord
<1>3. CASE line \in [tag : STRING \ {"SF", "DA"}]
  BY <1>3 DEF EndOfRecord
<1> QED BY <1>1, <1>2, <1>3 DEF Line

(* Some record that starts here has ended among the first n lines.          *)
EndedBy(report, s, n) == \E e \in s .. n : report[e] = EndOfRecord

(* The records the reader is in after n lines.                              *)
Open(report, n) == {s \in Starts(report) : s <= n /\ ~EndedBy(report, s, n)}

(* The record is the last of its file that has ended among the first n      *)
(* lines.                                                                   *)
LastEnded(report, s, n) ==
  /\ s \in Starts(report) /\ EndedBy(report, s, n)
  /\ \A t \in Starts(report) : report[t] = report[s] /\ EndedBy(report, t, n) => t <= s

(* The i-th of the first n lines says that this line of the source was      *)
(* executed.                                                                *)
Counts(report, n, i, line) == i \in 1 .. n /\ Executed(report[i]) /\ report[i].line = line

(* The record that starts here says so.                                     *)
Tells(report, n, s, line) == \E i : Counts(report, n, i, line) /\ s \in StartsOf(report, i)

(* What the reader has collected after n lines: the executed lines of the   *)
(* last ended record of each file, and those of the record it is in.        *)
Collected(files, report, n) ==
  \A file, line :
    file \in DOMAIN files /\ line \in files[file] <=>
      \E s : LastEnded(report, s, n) /\ report[s].file = file /\ Tells(report, n, s, line)

Collecting(file, trace, report, n) ==
  IF Open(report, n) = {} THEN file = NoFile /\ trace = {}
  ELSE \A s \in Open(report, n) :
         file = report[s].file /\ \A line : line \in trace <=> Tells(report, n, s, line)

Reader(files, file, trace) == [files |-> files, current_file |-> file, trace |-> trace]

HasRead(reader, report, n) ==
  \E files, file, trace :
    /\ reader = Reader(files, file, trace)
    /\ Collected(files, report, n) /\ Collecting(file, trace, report, n)

(* The reader is in one record at most.                                     *)
LEMMA OneIsOpen ==
  ASSUME NEW report, WellFormed(report), NEW n \in Nat,
         NEW s \in Open(report, n), NEW t \in Open(report, n)
  PROVE  s = t
<1>1. ASSUME NEW u \in Open(report, n), NEW v \in Open(report, n), u < v
      PROVE  FALSE
  <2>1. /\ DOMAIN report \subseteq Nat /\ u \in Starts(report) /\ v \in Starts(report)
        /\ u \in Nat /\ v \in Nat /\ v <= n
    BY DEF WellFormed, Open, Starts
  <2>2. \A k \in u .. v - 1 : k \in u .. n
    BY <2>1
  <2>3. u \in StartsOf(report, v)
    BY <1>1, <2>1, <2>2 DEF StartsOf, Open, EndedBy
  <2>4. v \in StartsOf(report, v)
    BY <2>1 DEF StartsOf
  <2>5. v \in DOMAIN report /\ report[v].tag = "SF"
    BY <2>1 DEF Starts
  <2>6. PICK j : StartsOf(report, v) = {j}
    BY <2>5 DEF WellFormed
  <2> QED BY <1>1, <2>1, <2>3, <2>4, <2>6
<1>2. s \in Nat /\ t \in Nat
  BY DEF WellFormed, Open, Starts
<1> QED BY <1>1, <1>2

(* A line ends the records up to it, or none.                               *)
LEMMA EndedByNext ==
  ASSUME NEW report, NEW n \in Nat, NEW i \in Nat, i <= n + 1
  PROVE  EndedBy(report, i, n + 1) <=> EndedBy(report, i, n) \/ report[n + 1] = EndOfRecord
<1>1. \A e : e \in i .. n + 1 <=> e \in i .. n \/ e = n + 1
  OBVIOUS
<1> QED BY <1>1 DEF EndedBy

(* The records a line may stand in are the open ones, and its own.          *)
LEMMA StandsInOpen ==
  ASSUME NEW report, WellFormed(report), NEW n \in Nat, n + 1 \in DOMAIN report
  PROVE  \A s : s \in StartsOf(report, n + 1) <=>
                  s \in Open(report, n) \/ (s = n + 1 /\ report[n + 1].tag = "SF")
<1>1. DOMAIN report = 1 .. Len(report) /\ Len(report) \in Nat
  BY DEF WellFormed
<1> SUFFICES ASSUME NEW s
             PROVE  s \in StartsOf(report, n + 1) <=>
                      s \in Open(report, n) \/ (s = n + 1 /\ report[n + 1].tag = "SF")
  OBVIOUS
<1>2. (n + 1) - 1 = n
  OBVIOUS
<1>3. CASE s \in Starts(report) /\ s <= n
  <2>1. s # n + 1
    BY <1>1, <1>3 DEF Starts
  <2> QED BY <1>1, <1>2, <1>3, <2>1 DEF StartsOf, Open, EndedBy, Starts
<1>4. CASE s = n + 1
  <2>1. \A k : k \notin n + 1 .. (n + 1) - 1
    OBVIOUS
  <2>2. ~(n + 1 <= n)
    OBVIOUS
  <2> QED BY <1>1, <1>4, <2>1, <2>2 DEF StartsOf, Open, Starts
<1>5. CASE s \notin Starts(report) \/ (~(s <= n) /\ s # n + 1)
  BY <1>1, <1>5 DEF StartsOf, Open, Starts
<1> QED BY <1>3, <1>4, <1>5

(* What a line leaves open.                                                 *)
LEMMA OpenNext ==
  ASSUME NEW report, WellFormed(report), NEW n \in Nat, n + 1 \in DOMAIN report
  PROVE  /\ report[n + 1] = EndOfRecord => Open(report, n + 1) = {}
         /\ report[n + 1] # EndOfRecord => Open(report, n + 1) = StartsOf(report, n + 1)
<1>1. DOMAIN report = 1 .. Len(report) /\ Len(report) \in Nat
  BY DEF WellFormed
<1>2. CASE report[n + 1] = EndOfRecord
  <2>1. ASSUME NEW s \in Starts(report), s <= n + 1
        PROVE  EndedBy(report, s, n + 1)
    <3>1. n + 1 \in s .. n + 1
      BY <1>1, <2>1 DEF Starts
    <3> QED BY <1>2, <3>1 DEF EndedBy
  <2> QED BY <1>2, <2>1 DEF Open
<1>3. CASE report[n + 1] # EndOfRecord
  <2>1. ASSUME NEW s \in Starts(report), s <= n + 1
        PROVE  EndedBy(report, s, n + 1) <=> \E k \in s .. (n + 1) - 1 : report[k] = EndOfRecord
    <3>1. EndedBy(report, s, n + 1) <=> EndedBy(report, s, n)
      BY <1>1, <1>3, <2>1, EndedByNext DEF Starts
    <3>2. (n + 1) - 1 = n
      OBVIOUS
    <3> QED BY <3>1, <3>2 DEF EndedBy
  <2> QED BY <1>3, <2>1 DEF Open, StartsOf
<1> QED BY <1>2, <1>3

(* A line that must stand in a record and starts none stands in the one     *)
(* that is open.                                                            *)
LEMMA StandsIn ==
  ASSUME NEW report, WellFormed(report), NEW n \in Nat, n + 1 \in DOMAIN report,
         report[n + 1].tag \in {"DA", "end_of_record"}
  PROVE  Open(report, n) # {}
<1>1. PICK j : StartsOf(report, n + 1) = {j}
  BY DEF WellFormed
<1>2. report[n + 1].tag # "SF"
  OBVIOUS
<1> QED BY <1>1, <1>2, StandsInOpen

(* What each line makes of a reader.                                        *)
MakesOf(line, files, file, trace, reader) ==
  /\ line.tag = "SF" /\ file = NoFile => reader = Reader(files, line.file, trace)
  /\ Executed(line) => reader = Reader(files, file, trace \cup {line.line})
  /\ line = EndOfRecord /\ file # NoFile =>
       reader = Reader(WithFile(files, file, trace), NoFile, {})
  /\ line.tag # "SF" /\ ~Executed(line) /\ line # EndOfRecord =>
       reader = Reader(files, file, trace)

(* ReadLine does so.                                                        *)
LEMMA ReaderReads ==
  ASSUME NEW files, NEW file, NEW trace, NEW line \in Line
  PROVE  MakesOf(line, files, file, trace, ReadLine(Reader(files, file, trace), line))
<1> USE DEF MakesOf
<1>1. /\ Reader(files, file, trace).files = files /\ Reader(files, file, trace).current_file = file
      /\ Reader(files, file, trace).trace = trace
  BY DEF Reader
<1>2. line.tag = "end_of_record" <=> line = EndOfRecord
  BY LineKinds
<1>3. CASE line.tag = "SF" /\ file = NoFile
  BY <1>1, <1>2, <1>3 DEF ReadLine, Reader, Executed
<1>4. CASE Executed(line)
  BY <1>1, <1>2, <1>4 DEF ReadLine, Reader, Executed
<1>5. CASE line = EndOfRecord /\ file # NoFile
  <2>1. line.tag = "end_of_record"
    BY <1>2, <1>5
  <2>2. ReadLine(Reader(files, file, trace), line) = AddFile(Reader(files, file, trace))
    BY <1>1, <1>5, <2>1 DEF ReadLine
  <2>3. line.tag # "SF" /\ ~Executed(line)
    BY <2>1 DEF Executed
  <2> QED BY <1>1, <1>5, <2>2, <2>3 DEF AddFile, Reader
<1>6. CASE line.tag # "SF" /\ ~Executed(line) /\ line # EndOfRecord
  <2>1. line.tag # "end_of_record"
    BY <1>2, <1>6
  <2> QED BY <1>6, <2>1 DEF ReadLine, Executed
<1> QED BY <1>3, <1>4, <1>5, <1>6

(* A line that ends no record leaves what has been collected.               *)
LEMMA StillCollected ==
  ASSUME NEW report, WellFormed(report), NEW n \in Nat, n + 1 \in DOMAIN report,
         report[n + 1] # EndOfRecord, NEW files, Collected(files, report, n)
  PROVE  Collected(files, report, n + 1)
<1>1. DOMAIN report = 1 .. Len(report) /\ Len(report) \in Nat
  BY DEF WellFormed
<1>2. ASSUME NEW s \in Starts(report)
      PROVE  EndedBy(report, s, n + 1) <=> EndedBy(report, s, n)
  <2>1. CASE s <= n + 1
    BY <1>1, <2>1, EndedByNext DEF Starts
  <2>2. CASE ~(s <= n + 1)
    BY <1>1, <2>2 DEF Starts, EndedBy
  <2> QED BY <2>1, <2>2
<1>3. ASSUME NEW s
      PROVE  LastEnded(report, s, n + 1) <=> LastEnded(report, s, n)
  BY <1>2 DEF LastEnded
<1>4. ASSUME NEW s, LastEnded(report, s, n), NEW line
      PROVE  Tells(report, n + 1, s, line) <=> Tells(report, n, s, line)
  <2>1. s \in Starts(report) /\ EndedBy(report, s, n)
    BY <1>4 DEF LastEnded
  <2>2. s \notin StartsOf(report, n + 1)
    <3>1. PICK e \in s .. n : report[e] = EndOfRecord
      BY <2>1 DEF EndedBy
    <3>2. e \in s .. (n + 1) - 1
      BY <1>1, <2>1 DEF Starts
    <3> QED BY <3>1, <3>2 DEF StartsOf
  <2>3. \A i : Counts(report, n + 1, i, line) /\ i # n + 1 <=> Counts(report, n, i, line)
    BY DEF Counts
  <2> QED BY <2>2, <2>3 DEF Tells
<1> QED BY <1>3, <1>4 DEF Collected

(* Nor does a line that neither starts nor ends a record change what is     *)
(* being collected, unless it is executed: then it is added.                *)
LEMMA StillCollecting ==
  ASSUME NEW report, WellFormed(report), NEW n \in Nat, n + 1 \in DOMAIN report,
         report[n + 1] # EndOfRecord, report[n + 1].tag # "SF",
         NEW file, NEW trace, Collecting(file, trace, report, n), NEW more,
         more = IF Executed(report[n + 1]) THEN trace \cup {report[n + 1].line} ELSE trace
  PROVE  Collecting(file, more, report, n + 1)
<1>1. Open(report, n + 1) = Open(report, n) /\ StartsOf(report, n + 1) = Open(report, n)
  <2>1. \A s : s \in StartsOf(report, n + 1) <=> s \in Open(report, n)
    BY StandsInOpen
  <2>2. StartsOf(report, n + 1) = Open(report, n)
    BY <2>1
  <2>3. Open(report, n + 1) = StartsOf(report, n + 1)
    BY OpenNext
  <2> QED BY <2>2, <2>3
<1>2. CASE Open(report, n) = {}
  <2>1. ~Executed(report[n + 1])
    BY <1>2, StandsIn DEF Executed
  <2> QED BY <1>1, <1>2, <2>1 DEF Collecting
<1>3. CASE Open(report, n) # {}
  <2> SUFFICES ASSUME NEW s \in Open(report, n)
               PROVE  /\ file = report[s].file
                      /\ \A line : line \in more <=> Tells(report, n + 1, s, line)
    BY <1>1, <1>3 DEF Collecting
  <2>1. file = report[s].file /\ \A line : line \in trace <=> Tells(report, n, s, line)
    BY <1>3 DEF Collecting
  <2>2. \A i, line : Counts(report, n + 1, i, line) <=>
          \/ Counts(report, n, i, line)
          \/ i = n + 1 /\ Executed(report[n + 1]) /\ report[n + 1].line = line
    BY DEF Counts
  <2>3. \A line : Tells(report, n + 1, s, line) <=>
          Tells(report, n, s, line) \/ (Executed(report[n + 1]) /\ report[n + 1].line = line)
    BY <1>1, <2>2 DEF Tells
  <2> QED BY <2>1, <2>3
<1> QED BY <1>2, <1>3

(* The end of a record puts its lines in the place of those its file had.   *)
LEMMA RecordEnds ==
  ASSUME NEW report, WellFormed(report), NEW n \in Nat, n + 1 \in DOMAIN report,
         report[n + 1] = EndOfRecord, NEW files, Collected(files, report, n),
         NEW file, NEW trace, Collecting(file, trace, report, n)
  PROVE  /\ file # NoFile /\ Collected(WithFile(files, file, trace), report, n + 1)
         /\ Collecting(NoFile, {}, report, n + 1)
<1>1. DOMAIN report = 1 .. Len(report) /\ Len(report) \in Nat /\ report \in Seq(Line)
  BY DEF WellFormed
<1>2. EndOfRecord.tag = "end_of_record" /\ ~Executed(EndOfRecord)
  BY DEF EndOfRecord, Executed
<1>3. PICK s \in Open(report, n) : TRUE
  BY <1>2, StandsIn
<1>4. s \in Starts(report) /\ s \in Nat /\ s <= n /\ ~EndedBy(report, s, n) /\ report[s].tag = "SF"
  BY <1>1, <1>3 DEF Open, Starts
<1>5. file = report[s].file /\ \A line : line \in trace <=> Tells(report, n, s, line)
  BY <1>3 DEF Collecting
<1>6. file # NoFile
  BY <1>1, <1>4, <1>5, LineKinds DEF Starts
<1>7. ASSUME NEW t \in Starts(report)
      PROVE  /\ report[t] = report[s] <=> report[t].file = file
             /\ EndedBy(report, t, n + 1) <=> t = s \/ EndedBy(report, t, n)
             /\ EndedBy(report, t, n) => t < s
  <2>1. t \in Nat /\ report[t] \in Line /\ report[t].tag = "SF" /\ t # n + 1
    BY <1>1, <1>2 DEF Starts
  <2>2. report[t] = report[s] <=> report[t].file = file
    <3>1. report[s] \in Line
      BY <1>1, <1>4 DEF Starts
    <3> QED BY <1>4, <1>5, <2>1, <3>1, LineKinds
  <2>3. CASE t <= n
    <3>1. EndedBy(report, t, n + 1)
      <4>1. n + 1 \in t .. n + 1
        BY <2>1, <2>3
      <4> QED BY <4>1 DEF EndedBy
    <3>2. EndedBy(report, t, n) \/ t = s
      BY <1>3, <2>3, OneIsOpen DEF Open
    <3>3. ASSUME EndedBy(report, t, n)
          PROVE  t < s
      <4>1. PICK e \in t .. n : report[e] = EndOfRecord
        BY <3>3 DEF EndedBy
      <4>2. e \notin s .. n
        BY <1>4, <4>1 DEF EndedBy
      <4> QED BY <1>4, <2>1, <4>1, <4>2
    <3> QED BY <2>2, <3>1, <3>2, <3>3
  <2>4. CASE ~(t <= n)
    <3>1. \A e : e \notin t .. n + 1
      BY <2>1, <2>4
    <3>2. \A e : e \notin t .. n
      BY <2>1, <2>4
    <3>3. t # s
      BY <1>4, <2>4
    <3> QED BY <2>2, <3>1, <3>2, <3>3 DEF EndedBy
  <2> QED BY <2>3, <2>4
<1>8. LastEnded(report, s, n + 1)
  <2>1. \A t \in Starts(report) : EndedBy(report, t, n + 1) => t <= s
    BY <1>4, <1>7
  <2>2. EndedBy(report, s, n + 1)
    BY <1>4, <1>7
  <2> QED BY <1>4, <2>1, <2>2 DEF LastEnded
<1>9. ASSUME NEW t, t # s
      PROVE  LastEnded(report, t, n + 1) <=> LastEnded(report, t, n) /\ report[t].file # file
  <2>1. ASSUME LastEnded(report, t, n + 1)
        PROVE  LastEnded(report, t, n) /\ report[t].file # file
    <3>1. t \in Starts(report) /\ EndedBy(report, t, n) /\ t < s
      BY <1>7, <1>9, <2>1 DEF LastEnded
    <3>2. report[t].file # file
      <4>1. report[s] = report[t] => s <= t
        BY <1>4, <1>7, <2>1 DEF LastEnded
      <4>2. ~(s <= t)
        BY <1>1, <1>4, <3>1 DEF Starts
      <4> QED BY <1>7, <3>1, <4>1, <4>2
    <3>3. \A u \in Starts(report) : EndedBy(report, u, n) => EndedBy(report, u, n + 1)
      BY <1>7
    <3> QED BY <2>1, <3>1, <3>2, <3>3 DEF LastEnded
  <2>2. ASSUME LastEnded(report, t, n), report[t].file # file
        PROVE  LastEnded(report, t, n + 1)
    <3>1. t \in Starts(report) /\ EndedBy(report, t, n)
      BY <2>2 DEF LastEnded
    <3>2. report[s] # report[t]
      BY <1>7, <2>2, <3>1
    <3>3. \A u \in Starts(report) : EndedBy(report, u, n + 1) /\ report[u] = report[t] => EndedBy(report, u, n)
      BY <1>7, <3>2
    <3> QED BY <1>7, <2>2, <3>1, <3>3 DEF LastEnded
  <2> QED BY <2>1, <2>2
<1>10. ASSUME NEW t, NEW line
       PROVE  Tells(report, n + 1, t, line) <=> Tells(report, n, t, line)
  <2>1. \A i : Counts(report, n + 1, i, line) <=> Counts(report, n, i, line)
    BY <1>2 DEF Counts
  <2> QED BY <2>1 DEF Tells
<1>11. PICK all : all = WithFile(files, file, trace)
  OBVIOUS
<1>12. /\ DOMAIN all = DOMAIN files \cup {file} /\ all[file] = trace
       /\ \A name \in DOMAIN files : name # file => all[name] = files[name]
  BY <1>11 DEF WithFile
<1>13. ASSUME NEW line
       PROVE  line \in all[file] <=>
                \E t : /\ LastEnded(report, t, n + 1) /\ report[t].file = file
                       /\ Tells(report, n + 1, t, line)
  <2>1. \A t : LastEnded(report, t, n + 1) /\ report[t].file = file => t = s
    BY <1>9
  <2> QED BY <1>5, <1>8, <1>10, <1>12, <2>1
<1>14. ASSUME NEW name, name # file, NEW line
       PROVE  name \in DOMAIN all /\ line \in all[name] <=>
                \E t : /\ LastEnded(report, t, n + 1) /\ report[t].file = name
                       /\ Tells(report, n + 1, t, line)
  <2>1. name \in DOMAIN all /\ line \in all[name] <=> name \in DOMAIN files /\ line \in files[name]
    BY <1>12, <1>14
  <2>2. name \in DOMAIN files /\ line \in files[name] <=>
          \E t : LastEnded(report, t, n) /\ report[t].file = name /\ Tells(report, n, t, line)
    BY DEF Collected
  <2>3. ~LastEnded(report, s, n)
    BY <1>4 DEF LastEnded
  <2>4. \A t : report[t].file = name => (LastEnded(report, t, n + 1) <=> LastEnded(report, t, n))
    BY <1>5, <1>9, <1>14
  <2> QED BY <1>10, <2>1, <2>2, <2>4
<1>15. Collected(all, report, n + 1)
  <2> SUFFICES ASSUME NEW name, NEW line
               PROVE  name \in DOMAIN all /\ line \in all[name] <=>
                        \E t : /\ LastEnded(report, t, n + 1) /\ report[t].file = name
                               /\ Tells(report, n + 1, t, line)
    BY DEF Collected
  <2> QED BY <1>12, <1>13, <1>14
<1>16. Collecting(NoFile, {}, report, n + 1)
  BY OpenNext DEF Collecting
<1> QED BY <1>6, <1>11, <1>15, <1>16

(* Each line of a report is read.                                           *)
LEMMA LineIsRead ==
  ASSUME NEW report, WellFormed(report), NEW n \in Nat, n + 1 \in DOMAIN report,
         NEW reader, HasRead(reader, report, n)
  PROVE  HasRead(ReadLine(reader, report[n + 1]), report, n + 1)
<1>1. PICK files, file, trace :
        /\ reader = Reader(files, file, trace)
        /\ Collected(files, report, n) /\ Collecting(file, trace, report, n)
  BY DEF HasRead
<1>2. PICK line \in Line : line = report[n + 1]
  BY DEF WellFormed
<1>3. line # EndOfRecord => Collected(files, report, n + 1)
  BY <1>1, <1>2, StillCollected
<1>4. PICK read : read = ReadLine(reader, report[n + 1])
  OBVIOUS
<1>5. MakesOf(line, files, file, trace, read)
  BY <1>1, <1>2, <1>4, ReaderReads
<1>6. CASE line.tag = "SF"
  <2>1. Open(report, n) = {} /\ StartsOf(report, n + 1) = {n + 1}
    <3>1. n + 1 \in StartsOf(report, n + 1)
      BY <1>2, <1>6, StandsInOpen
    <3>2. PICK j : StartsOf(report, n + 1) = {j}
      BY <1>2, <1>6 DEF WellFormed
    <3>3. n + 1 \notin Open(report, n)
      BY DEF Open
    <3> QED BY <3>1, <3>2, <3>3, StandsInOpen
  <2>2. file = NoFile /\ trace = {}
    BY <1>1, <2>1 DEF Collecting
  <2>3. read = Reader(files, line.file, trace)
    BY <1>5, <1>6, <2>2 DEF MakesOf
  <2>4. line # EndOfRecord /\ ~Executed(line)
    BY <1>6 DEF EndOfRecord, Executed
  <2>5. \A l : ~Tells(report, n + 1, n + 1, l)
    BY <1>2, <2>4 DEF Tells, Counts, StartsOf
  <2>6. Open(report, n + 1) = {n + 1}
    BY <1>2, <2>1, <2>4, OpenNext
  <2>7. Collecting(line.file, trace, report, n + 1)
    BY <1>2, <2>2, <2>5, <2>6 DEF Collecting
  <2> QED BY <1>3, <1>4, <2>3, <2>4, <2>7 DEF HasRead
<1>7. CASE Executed(line)
  <2>1. line.tag # "SF" /\ line # EndOfRecord
    BY <1>7 DEF EndOfRecord, Executed
  <2>2. PICK more : more = trace \cup {line.line}
    OBVIOUS
  <2>3. Collecting(file, more, report, n + 1)
    BY <1>1, <1>2, <1>7, <2>1, <2>2, StillCollecting
  <2>4. read = Reader(files, file, more)
    BY <1>5, <1>7, <2>2 DEF MakesOf
  <2> QED BY <1>3, <1>4, <2>1, <2>3, <2>4 DEF HasRead
<1>8. CASE line = EndOfRecord
  <2>1. /\ file # NoFile /\ Collected(WithFile(files, file, trace), report, n + 1)
        /\ Collecting(NoFile, {}, report, n + 1)
    BY <1>1, <1>2, <1>8, RecordEnds
  <2>2. read = Reader(WithFile(files, file, trace), NoFile, {})
    BY <1>5, <1>8, <2>1 DEF MakesOf
  <2> QED BY <1>4, <2>1, <2>2 DEF HasRead
<1>9. CASE line.tag # "SF" /\ ~Executed(line) /\ line # EndOfRecord
  <2>1. Collecting(file, trace, report, n + 1)
    BY <1>1, <1>2, <1>9, StillCollecting
  <2>2. read = Reader(files, file, trace)
    BY <1>5, <1>9 DEF MakesOf
  <2> QED BY <1>3, <1>4, <1>9, <2>1, <2>2 DEF HasRead
<1> QED BY <1>6, <1>7, <1>8, <1>9

(* So is all of it.                                                         *)
LEMMA ReportIsRead ==
  ASSUME NEW report, WellFormed(report), NEW f, IsReading(f, report, Len(report))
  PROVE  HasRead(f[Len(report)], report, Len(report))
<1>1. DOMAIN report = 1 .. Len(report) /\ Len(report) \in Nat
  BY DEF WellFormed
<1> DEFINE T == {n \in Nat : n <= Len(report) => HasRead(f[n], report, n)}
<1>2. 0 \in T
  <2>1. PICK none : none = [file \in {} |-> {}]
    OBVIOUS
  <2>2. f[0] = Reader(none, NoFile, {})
    BY <2>1 DEF IsReading, NewReader, Reader
  <2>3. Collected(none, report, 0)
    BY <2>1 DEF Collected, Tells, Counts
  <2>4. Open(report, 0) = {}
    BY <1>1 DEF Open, Starts
  <2>5. Collecting(NoFile, {}, report, 0)
    BY <2>4 DEF Collecting
  <2> QED BY <2>2, <2>3, <2>5 DEF HasRead
<1>3. ASSUME NEW n \in Nat, n \in T
      PROVE  n + 1 \in T
  <2> SUFFICES ASSUME n + 1 <= Len(report)
               PROVE  HasRead(f[n + 1], report, n + 1)
    OBVIOUS
  <2>1. n + 1 \in DOMAIN report /\ n + 1 \in 1 .. Len(report) /\ (n + 1) - 1 = n
    BY <1>1
  <2>2. HasRead(f[n], report, n)
    BY <1>1, <1>3, <2>1
  <2>3. f[n + 1] = ReadLine(f[n], report[n + 1])
    BY <2>1 DEF IsReading
  <2> QED BY <2>1, <2>2, <2>3, LineIsRead
<1> HIDE DEF T
<1>4. Nat \subseteq T
  BY <1>2, <1>3, NatSetInduction
<1> QED BY <1>1, <1>4 DEF T

(* What is read of a report is what it says.                                *)
LEMMA CoverageIsReported ==
  ASSUME NEW report, WellFormed(report)
  PROVE  Coverage(report) = Reported(report)
<1>1. DOMAIN report = 1 .. Len(report) /\ Len(report) \in Nat
  BY DEF WellFormed
<1> DEFINE n == Len(report)
<1>2. PICK f : IsReading(f, report, n) /\ ParseFrom(report) = f[n].files
  BY <1>1, ParseIsReading
<1>3. PICK files, file, trace : f[n] = Reader(files, file, trace) /\ Collected(files, report, n)
  BY <1>2, ReportIsRead DEF HasRead
<1>4. ParseFrom(report) = files
  BY <1>2, <1>3 DEF Reader
<1>5. ASSUME NEW s \in Starts(report)
      PROVE  EndedBy(report, s, n)
  <2>1. PICK e \in DOMAIN report : s <= e /\ report[e] = EndOfRecord
    BY DEF WellFormed
  <2>2. e \in s .. n
    BY <1>1, <2>1 DEF Starts
  <2> QED BY <2>1, <2>2 DEF EndedBy
<1>6. \A s : LastEnded(report, s, n) <=> LastRecord(report, s)
  BY <1>5 DEF LastEnded, LastRecord
<1>7. ASSUME NEW a
      PROVE  a \in Map(files) <=> \E name, line : /\ name \in DOMAIN files /\ line \in files[name]
                                                  /\ a = <<ShortFileHash[name], line>>
  BY DEF Map
<1>8. ASSUME NEW a
      PROVE  a \in Reported(report) <=>
               \E i, s : /\ i \in DOMAIN report /\ Executed(report[i]) /\ s \in StartsOf(report, i)
                         /\ LastRecord(report, s)
                         /\ a = <<ShortFileHash[report[s].file], report[i].line>>
  BY DEF Reported
<1>9. ASSUME NEW a \in Map(files)
      PROVE  a \in Reported(report)
  <2>1. PICK name, line : /\ name \in DOMAIN files /\ line \in files[name]
                          /\ a = <<ShortFileHash[name], line>>
    BY <1>7
  <2>2. PICK s : LastEnded(report, s, n) /\ report[s].file = name /\ Tells(report, n, s, line)
    BY <1>3, <2>1 DEF Collected
  <2>3. PICK i : Counts(report, n, i, line) /\ s \in StartsOf(report, i)
    BY <2>2 DEF Tells
  <2> QED BY <1>1, <1>6, <1>8, <2>1, <2>2, <2>3 DEF Counts
<1>10. ASSUME NEW a \in Reported(report)
       PROVE  a \in Map(files)
  <2>1. PICK i, s : /\ i \in DOMAIN report /\ Executed(report[i]) /\ s \in StartsOf(report, i)
                    /\ LastRecord(report, s)
                    /\ a = <<ShortFileHash[report[s].file], report[i].line>>
    BY <1>8
  <2>2. Tells(report, n, s, report[i].line) /\ LastEnded(report, s, n)
    BY <1>1, <1>6, <2>1 DEF Tells, Counts
  <2>3. report[s].file \in DOMAIN files /\ report[i].line \in files[report[s].file]
    BY <1>3, <2>2 DEF Collected
  <2> QED BY <1>7, <2>1, <2>3
<1> QED BY <1>4, <1>9, <1>10 DEF Coverage

(* The counts are of the executed lines, until an error ends the campaign.  *)
LEMMA ExecutedStep ==
  ASSUME TypeOK, CoverageIsOfExecutedLines, [Next]_vars
  PROVE  CoverageIsOfExecutedLines'
<1>1. CASE RunQuietly \/ SavingFails
  <2>1. PICK run \in Measured, snd \in SUBSET SndAddrs :
          QuietRun(run.coverage, snd) /\ executed' = executed \cup run.reported
    BY <1>1 DEF RunQuietly, SavingFails
  <2>2. run.coverage = run.reported /\ run.coverage \in SUBSET FstAddrs
    BY CoverageIsReported, GreyBoxAssumption, MeasuredAddresses DEF Measured
  <2>3. fst_map' = Counted(fst_map, run.coverage) /\ fst_map \in [FstAddrs -> Nat]
    BY <2>1 DEF QuietRun, TypeOK
  <2>4. \A a \in FstAddrs : fst_map'[a] > 0 <=> fst_map[a] > 0 \/ a \in run.coverage
    BY <2>2, <2>3, CountedCounts
  <2>5. {a \in FstAddrs : fst_map[a] > 0} = executed
    BY <1>1, QuietRunCovers DEF CoverageIsOfExecutedLines
  <2>6. {a \in FstAddrs : fst_map'[a] > 0} = executed'
    BY <2>1, <2>2, <2>4, <2>5
  <2> QED BY <2>6 DEF CoverageIsOfExecutedLines
<1>2. CASE SndOpinionFails
  BY <1>2 DEF SndOpinionFails, CoverageIsOfExecutedLines
<1>3. CASE PickInitial \/ ChooseFromQueue \/ ChooseByWeight
  BY <1>3 DEF PickInitial, ChooseFromQueue, ChooseByWeight, Picking, Chosen, CoverageIsOfExecutedLines
<1>4. CASE RunReported \/ RunFails \/ ChooseFails \/ Finish \/ Ended \/ UNCHANGED vars
  BY <1>4 DEF RunReported, EndRun, RunFails, ChooseFails, Finish, Ended, vars, CoverageIsOfExecutedLines
<1> QED BY <1>1, <1>2, <1>3, <1>4 DEF Next

(* Whatever the reports say, in however many records, the fuzzer counts the *)
(* lines executed by the last record of each file, each in its file, and no *)
(* others (lcov.rs:63-154).                                                 *)
THEOREM CoverageIsOfTheReports == Spec => []CoverageIsOfExecutedLines
<1>1. Init => CoverageIsOfExecutedLines
  BY DEF Init, CoverageIsOfExecutedLines
<1> QED BY <1>1, ExecutedStep, TypeCorrect, PTL DEF Spec

=============================================================================
