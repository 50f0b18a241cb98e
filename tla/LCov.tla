---------------------------------- MODULE LCov ----------------------------------
(***************************************************************************)
(* The reader of lcov reports (fuzzing/greybox/feedback/lcov.rs): it goes   *)
(* through the lines of a report one by one and collects the executed lines *)
(* of each source file, which become the addresses of the coverage map.     *)
(*                                                                          *)
(* A report is the sequence of its lines; those of other tags are skipped,  *)
(* and of a count it only matters whether it is zero.                       *)
(***************************************************************************)
EXTENDS Naturals, Sequences

CONSTANTS
  ShortFileHash,   \* the upper half of the locations in a source file
  NoFile           \* current_file is None

ASSUME LCovAssumption == NoFile \notin DOMAIN ShortFileHash

SourceFileName(file) == [tag |-> "SF", file |-> file]
LineExecutionCount(line, count) == [tag |-> "DA", line |-> line, count |-> count]
EndOfRecord == [tag |-> "end_of_record"]

Line ==
  [tag : {"SF"}, file : DOMAIN ShortFileHash]
  \cup [tag : {"DA"}, line : Nat, count : Nat]
  \cup [tag : STRING \ {"SF", "DA"}]

(***************************************************************************)
(* parse_from.  The reader holds the files read, the file whose record it   *)
(* is in, and the executed lines since the last record.                     *)
(***************************************************************************)
NewReader == [files |-> [file \in {} |-> {}], current_file |-> NoFile, trace |-> {}]

WithFile(files, name, lines) ==
  [file \in DOMAIN files \cup {name} |-> IF file = name THEN lines ELSE files[file]]

\* Mutant: the lines of the file stay.
AddFileAndKeepLines(reader) ==
  [reader EXCEPT !.files = WithFile(@, reader.current_file, reader.trace),
                 !.current_file = NoFile]

(* A second record of a file replaces the first.                            *)
AddFile(reader) ==
  [files |-> WithFile(reader.files, reader.current_file, reader.trace),
   current_file |-> NoFile, trace |-> {}]

(* The name is that of the first SF line of a record, and the end of a      *)
(* record without a file leaves the lines to the next one.                  *)
ReadLine(reader, line) ==
  CASE line.tag = "SF" /\ reader.current_file = NoFile ->
         [reader EXCEPT !.current_file = line.file]
    [] line.tag = "DA" /\ line.count > 0 -> [reader EXCEPT !.trace = @ \cup {line.line}]
    [] line.tag = "end_of_record" /\ reader.current_file # NoFile -> AddFile(reader)
    [] OTHER -> reader

ParseFrom(report) ==
  LET reader[n \in Nat] ==
        IF n = 0 THEN NewReader ELSE ReadLine(reader[n - 1], report[n])
  IN  reader[Len(report)].files

(* The addresses of the coverage, here pairs: a hash of 32 bits shifted by  *)
(* 32 and a line number of 32 bits do not overlap.                          *)
Map(files) ==
  UNION {{<<ShortFileHash[file], line>> : line \in files[file]} : file \in DOMAIN files}

Coverage(report) == Map(ParseFrom(report))

(***************************************************************************)
(* What the fuzzer goes by in a report, by definition: the executed lines,  *)
(* each in the file of the record it stands in, and of a file with several  *)
(* records those of its last one.                                           *)
(***************************************************************************)
Starts(report) == {i \in DOMAIN report : report[i].tag = "SF"}

(* The starts of the records a line may be in.                              *)
StartsOf(report, i) ==
  {j \in Starts(report) : j <= i /\ \A k \in j .. i - 1 : report[k] # EndOfRecord}

(* What lcov writes: each of these lines in one record, and each record     *)
(* ended.  A file may have several records, and any lines of other tags may *)
(* stand anywhere, as those with the name of a test do between the records. *)
WellFormed(report) ==
  /\ report \in Seq(Line)
  /\ \A i \in DOMAIN report :
       report[i].tag \in {"SF", "DA", "end_of_record"} =>
         \E j \in DOMAIN report : StartsOf(report, i) = {j}
  /\ \A s \in Starts(report) : \E e \in DOMAIN report : s <= e /\ report[e] = EndOfRecord

Executed(line) == line.tag = "DA" /\ line.count > 0

LastRecord(report, s) ==
  s \in Starts(report) /\ \A t \in Starts(report) : report[t] = report[s] => t <= s

Reported(report) ==
  UNION {{<<ShortFileHash[report[s].file], report[i].line>> :
            s \in {t \in StartsOf(report, i) : LastRecord(report, t)}} :
           i \in {j \in DOMAIN report : Executed(report[j])}}

=============================================================================
