------------------------------- MODULE MCGreyBox -------------------------------
(* Reports on up to two files, in either order, of two lines each: both were *)
(* compiled, and the second one is never executed.  Two records may be of    *)
(* one file, and a record may follow the name of a test.                     *)
EXTENDS GreyBox

MCShortFileHash == [f1 |-> 0, f2 |-> 1]

Record(file, count) ==
  << SourceFileName(file), LineExecutionCount(1, count),
     LineExecutionCount(2, 0), EndOfRecord >>

OfBoth(fst, snd) == {Record(fst, c) \o Record(snd, d) : c \in 0 .. 1, d \in 0 .. 1}

TestName == [tag |-> "TN"]

Named(reports) == {<<TestName>> \o report : report \in reports}

MCReports ==
  UNION {OfBoth(fst, snd) : fst \in {"f1", "f2"}, snd \in {"f1", "f2"}}
    \cup {Record("f2", c) : c \in 0 .. 1}
    \cup {Record("f1", c) \o report : c \in 0 .. 1, report \in Named(OfBoth("f2", "f1"))}
    \cup {<<>>}

MCFstAddrs == {<<0, 1>>, <<1, 1>>}

================================================================================
