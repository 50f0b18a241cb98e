-------------------------------- MODULE Content --------------------------------
(***************************************************************************)
(* The contents of a file (diffuzzer/src/abstract_fs/content.rs): slices of *)
(* a source, bounds included, in the order of the file.  A write splits the *)
(* slice it starts in, inserts its own slice and cuts as much off the       *)
(* slices behind it; a read walks the slices.                               *)
(***************************************************************************)
EXTENDS Integers, Sequences

CONSTANTS Offsets, Lengths, SourceOffsets     \* arguments of the calls

ASSUME ContentAssumption ==
  Offsets \subseteq Nat /\ Lengths \subseteq Nat /\ SourceOffsets \subseteq Nat

VARIABLES slices,   \* Content.slices
          reply     \* the last call and what it returned

content_vars == <<slices, reply>>

SourceSlice == [from : Nat, to : Nat]

Slice(from, size) == [from |-> from, to |-> from + size - 1]

SizeOf(s) == IF s.from <= s.to THEN s.to - s.from + 1 ELSE 0

(* A loop over slices: step[made][s] is what the iteration for s makes of   *)
(* what those before it have made.  It is a function, so that what holds of *)
(* every loop can be said once.                                             *)
Loop(step, first, ss) ==
  LET made[n \in 0 .. Len(ss)] == IF n = 0 THEN first ELSE step[made[n - 1]][ss[n]]
  IN  made[Len(ss)]

TotalSize(ss) == Loop([sum \in Nat |-> [s \in SourceSlice |-> sum + SizeOf(s)]], 0, ss)

(* Offset in the file of the i-th slice.                                    *)
StartOf(ss, i) == TotalSize(SubSeq(ss, 1, i - 1))

WriteBack(ss, src, size) == IF size > 0 THEN Append(ss, Slice(src, size)) ELSE ss

(***************************************************************************)
(* write                                                                    *)
(***************************************************************************)
(* The first slice that starts at the offset or reaches beyond it.          *)
Reaches(ss, i, offset) == StartOf(ss, i) = offset \/ StartOf(ss, i) + SizeOf(ss[i]) > offset

SliceAt(ss, offset) ==
  CHOOSE i \in DOMAIN ss : /\ Reaches(ss, i, offset)
                           /\ \A j \in 1 .. i - 1 : ~Reaches(ss, j, offset)

\* Mutant: the second half loses a byte.
SplitOffByOne(ss, i, kept) ==
  SubSeq(ss, 1, i - 1)
    \o << Slice(ss[i].from, kept), [from |-> ss[i].from + kept + 1, to |-> ss[i].to] >>
    \o SubSeq(ss, i + 1, Len(ss))

(* A slice in two, the first of which keeps so many bytes.                  *)
Halves(s, kept) == << Slice(s.from, kept), [from |-> s.from + kept, to |-> s.to] >>

Split(ss, i, kept) ==
  SubSeq(ss, 1, i - 1) \o Halves(ss[i], kept) \o SubSeq(ss, i + 1, Len(ss))

(* The assertion where a write splits a slice.                              *)
SplitAssert(ss, offset) ==
  LET i    == SliceAt(ss, offset)
      kept == offset - StartOf(ss, i)
  IN  kept = 0 \/ TotalSize(Halves(ss[i], kept)) = SizeOf(ss[i])

(* A slice the loop has emptied; size() is 0 when from is beyond to.        *)
Emptied == [from |-> 100000, to |-> 0]

(* size bytes cut off the front of ss; the loop ends at the first slice     *)
(* that has more than what is left to cut.                                  *)
Uncut == [out : Seq(SourceSlice), left : Nat]

CutOff(acc, s) ==
  IF SizeOf(s) > acc.left
  THEN [out |-> Append(acc.out, [s EXCEPT !.from = @ + acc.left]), left |-> 0]
  ELSE [out |-> Append(acc.out, Emptied), left |-> acc.left - SizeOf(s)]

Cut(ss, size) ==
  Loop([acc \in Uncut |-> [s \in SourceSlice |-> CutOff(acc, s)]],
       [out |-> <<>>, left |-> size], ss).out

Retained(kept, s) == IF SizeOf(s) > 0 THEN Append(kept, s) ELSE kept

NonEmpty(ss) ==
  Loop([kept \in Seq(SourceSlice) |-> [s \in SourceSlice |-> Retained(kept, s)]], <<>>, ss)

(* The slices after a write of size > 0 bytes within the file.              *)
Overwrite(ss, src, offset, size) ==
  LET i     == SliceAt(ss, offset)
      start == StartOf(ss, i)
      parts == IF start = offset THEN ss ELSE Split(ss, i, offset - start)
      at    == IF start = offset THEN i ELSE i + 1
  IN  NonEmpty(SubSeq(parts, 1, at - 1) \o << Slice(src, size) >>
                 \o Cut(SubSeq(parts, at, Len(parts)), size))

(* The assertions of write.                                                 *)
WriteAsserts(old, new, offset, size) ==
  /\ size > 0 => SplitAssert(old, offset)
  /\ TotalSize(new) = IF offset + size > TotalSize(old) THEN offset + size ELSE TotalSize(old)
  /\ \A i \in DOMAIN new : SizeOf(new[i]) > 0

WriteReply(src, offset, size, err) ==
  [call |-> <<"write", src, offset, size>>, err |-> err, content |-> <<>>]

WriteAtEnd(src, offset, size) ==
  /\ offset = TotalSize(slices)
  /\ slices' = WriteBack(slices, src, size)
  /\ reply' = WriteReply(src, offset, size, "Ok")

WriteBadOffset(src, offset, size) ==
  /\ offset > TotalSize(slices)
  /\ reply' = WriteReply(src, offset, size, "BadOffset")
  /\ UNCHANGED slices

WriteInside(src, offset, size) ==
  /\ offset < TotalSize(slices)
  /\ slices' = IF size > 0 THEN Overwrite(slices, src, offset, size) ELSE slices
  /\ reply' = WriteReply(src, offset, size,
                         IF WriteAsserts(slices, slices', offset, size) THEN "Ok" ELSE "Panic")

(***************************************************************************)
(* read: one pass over the slices.  current is the offset of the next slice *)
(* while the first slice of interest is searched for.                       *)
(***************************************************************************)
ReadStep(acc, s, offset, size) ==
  IF acc.reading
  THEN LET rest == size - acc.read_size
           n    == IF SizeOf(s) > rest THEN rest ELSE SizeOf(s)
       IN  IF acc.read_size >= size THEN [acc EXCEPT !.end_of_file = FALSE]
           ELSE [acc EXCEPT !.content = WriteBack(@, s.from, n), !.read_size = @ + n]
  ELSE LET skip == offset - acc.current
           n    == IF SizeOf(s) - skip > size THEN size ELSE SizeOf(s) - skip
       IN  IF acc.current + SizeOf(s) > offset
           THEN [acc EXCEPT !.reading = TRUE, !.read_size = n,
                            !.content = WriteBack(@, s.from + skip, n)]
           ELSE [acc EXCEPT !.current = @ + SizeOf(s)]

NothingRead == [content |-> <<>>, read_size |-> 0, current |-> 0,
                reading |-> FALSE, end_of_file |-> TRUE]

Reading(offset) ==
  {acc \in [content : Seq(SourceSlice), read_size : Nat, current : Nat,
            reading : BOOLEAN, end_of_file : BOOLEAN] :
     acc.reading \/ acc.current <= offset}

ReadSlices(ss, offset, size) ==
  Loop([acc \in Reading(offset) |-> [s \in SourceSlice |-> ReadStep(acc, s, offset, size)]],
       NothingRead, ss)

(* The assertion at the end of read.                                        *)
ReadAssert(acc) ==
  \/ TotalSize(acc.content) = acc.read_size
  \/ acc.end_of_file /\ TotalSize(acc.content) <= acc.read_size

ReadReply(offset, size, err, content) ==
  [call |-> <<"read", offset, size>>, err |-> err, content |-> content]

ReadWithin(offset, size) ==
  /\ offset <= TotalSize(slices)
  /\ LET read == ReadSlices(slices, offset, size)
     IN  reply' = ReadReply(offset, size, IF ReadAssert(read) THEN "Ok" ELSE "Panic",
                            read.content)
  /\ UNCHANGED slices

ReadBadOffset(offset, size) ==
  /\ offset > TotalSize(slices)
  /\ reply' = ReadReply(offset, size, "BadOffset", <<>>)
  /\ UNCHANGED slices

ContentInit ==
  /\ slices = <<>>
  /\ reply = [call |-> <<"new">>, err |-> "Ok", content |-> <<>>]

ContentNext ==
  \E offset \in Offsets, size \in Lengths :
    \/ ReadWithin(offset, size) \/ ReadBadOffset(offset, size)
    \/ \E src \in SourceOffsets :
         \/ WriteAtEnd(src, offset, size)
         \/ WriteBadOffset(src, offset, size)
         \/ WriteInside(src, offset, size)

ContentSpec == ContentInit /\ [][ContentNext]_content_vars

(***************************************************************************)
(* Properties.                                                              *)
(***************************************************************************)
(* The bytes that slices stand for.                                         *)
Source(from, size) == [i \in 1 .. size |-> from + i - 1]

BytesOf(ss) ==
  Loop([bytes \in Seq(Nat) |-> [s \in SourceSlice |-> bytes \o Source(s.from, SizeOf(s))]],
       <<>>, ss)

AbstractFile ==
  INSTANCE ByteFile
    WITH bytes <- BytesOf(slices),
         reply <- [call |-> reply.call, err |-> reply.err, data |-> BytesOf(reply.content)]

\* Slices implement a plain sequence of bytes: every write and read, with its
\* arguments and its answer, is the one ByteFile allows, and the assertions at
\* the end of both never fail (ByteFile has no answer "Panic").
ImplementsByteFile == AbstractFile!Spec

=============================================================================
