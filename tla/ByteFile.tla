------------------------------- MODULE ByteFile -------------------------------
(***************************************************************************)
(* What Content promises to AbstractFS: a file is a sequence of bytes, a    *)
(* write replaces the bytes from its offset on and extends the file where   *)
(* it passes the end, a read returns the bytes from its offset on, and both *)
(* refuse an offset beyond the end.  A byte is the position in the source   *)
(* it was copied from.                                                      *)
(***************************************************************************)
EXTENDS Naturals, Sequences

CONSTANTS Offsets, Lengths, SourceOffsets     \* arguments of the calls

VARIABLES bytes,    \* the file
          reply     \* the last call and what it returned

vars == <<bytes, reply>>

Source(from, size) == [i \in 1 .. size |-> from + i - 1]

Overwritten(offset, data) ==
  SubSeq(bytes, 1, offset) \o data \o SubSeq(bytes, offset + Len(data) + 1, Len(bytes))

Until(offset, size) == IF offset + size < Len(bytes) THEN offset + size ELSE Len(bytes)

Write(src, offset, size) ==
  /\ offset <= Len(bytes)
  /\ bytes' = Overwritten(offset, Source(src, size))
  /\ reply' = [call |-> <<"write", src, offset, size>>, err |-> "Ok", data |-> <<>>]

Read(offset, size) ==
  /\ offset <= Len(bytes)
  /\ reply' = [call |-> <<"read", offset, size>>, err |-> "Ok",
               data |-> SubSeq(bytes, offset + 1, Until(offset, size))]
  /\ UNCHANGED bytes

WriteRefused(src, offset, size) ==
  /\ offset > Len(bytes)
  /\ reply' = [call |-> <<"write", src, offset, size>>, err |-> "BadOffset", data |-> <<>>]
  /\ UNCHANGED bytes

ReadRefused(offset, size) ==
  /\ offset > Len(bytes)
  /\ reply' = [call |-> <<"read", offset, size>>, err |-> "BadOffset", data |-> <<>>]
  /\ UNCHANGED bytes

Init ==
  /\ bytes = <<>>
  /\ reply = [call |-> <<"new">>, err |-> "Ok", data |-> <<>>]

Next ==
  \E offset \in Offsets, size \in Lengths :
    \/ Read(offset, size) \/ ReadRefused(offset, size)
    \/ \E src \in SourceOffsets : Write(src, offset, size) \/ WriteRefused(src, offset, size)

Spec == Init /\ [][Next]_vars

=============================================================================
