------------------------------- MODULE Executor -------------------------------
(***************************************************************************)
(* A test: the C program made of a workload (abstract_fs/encode.rs), linked *)
(* with the executor (executor/executor.cpp) and run by the harness on one  *)
(* file system and then, in a new process, on the other.  Each call of the  *)
(* test appends one row to the trace, which is written to a file at the end *)
(* of the process; the two traces are then compared (objective/trace.rs).   *)
(*                                                                         *)
(* The file systems and the kernel are external: how the system calls of a  *)
(* call may end is a constant, but for those on a number that is not open.  *)
(* Paths and modes are left out, as no call's control depends on them.      *)
(* Indices and descriptors count from 1, those of the trace from 0.         *)
(***************************************************************************)
EXTENDS Integers, Sequences, FiniteSets

Fns == INSTANCE Functions

CONSTANTS
  BufferSize,   \* BUFFER_SIZE
  FirstFree,    \* the first descriptor number free for the test
  Responses     \* for each file system and kind of call, its possible ends

FileSystems == {"fst", "snd"}

OnDescriptor == {"Close", "Read", "Write", "FSync"}
OnPaths == {"MkDir", "Remove", "Hardlink", "Rename", "Symlink"}
CallKinds == OnPaths \cup OnDescriptor \cup {"Create", "Open"}

(* How a call ends: the system call that ended it, its error, or 0, the      *)
(* bytes it moved, and what it read.                                         *)
Response(syscall, errno, count, data) ==
  [syscall |-> syscall, errno |-> errno, count |-> count, data |-> data]

NoData == ""

(* The call of a kind ends in its own system call, but for do_create, which  *)
(* also closes, and do_remove; only read and write move bytes.               *)
Ends(kind, r) ==
  /\ r = Response(r.syscall, r.errno, r.count, r.data) /\ r.errno \in Nat /\ r.count \in Nat
  /\ kind \notin {"Create", "Remove"} => r.syscall = kind
  /\ kind = "Create" => r.syscall = "Create" \/ (r.syscall = "CLOSE" /\ r.errno # 0)
  /\ kind \notin {"Read", "Write"} \/ r.errno # 0 => r.count = 0
  /\ kind # "Read" \/ r.errno # 0 => r.data = NoData

ASSUME ExecutorAssumption ==
  /\ BufferSize \in Nat /\ FirstFree \in Nat \ {0}
  /\ \A f \in FileSystems, kind \in CallKinds : \A r \in Responses[f][kind] :
       Ends(kind, r)

VARIABLES
  stage,     \* the file system the test runs on, or "idle", "done", "crashed", "exited"
  workload,  \* the workload under test
  fd,        \* the variables fd_1, fd_2, ... of the program
  open_fds,  \* for each open descriptor number, the call that opened it
  rows,      \* for each file system, the trace
  answered   \* for each file system, how the calls ended, and through which open

executor == <<stage, workload, fd, open_fds, rows, answered>>

------------------------------------------------------------------------------
(* encode_c                                                                *)

Opened(ops) == {ops[i].des : i \in {j \in DOMAIN ops : ops[j].kind = "Open"}}

DescriptorsN(ops) ==
  IF Opened(ops) = {} THEN 0 ELSE CHOOSE n \in Opened(ops) : \A m \in Opened(ops) : m <= n

EncodeOp(op) ==
  [fn     |-> op.kind,
   var    |-> IF op.kind \in OnDescriptor \cup {"Open"} THEN op.des ELSE 0,
   offset |-> IF op.kind = "Write" THEN op.src_offset ELSE 0,
   size   |-> IF op.kind \in {"Read", "Write"} THEN op.size ELSE 0]

EncodeC(ops) == [i \in DOMAIN ops |-> EncodeOp(ops[i])]

\* Every variable that is used has been declared.
Compiles(ops) ==
  \A i \in DOMAIN ops :
    ops[i].kind \in OnDescriptor => EncodeOp(ops[i]).var \in 1 .. DescriptorsN(ops)

\* A global variable of C is zero until it is assigned.
Globals(ops) == [v \in 1 .. DescriptorsN(ops) |-> 0]

\* What the process has open when main calls the test; none of it is the test's.
Inherited == [number \in 0 .. FirstFree - 1 |-> 0]

------------------------------------------------------------------------------
(* The rows of the trace.                                                  *)

NoRow == [index |-> 0, command |-> "none", return_code |-> 0, errno |-> 0, extra |-> NoData]

\* do_remove names the system call that ended it, the others name themselves.
Command(call, r) == IF call.fn = "Remove" THEN r.syscall ELSE call.fn

Status(call, r, number) ==
  CASE call.fn \in {"Create", "Open"} -> number
    [] call.fn \in {"Read", "Write"}  -> r.count
    [] OTHER -> 0

\* When realpath fails, or the close of do_create, the status is still that of the
\* system call before it.
ReturnCode(call, r, number) ==
  IF r.errno = 0 \/ r.syscall \in {"REALPATH", "CLOSE"} THEN Status(call, r, number) ELSE -1

\* Mutant: the hash of what was read is left out.
NoExtra(call, r) == NoData

Extra(call, r) == IF call.fn = "Read" /\ r.errno = 0 THEN r.data ELSE NoData

Row(i, call, r, number) ==
  [index |-> i - 1, command |-> Command(call, r), return_code |-> ReturnCode(call, r, number),
   errno |-> r.errno, extra |-> Extra(call, r)]

------------------------------------------------------------------------------
(* TraceObjective::diff                                                    *)

RowIsDifferent(fst, snd) == [fst |-> fst, snd |-> snd]
DifferentLength == RowIsDifferent(NoRow, NoRow)

TraceDiff(fst, snd) ==
  LET differ[n \in Nat] ==
        IF n = 0 THEN <<>>
        ELSE IF fst[n] = snd[n] THEN differ[n - 1]
        ELSE Append(differ[n - 1], RowIsDifferent(fst[n], snd[n]))
  IN  IF Len(fst) # Len(snd) THEN <<DifferentLength>> ELSE differ[Len(fst)]

IgnoreIndexEqual(old, new) == [old EXCEPT !.index = 0] = [new EXCEPT !.index = 0]

------------------------------------------------------------------------------
(* The calls of the test.                                                  *)

ExecutorInit ==
  /\ stage = "idle" /\ workload = <<>> /\ fd = <<>> /\ open_fds = Inherited
  /\ rows = [f \in FileSystems |-> <<>>] /\ answered = [f \in FileSystems |-> <<>>]

\* The workload is compiled and the first process started.
StartTest(ops) ==
  /\ stage = "idle" /\ stage' = "fst" /\ Compiles(ops)
  /\ workload' = ops /\ fd' = Globals(ops) /\ open_fds' = Inherited
  /\ rows' = [f \in FileSystems |-> <<>>] /\ answered' = [f \in FileSystems |-> <<>>]

Position == Len(rows[stage]) + 1

This == EncodeC(workload)[Position]

\* The next call of the test is one of these functions.
Calls(fns) ==
  /\ stage \in FileSystems /\ Position \in DOMAIN workload
  /\ This.fn \in fns

EBADF == 9

\* The calls through a descriptor reach the file its number is open for.
Answers(number) ==
  IF number \in DOMAIN open_fds THEN Responses[stage][This.fn]
  ELSE {Response(This.fn, EBADF, 0, NoData)}

NoFile == -1

Through(number) == IF number \in DOMAIN open_fds THEN open_fds[number] ELSE NoFile

LowestFree ==
  CHOOSE n \in FirstFree .. FirstFree + Cardinality(DOMAIN open_fds) :
    /\ n \notin DOMAIN open_fds
    /\ \A m \in FirstFree .. n - 1 : m \in DOMAIN open_fds

AppendTrace(r, number, through) ==
  /\ rows' = [rows EXCEPT ![stage] = Append(@, Row(Position, This, r, number))]
  /\ answered' = [answered EXCEPT ![stage] = Append(@, [response |-> r, through |-> through])]
  /\ UNCHANGED <<stage, workload>>

DoOnPath ==
  /\ Calls(OnPaths)
  /\ \E r \in Responses[stage][This.fn] : AppendTrace(r, 0, NoFile)
  /\ UNCHANGED <<fd, open_fds>>

\* The number creat returned is closed at once, and free again if that fails too.
DoCreate ==
  /\ Calls({"Create"})
  /\ \E r \in Responses[stage].Create : AppendTrace(r, LowestFree, NoFile)
  /\ UNCHANGED <<fd, open_fds>>

\* Mutant: the variable is assigned only when the file was opened.
DoOpenKeepsVariable ==
  /\ Calls({"Open"})
  /\ \E r \in Responses[stage].Open :
       /\ AppendTrace(r, LowestFree, NoFile)
       /\ IF r.errno = 0
          THEN /\ fd' = [fd EXCEPT ![This.var] = LowestFree]
               /\ open_fds' = [n \in DOMAIN open_fds \cup {LowestFree} |->
                                 IF n = LowestFree THEN Position ELSE open_fds[n]]
          ELSE UNCHANGED <<fd, open_fds>>

DoOpen ==
  /\ Calls({"Open"})
  /\ \E r \in Responses[stage].Open :
       /\ AppendTrace(r, LowestFree, NoFile)
       /\ IF r.errno = 0
          THEN /\ fd' = [fd EXCEPT ![This.var] = LowestFree]
               /\ open_fds' = [n \in DOMAIN open_fds \cup {LowestFree} |->
                                 IF n = LowestFree THEN Position ELSE open_fds[n]]
          ELSE fd' = [fd EXCEPT ![This.var] = -1] /\ UNCHANGED open_fds

\* The kernel frees the number whether or not close fails; the variable stays.
DoClose ==
  /\ Calls({"Close"})
  /\ \E r \in Answers(fd[This.var]) : AppendTrace(r, 0, Through(fd[This.var]))
  /\ open_fds' = Fns!Restrict(open_fds, DOMAIN open_fds \ {fd[This.var]})
  /\ UNCHANGED fd

DoFSync ==
  /\ Calls({"FSync"})
  /\ \E r \in Answers(fd[This.var]) : AppendTrace(r, 0, Through(fd[This.var]))
  /\ UNCHANGED <<fd, open_fds>>

FitsBuffer == This.offset + This.size <= BufferSize

DoTransfer ==
  /\ Calls({"Read", "Write"}) /\ FitsBuffer
  /\ \E r \in Answers(fd[This.var]) : AppendTrace(r, 0, Through(fd[This.var]))
  /\ UNCHANGED <<fd, open_fds>>

\* exit(ERROR), before the trace is written: the harness fails.
DoTransferTooLarge ==
  /\ Calls({"Read", "Write"}) /\ ~FitsBuffer
  /\ stage' = "exited"
  /\ UNCHANGED <<workload, fd, open_fds, rows, answered>>

\* main writes the trace; the second harness starts a process of its own.
EndOfTest ==
  /\ stage \in FileSystems /\ Position \notin DOMAIN workload
  /\ stage' = IF stage = "fst" THEN "snd" ELSE "done"
  /\ fd' = [v \in DOMAIN fd |-> 0] /\ open_fds' = Inherited
  /\ UNCHANGED <<workload, rows, answered>>

\* The machine panics, or the test hangs until its timeout.
TestCrashes ==
  /\ stage \in FileSystems /\ stage' = "crashed"
  /\ UNCHANGED <<workload, fd, open_fds, rows, answered>>

RunTest ==
  \/ DoOnPath \/ DoCreate \/ DoOpen \/ DoClose \/ DoFSync
  \/ DoTransfer \/ DoTransferTooLarge \/ EndOfTest \/ TestCrashes

\* The files and the process of a test that has been judged are gone.
Cleared ==
  /\ stage' = "idle" /\ workload' = <<>> /\ fd' = <<>> /\ open_fds' = Inherited
  /\ rows' = [f \in FileSystems |-> <<>>] /\ answered' = [f \in FileSystems |-> <<>>]

------------------------------------------------------------------------------
\* The last open before the i-th operation that returned the i-th's descriptor.
OpenOf(i) ==
  CHOOSE j \in 1 .. i - 1 :
    /\ workload[j].kind = "Open" /\ workload[j].des = workload[i].des
    /\ \A k \in j + 1 .. i - 1 : workload[k].kind = "Open" => workload[k].des # workload[i].des

\* A call through a descriptor reaches the file that the open of this descriptor
\* in this process has opened, and no file if it could not be opened: never the
\* standard streams by a variable that is still zero, nor a file whose number was
\* given out again, whatever fails and whatever a reduction has taken away
\* (encode.rs:17-31, 63-67, executor.cpp:454-474).
DescriptorsActOnTheirFiles ==
  \A f \in FileSystems : \A i \in DOMAIN answered[f] :
    workload[i].kind \in OnDescriptor =>
      answered[f][i].through =
        IF answered[f][OpenOf(i)].response.errno = 0 THEN OpenOf(i) ELSE NoFile

Answer(f, i) == answered[f][i].response

\* Two traces differ exactly when the file systems answered some call differently,
\* and the first row that differs is of the first such call, although rows hold
\* descriptor numbers, which a failed open shifts in all the rows after it
\* (executor.cpp:313-523, objective/trace.rs:19-37).
FirstDifferenceIsReal ==
  stage = "done" =>
    LET diff   == TraceDiff(rows.fst, rows.snd)
        differ == {i \in DOMAIN workload : Answer("fst", i) # Answer("snd", i)}
    IN  /\ diff = <<>> <=> differ = {}
        /\ diff # <<>> => \E i \in differ : /\ \A j \in differ : i <= j
                                            /\ diff[1] = RowIsDifferent(rows.fst[i], rows.snd[i])

=============================================================================
