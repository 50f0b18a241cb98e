------------------------------- MODULE Campaign -------------------------------
(***************************************************************************)
(* A fuzzing campaign of one instance: Runner::create sets the machine up   *)
(* and has its snapshot saved, then the loop of fuzzer.rs gives one         *)
(* workload after the other to Runner::run_harness (runner.rs), which runs  *)
(* it on the first and then on the second file system by Harness::run       *)
(* (harness.rs), under a supervisor that has the snapshot restored when the *)
(* machine panicked (supervisor.rs).  Every command sent to the machine     *)
(* (command.rs) is a step of its own; between any two of them the machine   *)
(* may die and boot again, any of them may fail, which ends the campaign    *)
(* with an error, and only the test has a timeout: any other command may    *)
(* never return.  QEMU is asked for a snapshot without waiting for its      *)
(* answer, and what it reports is read by a thread of its own.  It carries  *)
(* out what its monitor was sent before a command sent to the machine later *)
(* is done.                                                                 *)
(*                                                                         *)
(* Tests are numbered in the order they run.  The variables `happened',    *)
(* `emitted', `kept' and `fault' are the observer's: the code has no such   *)
(* state.                                                                   *)
(***************************************************************************)
EXTENDS Guest

CONSTANTS
  Inputs,       \* the workloads
  Traces,       \* the traces a test may leave
  ErrorTraces,  \* those with an operation that failed
  TestCount,    \* --test-count
  DashSize,     \* dash.size of the configuration
  Nothing       \* the absence of an input, a trace or a state

ASSUME TracesAssumption == ErrorTraces \subseteq Traces
ASSUME CampaignAssumption ==
  /\ TestCount \in Nat \ {0}
  /\ DashSize \in BOOLEAN
  /\ Nothing \notin Inputs \cup Traces \cup States

VARIABLES
  phase,        \* the call Runner or Harness is about to make
  side,         \* the harness that is running
  input,        \* the workload of the current test
  guest,        \* the machine
  disk,         \* what its directory for tests holds
  snapshot,     \* the machine and its disk, when the snapshot was saved
  monitor,      \* what QEMU's monitor was sent and QEMU has not done yet
  wire,         \* whether QEMU has reported an event the event thread has not read
  events,       \* whether the channel of the EventHandler holds an event
  outcome,      \* for each side, the files copied from the directory it ran in
  dash,         \* for each side, what its DashObserver last saw
  verdict,      \* the outcome of the test
  crashes_dir,  \* for each input, the reason it was saved for
  accidents,    \* the inputs saved because both traces hold errors
  executions,
  crashes,
  happened,     \* for each side, what the test really did
  emitted,      \* whether an event was unread when the events were reset, or came later
  kept,         \* whether the directory of the former run could not be removed
  fault         \* whether something failed that was no test: see RecoversFromPanics

files    == <<disk, snapshot, outcome, dash>>
qemu     == <<monitor, wire, events>>
reports  == <<crashes_dir, accidents, executions, crashes>>
observer == <<happened, emitted, kept, fault>>
vars == <<phase, side, input, files, guest, qemu, verdict, reports, observer>>

Test == executions + 1

Ended == phase \in {"done", "failed"}

\* The campaign waits for a command that never returns.
Stuck == phase = "stuck"

Running == ~Ended /\ ~Stuck

\* The files of the directory the test runs in: the test and the coverage by number.
Files == [test : Nat, trace : Traces \cup {Nothing}, lcov : Nat]

ASSUME FilesAssumption == Nothing \notin Files

NoFiles == [test |-> 0, trace |-> Nothing, lcov |-> 0]

\* The sources and programs copied there, test.c and the test made of it.
NoDisk == [tools |-> {}, source |-> Nothing, binary |-> Nothing, exec_dir |-> Nothing]

Unseen  == [test |-> 0, state |-> Nothing]

\* The outcomes of Harness::run, and the reasons a workload is saved for.
Completed == "completed"
TimedOut  == "timed out"
Panicked  == "panicked"
Diff      == "diff"

ASSUME ReasonsAssumption == Nothing \notin {Completed, TimedOut, Panicked, Diff}

\* What a test really does on one of the file systems.
NotRun == [kind |-> "not run"]
Hung   == [kind |-> "hung"]
Killed == [kind |-> "killed the machine"]
Left(trace, state) == [kind |-> "completed", trace |-> trace, state |-> state]

------------------------------------------------------------------------------
(* Comparing the two outcomes.  A state of a file system has a shape and a *)
(* size; dash hashes the size when it is told to, but the list of          *)
(* differences is made with the default options, which leave it out.       *)

TraceDiff == outcome.fst.trace # outcome.snd.trace

HashesDiffer ==
  \/ dash.fst.state.shape # dash.snd.state.shape
  \/ DashSize /\ dash.fst.state.size # dash.snd.state.size

DashDiff == HashesDiffer /\ dash.fst.state.shape # dash.snd.state.shape

BothErroneous == \A s \in Sides : outcome[s].trace \in ErrorTraces

AnyInteresting == TraceDiff \/ DashDiff

------------------------------------------------------------------------------
(* Commands.                                                               *)

\* What a command finds in the machine: the executor's sources to make a test of,
\* the test, the directory it runs in, dash.
HasFiles ==
  /\ phase \in {"make_tools", "write", "make"} => "executor" \in disk.tools
  /\ phase \in {"exec", "report"} => disk.binary # Nothing
  /\ phase \in {"pre_exec", "exec", "post_exec", "post_teardown", "copy"}
       => disk.exec_dir # Nothing
  /\ phase = "post_exec" => "dash" \in disk.tools

CanTeardown ==
  phase \in {"teardown", "timed_out"} => IsMounted(guest, side) /\ DiskIsFree(guest)

\* The machine answers, and can do what the phase asks of it.
CanDo == guest.alive /\ monitor = "idle" /\ HasFiles /\ CanTeardown

\* A command of phase p that is done; phase q is next.
Call(p, q) == phase = p /\ CanDo /\ phase' = q

\* What a command is taken to have done, by the exit code of ssh or of timeout.
ExecLocal(code, timeout) ==
  IF code = 0 THEN "ok"
  ELSE IF code = 124 /\ timeout THEN "timed out" ELSE "io error"

\* What Harness::run does when the test has ended: an error ends the campaign.
After(code) ==
  CASE ExecLocal(code, TRUE) = "ok"        -> "post_exec"
    [] ExecLocal(code, TRUE) = "timed out" -> "timed_out"
    [] OTHER -> "failed"

------------------------------------------------------------------------------
(* Runner::create: the directory for tests, the tools, and the snapshot.    *)

Init ==
  /\ phase = "remote_dir" /\ side = "fst" /\ input = Nothing /\ verdict = Nothing
  /\ outcome = [s \in Sides |-> NoFiles] /\ dash = [s \in Sides |-> Unseen]
  /\ guest = Booted /\ monitor = "idle" /\ wire = FALSE /\ events = FALSE
  /\ disk = NoDisk /\ snapshot = Nothing
  /\ crashes_dir = [i \in Inputs |-> Nothing] /\ accidents = {}
  /\ executions = 0 /\ crashes = 0
  /\ happened = [s \in Sides |-> NotRun] /\ emitted = FALSE /\ kept = FALSE /\ fault = FALSE

\* Whatever becomes of the rm before, the machine was launched on an image without it.
SetupRemoteDir ==
  /\ Call("remote_dir", "copy_tools")
  /\ disk' = NoDisk
  /\ UNCHANGED <<side, input, snapshot, outcome, dash, guest, qemu, verdict, reports, observer>>

\* The executor's sources come with a test.c of their own.
Sample == "sample"

CopyTools ==
  /\ Call("copy_tools", "make_tools")
  /\ disk' = [disk EXCEPT !.tools = @ \cup {"executor"}, !.source = Sample]
  /\ UNCHANGED <<side, input, snapshot, outcome, dash, guest, qemu, verdict, reports, observer>>

MakeTools ==
  /\ Call("make_tools", "copy_dash")
  /\ disk' = [disk EXCEPT !.binary = disk.source]
  /\ UNCHANGED <<side, input, snapshot, outcome, dash, guest, qemu, verdict, reports, observer>>

\* Both observers copy it, to the same place.
CopyDash ==
  /\ Call("copy_dash", "save_snapshot")
  /\ disk' = [disk EXCEPT !.tools = @ \cup {"dash"}]
  /\ UNCHANGED <<side, input, snapshot, outcome, dash, guest, qemu, verdict, reports, observer>>

\* savevm is sent to the monitor of QEMU, whose answer no one reads.
SaveSnapshot ==
  /\ phase = "save_snapshot" /\ phase' = "write"
  /\ monitor' = "savevm"
  /\ UNCHANGED <<side, input, files, guest, wire, events, verdict, reports, observer>>

------------------------------------------------------------------------------
(* fuzz_one picks or generates an input, writes its test.c and makes it,     *)
(* and Harness::run prepares the machine for it.                             *)

WriteTest ==
  /\ Call("write", "make")
  /\ \E i \in Inputs : input' = i /\ disk' = [disk EXCEPT !.source = i]
  /\ side' = "fst" /\ verdict' = Nothing
  /\ happened' = [s \in Sides |-> NotRun]
  /\ UNCHANGED <<guest, qemu, snapshot, outcome, dash, reports, emitted, kept, fault>>

MakeTest ==
  /\ Call("make", "remove_exec_dir")
  /\ disk' = [disk EXCEPT !.binary = disk.source]
  /\ UNCHANGED <<side, input, snapshot, outcome, dash, guest, qemu, verdict, reports, observer>>

RemoveExecDir ==
  /\ Call("remove_exec_dir", "exec_dir")
  /\ disk' = [disk EXCEPT !.exec_dir = Nothing] /\ kept' = FALSE
  /\ UNCHANGED <<side, input, snapshot, outcome, dash, guest, qemu, verdict, reports, happened,
                 emitted, fault>>

\* The error of the removal is dropped.
RemoveExecDirFails ==
  /\ phase = "remove_exec_dir" /\ phase' = "exec_dir"
  /\ kept' = TRUE
  /\ UNCHANGED <<side, input, files, guest, qemu, verdict, reports, happened, emitted, fault>>

\* mkdir -p: a directory that is still there is left as it is.
MakeExecDir ==
  /\ Call("exec_dir", "reset")
  /\ disk' = [disk EXCEPT !.exec_dir = IF @ = Nothing THEN NoFiles ELSE @]
  /\ UNCHANGED <<side, input, snapshot, outcome, dash, guest, qemu, verdict, reports, observer>>

\* Mutant: the events of the past stay in the channel.
ResetEventsKeepsOld ==
  /\ phase = "reset" /\ phase' = "setup"
  /\ events' = events /\ emitted' = wire
  /\ UNCHANGED <<side, input, files, guest, monitor, wire, verdict, reports, happened, kept, fault>>

\* reset_events empties the channel: what the event thread has not read yet stays.
ResetEvents ==
  /\ phase = "reset" /\ phase' = "setup"
  /\ events' = FALSE /\ emitted' = wire
  /\ UNCHANGED <<side, input, files, guest, monitor, wire, verdict, reports, happened, kept, fault>>

SetupFs ==
  /\ Call("setup", "pre_exec")
  /\ guest' = Setup(guest, side)
  /\ UNCHANGED <<side, input, files, qemu, verdict, reports, observer>>

PreExec ==
  /\ Call("pre_exec", "exec")
  /\ guest' = ZeroCounters(guest)
  /\ disk' = [disk EXCEPT !.exec_dir.lcov = 0]
  /\ UNCHANGED <<side, input, snapshot, outcome, dash, qemu, verdict, reports, observer>>

------------------------------------------------------------------------------
(* The test runs under `timeout': it completes, it hangs, it fails by itself, *)
(* or the machine dies under it, which breaks the connection or hangs as well *)
(* even if the machine boots again.                                           *)

TestCompletes ==
  /\ Call("exec", After(0)) /\ happened[side] = NotRun
  /\ \E t \in Traces, d \in States :
       /\ guest' = Touch(guest, d, Test)
       /\ disk' = [disk EXCEPT !.exec_dir.test = Test, !.exec_dir.trace = t]
       /\ happened' = [happened EXCEPT ![side] = Left(t, d)]
  /\ UNCHANGED <<side, input, snapshot, outcome, dash, qemu, verdict, reports, emitted, kept,
                 fault>>

TestHangs ==
  /\ Call("exec", After(124)) /\ happened[side] = NotRun
  /\ happened' = [happened EXCEPT ![side] = Hung]
  /\ \E d \in States, b \in BOOLEAN : guest' = Hold(Touch(guest, d, Test), b)
  /\ UNCHANGED <<side, input, files, qemu, verdict, reports, emitted, kept, fault>>

\* The test that was given up ends after all, and writes its trace.
HungTestEnds ==
  /\ Running /\ guest.alive /\ guest.busy /\ disk.exec_dir # Nothing
  /\ guest' = Hold(guest, FALSE)
  /\ \E t \in Traces : disk' = [disk EXCEPT !.exec_dir.test = Test, !.exec_dir.trace = t]
  /\ UNCHANGED <<phase, side, input, snapshot, outcome, dash, qemu, verdict, reports, observer>>

\* The executor could not prepare its directory or write its files, or ssh failed.
TestFails ==
  /\ phase = "exec" /\ happened[side] = NotRun
  /\ \E code \in {1, 255} : phase' = After(code)
  /\ fault' = TRUE
  /\ UNCHANGED <<side, input, files, guest, qemu, verdict, reports, happened, emitted, kept>>

TestDiesWithGuest ==
  /\ phase = "exec" /\ happened[side] = Killed
  /\ \E code \in {124, 255} : phase' = After(code)
  /\ UNCHANGED <<side, input, files, guest, qemu, verdict, reports, observer>>

------------------------------------------------------------------------------
(* The rest of Harness::run after the test has completed.                  *)

PostExec ==
  /\ Call("post_exec", "teardown")
  /\ dash' = [dash EXCEPT ![side] = [test |-> Test, state |-> guest.data]]
  /\ UNCHANGED <<side, input, disk, snapshot, outcome, guest, qemu, verdict, reports, observer>>

TeardownFs ==
  /\ Call("teardown", "post_teardown")
  /\ guest' = Teardown(guest, side)
  /\ UNCHANGED <<side, input, files, qemu, verdict, reports, observer>>

PostTeardown ==
  /\ Call("post_teardown", "copy")
  /\ disk' = [disk EXCEPT !.exec_dir.lcov = guest.counters]
  /\ UNCHANGED <<side, input, snapshot, outcome, dash, guest, qemu, verdict, reports, observer>>

\* The first harness is followed by the second, the second by the comparison.
CopyOutcome ==
  /\ Call("copy", IF side = "fst" THEN "remove_exec_dir" ELSE "report")
  /\ outcome' = [outcome EXCEPT ![side] = disk.exec_dir]
  /\ side' = "snd"
  /\ verdict' = IF side = "fst" THEN Nothing ELSE Completed
  /\ UNCHANGED <<input, disk, snapshot, dash, guest, qemu, reports, observer>>

------------------------------------------------------------------------------
(* The rest of Harness::run after a timeout, and what run_harness makes of *)
(* it: a panicked machine is to be restored, any other is cleaned up.      *)

HadPanicEvent == phase = "timed_out" /\ events

\* Mutant: had_panic_event waits for an event.
NoPanicEventWaits == FALSE

NoPanicEvent == phase = "timed_out" /\ ~events

\* loadvm is sent to the monitor of QEMU, whose answer no one reads.
RestoreSnapshot ==
  /\ HadPanicEvent /\ phase' = "report"
  /\ events' = FALSE /\ verdict' = Panicked
  /\ monitor' = "loadvm"
  /\ UNCHANGED <<side, input, files, guest, wire, reports, observer>>

\* Mutant: after a timeout of the first file system the second is tested.
TimedOutGoesOn ==
  /\ NoPanicEvent /\ CanDo
  /\ guest' = Teardown(guest, side)
  /\ IF side = "fst"
     THEN side' = "snd" /\ phase' = "remove_exec_dir" /\ UNCHANGED verdict
     ELSE phase' = "report" /\ verdict' = TimedOut /\ UNCHANGED side
  /\ UNCHANGED <<input, files, qemu, reports, observer>>

TimedOutTeardown ==
  /\ NoPanicEvent /\ CanDo /\ phase' = "report"
  /\ guest' = Teardown(guest, side)
  /\ verdict' = TimedOut
  /\ UNCHANGED <<side, input, files, qemu, reports, observer>>

------------------------------------------------------------------------------
(* What fuzz_one does with the outcome, and the end of Fuzzer::runs.       *)

Executed ==
  /\ executions' = executions + 1
  /\ phase' = IF executions + 1 < TestCount THEN "write" ELSE "done"

SaveCrash(reason) ==
  /\ crashes_dir' = [crashes_dir EXCEPT ![input] = reason]
  /\ crashes' = crashes + 1

ReportCrash ==
  /\ phase = "report" /\ verdict \in {TimedOut, Panicked}
  /\ SaveCrash(verdict) /\ Executed
  /\ UNCHANGED <<side, input, files, guest, qemu, verdict, accidents, observer>>

\* The test is copied from the machine.
DetectErrors ==
  /\ phase = "report" /\ verdict = Completed /\ BothErroneous /\ CanDo
  /\ accidents' = accidents \cup {input} /\ Executed
  /\ UNCHANGED <<side, input, files, guest, qemu, verdict, crashes_dir, crashes, observer>>

\* Mutant: the objective is not told of errors in both traces.
DoObjectiveWithErrors ==
  /\ phase = "report" /\ verdict = Completed
  /\ IF AnyInteresting
     THEN CanDo /\ SaveCrash(Diff)
     ELSE UNCHANGED <<crashes_dir, crashes>>
  /\ Executed
  /\ UNCHANGED <<side, input, files, guest, qemu, verdict, accidents, observer>>

DoObjective ==
  /\ phase = "report" /\ verdict = Completed /\ ~BothErroneous
  /\ IF AnyInteresting
     THEN CanDo /\ SaveCrash(Diff)
     ELSE UNCHANGED <<crashes_dir, crashes>>
  /\ Executed
  /\ UNCHANGED <<side, input, files, guest, qemu, verdict, accidents, observer>>

------------------------------------------------------------------------------
(* A command that fails ends the campaign.                                 *)

\* The phases in which the machine is asked for something, and a failure counts.
AsksMachine ==
  \/ phase \in {"remote_dir", "copy_tools", "make_tools", "copy_dash", "write", "make",
                "exec_dir", "setup", "pre_exec", "post_exec", "teardown", "post_teardown", "copy"}
  \/ NoPanicEvent
  \/ phase = "report" /\ verdict = Completed /\ (BothErroneous \/ AnyInteresting)

\* The machine is dead, or came up again without what the command needs, or a test
\* that hung still holds the file system.
CommandRefused ==
  /\ AsksMachine /\ monitor = "idle" /\ ~CanDo
  /\ phase' = "failed"
  /\ UNCHANGED <<side, input, files, guest, qemu, verdict, reports, observer>>

\* It fails although the machine is fit, or the fuzzer cannot use or save its result.
CommandFails ==
  /\ AsksMachine \/ phase \in {"save_snapshot", "reset", "report"} \/ HadPanicEvent
  /\ phase' = "failed" /\ fault' = TRUE
  /\ UNCHANGED <<side, input, files, guest, qemu, verdict, reports, happened, emitted, kept>>

\* No command but the test has a timeout, and ssh is not told to give up.
CommandHangs ==
  /\ AsksMachine \/ phase = "remove_exec_dir"
  /\ phase' = "stuck"
  /\ UNCHANGED <<side, input, files, guest, qemu, verdict, reports, observer>>

------------------------------------------------------------------------------
(* QEMU, its monitor and what it reports.  Any message with an event counts, *)
(* whatever the event is.                                                    *)

Reports == wire' = TRUE /\ emitted' = TRUE

MayReport == Reports \/ UNCHANGED <<wire, emitted>>

\* Mutant: the snapshot is of the machine before the tools are copied.
QemuSavesFirst ==
  /\ Running /\ monitor = "savevm" /\ monitor' = "idle"
  /\ snapshot' = [guest |-> guest, disk |-> NoDisk]
  /\ Reports
  /\ UNCHANGED <<phase, side, input, disk, outcome, dash, guest, events, verdict, reports,
                 happened, kept, fault>>

\* QEMU stops the machine, saves it and resumes it.
QemuSaves ==
  /\ Running /\ monitor = "savevm" /\ monitor' = "idle"
  /\ snapshot' = [guest |-> guest, disk |-> disk]
  /\ Reports
  /\ UNCHANGED <<phase, side, input, disk, outcome, dash, guest, events, verdict, reports,
                 happened, kept, fault>>

QemuLoads ==
  /\ Running /\ monitor = "loadvm" /\ monitor' = "idle"
  /\ snapshot # Nothing /\ guest' = snapshot.guest /\ disk' = snapshot.disk
  /\ Reports
  /\ UNCHANGED <<phase, side, input, snapshot, outcome, dash, events, verdict, reports,
                 happened, kept, fault>>

\* The snapshot cannot be saved, or not be loaded, which leaves the machine stopped.
QemuRefuses ==
  /\ Running /\ monitor # "idle" /\ monitor' = "idle"
  /\ guest' = IF monitor = "loadvm" THEN Die(guest) ELSE guest
  /\ MayReport /\ fault' = TRUE
  /\ UNCHANGED <<phase, side, input, files, events, verdict, reports, happened, kept>>

\* A kernel that panics may tell, one that is stuck does not.  A test may kill the
\* machine while it runs, or when it has been given up.
GuestDies ==
  /\ Running /\ guest.alive
  /\ guest' = Die(guest) /\ MayReport
  /\ IF phase \in {"exec", "timed_out"}
     THEN happened' = [happened EXCEPT ![side] = Killed] /\ UNCHANGED fault
     ELSE fault' = TRUE /\ UNCHANGED happened
  /\ UNCHANGED <<phase, side, input, files, monitor, events, verdict, reports, kept>>

\* panic=1: the kernel reboots, and QEMU reports the reset.  What was written to the
\* disk is still there, unless the system clears /tmp.
GuestReboots ==
  /\ Running /\ ~guest.alive
  /\ guest' = Reboot(guest)
  /\ disk' = disk \/ disk' = NoDisk
  /\ Reports
  /\ UNCHANGED <<phase, side, input, snapshot, outcome, dash, monitor, events, verdict, reports,
                 happened, kept, fault>>

\* QEMU reports more than what becomes of the machine.
UnsolicitedEvent ==
  /\ Running /\ Reports
  /\ UNCHANGED <<phase, side, input, files, guest, monitor, events, verdict, reports, happened,
                 kept, fault>>

\* The event thread reads one event; more may be there.
EventArrives ==
  /\ Running /\ wire
  /\ wire' \in BOOLEAN /\ events' = TRUE
  /\ UNCHANGED <<phase, side, input, files, guest, monitor, verdict, reports, observer>>

------------------------------------------------------------------------------
Create ==
  SetupRemoteDir \/ CopyTools \/ MakeTools \/ CopyDash \/ SaveSnapshot

Prepare ==
  \/ WriteTest \/ MakeTest \/ RemoveExecDir \/ RemoveExecDirFails \/ MakeExecDir
  \/ ResetEvents \/ SetupFs \/ PreExec

Judge ==
  \/ PostExec \/ TeardownFs \/ PostTeardown \/ CopyOutcome
  \/ RestoreSnapshot \/ TimedOutTeardown
  \/ ReportCrash \/ DetectErrors \/ DoObjective

Proceed ==
  Create \/ Prepare \/ TestCompletes \/ TestHangs \/ TestDiesWithGuest \/ Judge

Qemu ==
  \/ QemuSaves \/ QemuLoads \/ QemuRefuses
  \/ GuestDies \/ GuestReboots \/ UnsolicitedEvent \/ EventArrives

Stop == ~Running /\ UNCHANGED vars

Next ==
  \/ Proceed \/ HungTestEnds \/ TestFails \/ CommandRefused \/ CommandFails \/ CommandHangs
  \/ Qemu \/ Stop

\* The instance goes on; a command the machine cannot do fails or never returns,
\* a test that cannot run fails.
Fairness ==
  WF_vars(Proceed \/ (~CanDo /\ (CommandRefused \/ CommandHangs \/ TestFails)))

Spec == Init /\ [][Next]_vars /\ Fairness

------------------------------------------------------------------------------
\* A test starts on a machine that holds nothing of the tests before it: no file system
\* but its own is mounted, which is empty, no test that was given up still runs, the
\* counters are zero, and the directory it runs in is empty unless the removal of the
\* former one failed, whatever became of the tests before (harness.rs:49-72, 111-117,
\* mount/mod.rs:55-70).
CleanStart ==
  phase = "exec" /\ guest.alive /\ happened[side] = NotRun =>
    /\ guest.mounted \subseteq {side} /\ guest.device \in {side, NoFs} /\ guest.data = Empty
    /\ ~guest.busy
    /\ guest.counters = 0
    /\ kept \/ disk.exec_dir \in {NoFiles, Nothing}

\* What is compared when both runs completed, and saved with its binary, are the
\* traces, the coverage and the states of one test: nothing that an earlier test
\* left in the outcome directories, in the observers or in a directory that could not
\* be removed (harness.rs:49-51, runner.rs:283-314).
ComparesOneTest ==
  phase = "report" /\ verdict = Completed =>
    /\ disk.binary \in {input, Nothing}
    /\ \A s \in Sides : /\ outcome[s].test = Test /\ outcome[s].lcov = Test
                        /\ dash[s].test = Test

\* A test is called panicked only on an event that the event thread read after that
\* run of the harness had reset the events: one it had read before, of an earlier panic
\* or of the snapshot, is never taken for one.  One that was reported before but still
\* unread then may be (harness.rs:53, supervisor.rs:233-270).
PanicIsThisRuns == phase = "report" /\ verdict = Panicked => emitted

Differ(f, g) ==
  \/ f.trace # g.trace \/ f.state.shape # g.state.shape

\* Whether what really happened calls for a report, and for an accident.
Deserves ==
  \/ \E s \in Sides : happened[s].kind \in {"hung", "killed the machine"}
  \/ Differ(happened.fst, happened.snd)
      /\ ~ \A s \in Sides : happened[s].trace \in ErrorTraces

\* Every executed test ends up where it belongs: one that hung, killed the machine
\* or told the file systems apart is saved and counted as a crash once, one whose
\* two traces hold errors is an accident instead, and no other is saved
\* (fuzzer.rs:36-108, blackbox/fuzzer.rs:94-143).
VerdictsAreSaved ==
  [][executions' = executions + 1 =>
       /\ crashes' = crashes + (IF Deserves THEN 1 ELSE 0)
       /\ crashes_dir'[input] # Nothing <=> Deserves \/ crashes_dir[input] # Nothing
       /\ \A i \in Inputs \ {input} : crashes_dir'[i] = crashes_dir[i]
       /\ input \in accidents' <=>
            \/ input \in accidents
            \/ \A s \in Sides : /\ happened[s].kind = "completed"
                               /\ happened[s].trace \in ErrorTraces]_vars

\* A test that kills the machine ends the campaign at once or not at all.  Unless
\* something else fails, the campaign fails only while it handles the very test that
\* killed the machine and was not called panicked, or that hung and holds its file
\* system.  From a panic that was noticed it always recovers: whatever became of the
\* machine meanwhile, the snapshot holds all that the next tests need.  What else may
\* fail is QEMU with a snapshot, a death of the machine outside of a test, and a command
\* on a machine that is fit for it (QemuRefuses, GuestDies, CommandFails, TestFails)
\* (harness.rs:107-125, runner.rs:71-73, 159-164, 185-192, 213-220).
RecoversFromPanics ==
  phase = "failed" /\ ~fault => verdict = Nothing /\ happened[side] \in {Hung, Killed}

\* The campaign comes to an end, whichever tests hang or kill the machine, unless a
\* command other than a test never returns: only those have no timeout
\* (harness.rs:72, 107-119, fuzzer.rs:13-32).
CampaignEnds == <>(Ended \/ Stuck)

\* config.rs:70 says of dash.size: "Consider size when comparing".  It does not
\* hold: the hash considers it, the list of differences does not
\* (objective/dash.rs:26, 40-48).
SizeIsConsidered ==
  [][DashSize /\ executions' = executions + 1
       /\ (\A s \in Sides : happened[s].kind = "completed")
       /\ happened.fst.state.size # happened.snd.state.size
       /\ (\E s \in Sides : happened[s].trace \notin ErrorTraces)
     => crashes_dir'[input] # Nothing]_vars
==============================================================================
