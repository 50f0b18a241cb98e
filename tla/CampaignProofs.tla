---------------------------- MODULE CampaignProofs ----------------------------
(***************************************************************************)
(* The campaign of one instance, for any workloads, traces and states of a  *)
(* file system and any number of tests: whatever dies, boots again, hangs   *)
(* or fails.                                                                *)
(***************************************************************************)
EXTENDS Campaign, TLAPS

(***************************************************************************)
(* Types.                                                                   *)
(***************************************************************************)
Creating == {"remote_dir", "copy_tools", "make_tools", "copy_dash", "save_snapshot"}

\* Harness::run, from the directory it makes to the files it copies.
InHarness == {"remove_exec_dir", "exec_dir", "reset", "setup", "pre_exec", "exec", "post_exec",
              "teardown", "post_teardown", "copy"}

InTest == {"make", "timed_out", "report"} \cup InHarness

Phases == Creating \cup {"write"} \cup InTest \cup {"done", "failed", "stuck"}

Tests == Inputs \cup {Sample, Nothing}

Disks == [ tools : SUBSET {"executor", "dash"}, source : Tests, binary : Tests,
           exec_dir : Files \cup {Nothing} ]

Seen == [test : Nat, state : States \cup {Empty, Nothing}]

Happenings ==
  {NotRun, Hung, Killed} \cup [kind : {"completed"}, trace : Traces, state : States]

Verdicts == {Completed, TimedOut, Panicked}

TypeOK ==
  /\ phase \in Phases /\ side \in Sides
  /\ input \in Inputs \cup {Nothing}
  /\ phase \in InTest => input \in Inputs
  /\ guest \in Machine /\ disk \in Disks
  /\ snapshot \in [guest : Machine, disk : Disks] \cup {Nothing}
  /\ monitor \in {"idle", "savevm", "loadvm"} /\ wire \in BOOLEAN /\ events \in BOOLEAN
  /\ outcome \in [Sides -> Files] /\ dash \in [Sides -> Seen]
  /\ verdict \in Verdicts \cup {Nothing}
  /\ crashes_dir \in [Inputs -> {Nothing, TimedOut, Panicked, Diff}]
  /\ accidents \subseteq Inputs
  /\ executions \in Nat /\ crashes \in Nat
  /\ happened \in [Sides -> Happenings]
  /\ emitted \in BOOLEAN /\ kept \in BOOLEAN /\ fault \in BOOLEAN

(***************************************************************************)
(* The parts of the inductive invariant.                                    *)
(***************************************************************************)
Clean(g) == g.mounted = {} /\ ~g.busy

\* The monitor of QEMU is busy only between two tests.
MonitorInv ==
  /\ monitor = "savevm" => phase \in {"write", "failed", "stuck"}
  /\ monitor = "loadvm" => \/ phase \in {"write", "done", "failed", "stuck"}
                           \/ phase = "report" /\ verdict = Panicked

\* Which file systems are mounted, and whether a test may still hold one, before and
\* after a test; and what is left of those before when it runs.
MachineInv ==
  /\ phase \in Creating \cup {"write", "make", "remove_exec_dir", "exec_dir", "reset", "setup",
                          "post_teardown", "copy", "report"}
       => Clean(guest) \/ ~guest.alive \/ monitor = "loadvm"
  /\ snapshot # Nothing => Clean(snapshot.guest) \/ ~snapshot.guest.alive
  /\ phase \in {"pre_exec", "exec", "post_exec", "teardown"}
       => guest.mounted \subseteq {side} /\ ~guest.busy
  /\ phase = "timed_out" => guest.mounted \subseteq {side}
  /\ phase = "pre_exec" \/ (phase = "exec" /\ happened[side] = NotRun)
       => guest.device \in {side, NoFs} /\ guest.data = Empty
  /\ phase = "exec" /\ happened[side] = NotRun => guest.counters = 0
  /\ phase = "exec_dir" => kept \/ disk.exec_dir = Nothing
  /\ phase \in {"reset", "setup", "pre_exec"} \/ (phase = "exec" /\ happened[side] = NotRun)
       => kept \/ disk.exec_dir \in {NoFiles, Nothing}

\* From the reset on, an event that is there has been unread at the reset, or came later.
EventInv ==
  /\ phase \in {"setup", "pre_exec", "exec", "post_exec", "teardown", "post_teardown", "copy",
                "timed_out"} /\ (wire \/ events)
       => emitted
  /\ PanicIsThisRuns

\* What is known of one side is what its run of this test left.
Known(s) ==
  /\ outcome[s].test = Test /\ outcome[s].lcov = Test /\ dash[s].test = Test
  /\ happened[s] = Left(outcome[s].trace, dash[s].state)

\* How what this test left travels from the machine to the comparison.  A machine that
\* boots again loses the mount, and may lose its disk.
TestInv ==
  /\ phase = "make" => side = "fst" /\ ("executor" \in disk.tools => disk.source = input)
  /\ phase \in InHarness => disk.binary \in {input, Nothing} /\ (side = "snd" => Known("fst"))
  /\ phase \in {"post_exec", "teardown", "post_teardown"} => guest.counters = Test
  /\ phase \in {"post_exec", "teardown", "post_teardown", "copy"} /\ disk.exec_dir # Nothing
       => disk.exec_dir.test = Test
  /\ phase = "copy" /\ disk.exec_dir # Nothing => disk.exec_dir.lcov = Test
  /\ phase \in {"teardown", "post_teardown", "copy"} => dash[side].test = Test
  /\ phase = "post_exec" /\ side \in guest.mounted /\ disk.exec_dir # Nothing
       => happened[side] = Left(disk.exec_dir.trace, guest.data)
  /\ (phase = "teardown" /\ side \in guest.mounted) \/ phase \in {"post_teardown", "copy"}
       => (disk.exec_dir # Nothing
             => happened[side] = Left(disk.exec_dir.trace, dash[side].state))
  /\ phase = "report" /\ verdict = Completed
       => disk.binary \in {input, Nothing} /\ \A s \in Sides : Known(s)

\* A test that has run into its timeout hung or killed the machine.
TimeoutInv ==
  /\ phase \in InTest \ {"report"} => verdict = Nothing
  /\ phase = "timed_out" => happened[side] \in {Hung, Killed}
  /\ phase = "report" /\ verdict # Completed =>
       verdict \in {TimedOut, Panicked} /\ \E s \in Sides : happened[s] \in {Hung, Killed}

\* The machine answers, and holds what the phase asks for.
Ready ==
  /\ guest.alive
  /\ phase \notin {"remote_dir", "copy_tools"} => "executor" \in disk.tools
  /\ phase \notin {"remote_dir", "copy_tools", "make_tools", "copy_dash"} => "dash" \in disk.tools
  /\ phase \in InHarness \/ (phase = "report" /\ verdict = Completed) => disk.binary # Nothing
  /\ phase \in {"reset", "setup", "pre_exec", "exec", "post_exec", "teardown", "post_teardown",
                "copy"} => disk.exec_dir # Nothing
  /\ phase \in {"pre_exec", "exec", "post_exec", "teardown"} => side \in guest.mounted

\* Unless something but a test failed, the machine is ready but while a test ends that
\* hung or killed it, or while its snapshot is being restored; and so is the snapshot.
RecoveryInv ==
  ~fault =>
    /\ \/ phase \in {"timed_out", "done", "failed", "stuck"} \/ monitor = "loadvm"
       \/ phase = "exec" /\ happened[side] = Killed
       \/ Ready
    /\ phase \in {"exec", "timed_out"} /\ side \in guest.mounted
         => {"executor", "dash"} \subseteq disk.tools
    /\ snapshot # Nothing
         => snapshot.guest.alive /\ {"executor", "dash"} \subseteq snapshot.disk.tools
    /\ RecoversFromPanics

(***************************************************************************)
(* Every variable keeps its type.                                           *)
(***************************************************************************)
(* What Harness::run does after the exit codes a test can end with.         *)
LEMMA AfterTheTest ==
  /\ After(0) = "post_exec" /\ After(124) = "timed_out"
  /\ After(1) = "failed" /\ After(255) = "failed"
  BY DEF After, ExecLocal

(* What the operations of the machine leave of it.                          *)
LEMMA MachineTypes ==
  ASSUME NEW g \in Machine, NEW s \in Sides
  PROVE  /\ Setup(g, s) \in Machine /\ Teardown(g, s) \in Machine
         /\ ZeroCounters(g) \in Machine /\ Die(g) \in Machine /\ Reboot(g) \in Machine
         /\ \A d \in States, t \in Nat : Touch(g, d, t) \in Machine
         /\ \A b \in BOOLEAN : Hold(g, b) \in Machine
  BY DEF Setup, Teardown, ZeroCounters, Die, Reboot, Booted, Touch, Hold, Machine

LEMMA InitialTypes == Init => TypeOK
<1> SUFFICES ASSUME Init PROVE TypeOK
  OBVIOUS
<1> USE DEF Init
<1>1. guest \in Machine
  BY DEF Booted, Machine
<1>2. NoFiles \in Files /\ disk \in Disks
  BY DEF NoDisk, NoFiles, Disks, Files, Tests
<1>3. outcome \in [Sides -> Files] /\ dash \in [Sides -> Seen]
  BY <1>2 DEF Unseen, Seen
<1>4. happened \in [Sides -> Happenings]
  BY DEF Happenings
<1>5. phase \in Phases /\ phase \in Creating /\ phase \notin InTest
  BY DEF Phases, Creating, InTest, InHarness
<1> QED
  BY <1>1, <1>2, <1>3, <1>4, <1>5 DEF TypeOK, Sides

(* Every action leaves every variable in its type.                          *)
LEMMA TypesStep ==
  ASSUME TypeOK, [Next]_vars
  PROVE  TypeOK'
<1> USE DEF TypeOK, files, qemu, reports, observer
<1> DEFINE Typed == /\ phase' \in Phases /\ side' \in Sides
                    /\ input' \in Inputs \cup {Nothing}
                    /\ phase' \in InTest => input' \in Inputs
<1>0. Test \in Nat
  BY DEF Test
<1>1. CASE SetupRemoteDir \/ CopyTools \/ MakeTools \/ CopyDash
  <2>1. disk' \in Disks
    <3>1. CASE SetupRemoteDir
      BY <3>1 DEF SetupRemoteDir, NoDisk, Disks, Tests
    <3>2. CASE CopyTools
      <4>1. disk.tools \cup {"executor"} \in SUBSET {"executor", "dash"} /\ Sample \in Tests
        BY DEF Disks, Tests
      <4> QED
        BY <3>2, <4>1 DEF CopyTools, Disks
    <3>3. CASE MakeTools
      BY <3>3 DEF MakeTools, Disks
    <3>4. CASE CopyDash
      <4>1. disk.tools \cup {"dash"} \in SUBSET {"executor", "dash"}
        BY DEF Disks
      <4> QED
        BY <3>4, <4>1 DEF CopyDash, Disks
    <3> QED
      BY <1>1, <3>1, <3>2, <3>3, <3>4
  <2>2. Typed
    BY <1>1
    DEF SetupRemoteDir, CopyTools, MakeTools, CopyDash, Call, Phases, Creating, InTest, InHarness
  <2> QED
    BY <1>1, <2>1, <2>2 DEF SetupRemoteDir, CopyTools, MakeTools, CopyDash
<1>2. CASE SaveSnapshot
  <2>1. Typed
    BY <1>2 DEF SaveSnapshot, Phases, Creating, InTest, InHarness
  <2> QED
    BY <1>2, <2>1 DEF SaveSnapshot
<1>3. CASE WriteTest
  <2>1. PICK i \in Inputs : input' = i /\ disk' = [disk EXCEPT !.source = i]
    BY <1>3 DEF WriteTest
  <2>2. disk' \in Disks
    BY <2>1 DEF Disks, Tests
  <2>3. happened' \in [Sides -> Happenings]
    BY <1>3 DEF WriteTest, Happenings
  <2>4. Typed
    BY <1>3, <2>1 DEF WriteTest, Call, Phases, InTest, InHarness, Sides
  <2> QED
    BY <1>3, <2>2, <2>3, <2>4 DEF WriteTest
<1>4. CASE MakeTest \/ RemoveExecDir \/ RemoveExecDirFails \/ MakeExecDir \/ ResetEvents
  <2>1. disk' \in Disks
    BY <1>4
    DEF MakeTest, RemoveExecDir, RemoveExecDirFails, MakeExecDir, ResetEvents, NoFiles, Disks, Files
  <2>2. Typed
    BY <1>4
    DEF MakeTest, RemoveExecDir, RemoveExecDirFails, MakeExecDir, ResetEvents, Call, Phases, InTest,
        InHarness
  <2> QED
    BY <1>4, <2>1, <2>2
    DEF MakeTest, RemoveExecDir, RemoveExecDirFails, MakeExecDir, ResetEvents
<1>5. CASE SetupFs \/ PreExec
  <2>1. disk' \in Disks
    <3>1. PreExec => disk.exec_dir \in Files
      BY DEF PreExec, Call, CanDo, HasFiles, Disks
    <3> QED
      BY <1>5, <3>1 DEF SetupFs, PreExec, Disks, Files
  <2>2. guest' \in Machine
    BY <1>5, MachineTypes DEF SetupFs, PreExec
  <2>3. Typed
    BY <1>5 DEF SetupFs, PreExec, Call, Phases, InTest, InHarness
  <2> QED
    BY <1>5, <2>1, <2>2, <2>3 DEF SetupFs, PreExec
<1>6. CASE TestCompletes
  <2>1. PICK t \in Traces, d \in States :
          /\ guest' = Touch(guest, d, Test)
          /\ disk' = [disk EXCEPT !.exec_dir.test = Test, !.exec_dir.trace = t]
          /\ happened' = [happened EXCEPT ![side] = Left(t, d)]
    BY <1>6 DEF TestCompletes
  <2>2. guest' \in Machine
    BY <2>1, <1>0, MachineTypes
  <2>3. disk' \in Disks
    <3>1. disk.exec_dir \in Files
      BY <1>6 DEF TestCompletes, Call, CanDo, HasFiles, Disks
    <3> QED
      BY <2>1, <3>1, <1>0 DEF Disks, Files
  <2>4. happened' \in [Sides -> Happenings]
    BY <2>1 DEF Left, Happenings
  <2>5. Typed
    BY <1>6, AfterTheTest DEF TestCompletes, Call, Phases, InTest, InHarness
  <2> QED
    BY <1>6, <2>2, <2>3, <2>4, <2>5 DEF TestCompletes
<1>7. CASE TestHangs
  <2>1. guest' \in Machine
    <3>1. PICK d \in States, b \in BOOLEAN : guest' = Hold(Touch(guest, d, Test), b)
      BY <1>7 DEF TestHangs
    <3>2. Touch(guest, d, Test) \in Machine
      BY <1>0, MachineTypes
    <3> QED
      BY <3>1, <3>2, MachineTypes
  <2>2. happened' \in [Sides -> Happenings]
    BY <1>7 DEF TestHangs, Happenings
  <2>3. Typed
    BY <1>7, AfterTheTest DEF TestHangs, Call, Phases, InTest, InHarness
  <2> QED
    BY <1>7, <2>1, <2>2, <2>3 DEF TestHangs
<1>8. CASE HungTestEnds
  <2>1. disk' \in Disks
    <3>1. PICK t \in Traces : disk' = [disk EXCEPT !.exec_dir.test = Test, !.exec_dir.trace = t]
      BY <1>8 DEF HungTestEnds
    <3>2. disk.exec_dir \in Files
      BY <1>8 DEF HungTestEnds, Disks
    <3> QED
      BY <3>1, <3>2, <1>0 DEF Disks, Files
  <2>2. guest' \in Machine
    BY <1>8, MachineTypes DEF HungTestEnds
  <2> QED
    BY <1>8, <2>1, <2>2 DEF HungTestEnds
<1>9. CASE TestFails \/ TestDiesWithGuest
  <2>1. Typed
    BY <1>9, AfterTheTest DEF TestFails, TestDiesWithGuest, Phases, InTest, InHarness
  <2>2. fault' \in BOOLEAN
    BY <1>9 DEF TestFails, TestDiesWithGuest
  <2> QED
    BY <1>9, <2>1, <2>2 DEF TestFails, TestDiesWithGuest
<1>10. CASE PostExec \/ TeardownFs \/ PostTeardown \/ CopyOutcome
  <2>1. guest' \in Machine
    BY <1>10, MachineTypes DEF PostExec, TeardownFs, PostTeardown, CopyOutcome
  <2>2. PostTeardown \/ CopyOutcome => disk.exec_dir \in Files
    BY DEF PostTeardown, CopyOutcome, Call, CanDo, HasFiles, Disks
  <2>3. disk' \in Disks
    BY <1>10, <2>2 DEF PostExec, TeardownFs, PostTeardown, CopyOutcome, Disks, Files, Machine
  <2>4. dash' \in [Sides -> Seen]
    BY <1>10, <1>0 DEF PostExec, TeardownFs, PostTeardown, CopyOutcome, Seen, Machine
  <2>5. outcome' \in [Sides -> Files]
    BY <1>10, <2>2 DEF PostExec, TeardownFs, PostTeardown, CopyOutcome
  <2>6. Typed /\ verdict' \in Verdicts \cup {Nothing}
    BY <1>10
    DEF PostExec, TeardownFs, PostTeardown, CopyOutcome, Call, Phases, InTest, InHarness, Sides,
        Verdicts
  <2> QED
    BY <1>10, <2>1, <2>3, <2>4, <2>5, <2>6 DEF PostExec, TeardownFs, PostTeardown, CopyOutcome
<1>11. CASE RestoreSnapshot \/ TimedOutTeardown
  <2>1. guest' \in Machine
    BY <1>11, MachineTypes DEF RestoreSnapshot, TimedOutTeardown
  <2>2. Typed /\ verdict' \in Verdicts
    BY <1>11
    DEF RestoreSnapshot, TimedOutTeardown, HadPanicEvent, NoPanicEvent, Phases, InTest, InHarness,
        Verdicts
  <2> QED
    BY <1>11, <2>1, <2>2 DEF RestoreSnapshot, TimedOutTeardown
<1>12. CASE ReportCrash \/ DetectErrors \/ DoObjective
  <2>1. Typed /\ input \in Inputs
    <3>1. phase = "report" /\ Executed /\ UNCHANGED <<side, input>>
      BY <1>12 DEF ReportCrash, DetectErrors, DoObjective
    <3>2. phase \in InTest
      BY <3>1 DEF InTest
    <3>3. phase' \in {"write", "done"}
      BY <3>1 DEF Executed
    <3>4. phase' \in Phases /\ phase' \notin InTest
      BY <3>3 DEF Phases, InTest, InHarness
    <3> QED
      BY <3>1, <3>2, <3>4
  <2>2. /\ crashes_dir' \in [Inputs -> {Nothing, TimedOut, Panicked, Diff}]
        /\ crashes' \in Nat /\ executions' \in Nat /\ accidents' \subseteq Inputs
    BY <1>12, <2>1 DEF ReportCrash, DetectErrors, DoObjective, Executed, SaveCrash
  <2> QED
    BY <1>12, <2>1, <2>2 DEF ReportCrash, DetectErrors, DoObjective
<1>13. CASE CommandRefused \/ CommandFails \/ CommandHangs
  <2>1. Typed
    BY <1>13 DEF CommandRefused, CommandFails, CommandHangs, Phases, InTest, InHarness
  <2> QED
    BY <1>13, <2>1 DEF CommandRefused, CommandFails, CommandHangs
<1>14. CASE QemuSaves \/ QemuLoads \/ QemuRefuses
  <2>1. guest' \in Machine /\ disk' \in Disks
    BY <1>14, MachineTypes DEF QemuSaves, QemuLoads, QemuRefuses
  <2>2. snapshot' \in [guest : Machine, disk : Disks] \cup {Nothing}
    BY <1>14 DEF QemuSaves, QemuLoads, QemuRefuses
  <2>3. /\ monitor' = "idle"
        /\ wire' \in BOOLEAN /\ emitted' \in BOOLEAN /\ fault' \in BOOLEAN
    BY <1>14 DEF QemuSaves, QemuLoads, QemuRefuses, MayReport, Reports
  <2> QED
    BY <1>14, <2>1, <2>2, <2>3 DEF QemuSaves, QemuLoads, QemuRefuses
<1>15. CASE GuestDies \/ GuestReboots
  <2>1. guest' \in Machine
    BY <1>15, MachineTypes DEF GuestDies, GuestReboots, Sides
  <2>2. disk' \in Disks
    BY <1>15 DEF GuestDies, GuestReboots, NoDisk, Disks, Tests
  <2>3. happened' \in [Sides -> Happenings]
    BY <1>15 DEF GuestDies, GuestReboots, Happenings
  <2> QED
    BY <1>15, <2>1, <2>2, <2>3 DEF GuestDies, GuestReboots, MayReport, Reports
<1>16. CASE UnsolicitedEvent \/ EventArrives \/ UNCHANGED vars
  BY <1>16 DEF UnsolicitedEvent, EventArrives, Reports, vars
<1> QED
  BY <1>1, <1>2, <1>3, <1>4, <1>5, <1>6, <1>7, <1>8, <1>9, <1>10, <1>11, <1>12, <1>13, <1>14, <1>15,
     <1>16
  DEF Next, Proceed, Create, Prepare, Judge, Qemu, Stop

(* Every variable keeps its type, the machine, its disk and its snapshot     *)
(* included.                                                                *)
THEOREM TypeCorrect == Spec => []TypeOK
  BY InitialTypes, TypesStep, PTL DEF Spec

(***************************************************************************)
(* The monitor, and what the operations of the machine leave.               *)
(***************************************************************************)
LEMMA MonitorStep ==
  ASSUME TypeOK, MonitorInv, [Next]_vars
  PROVE  MonitorInv'
<1> USE DEF MonitorInv, files, qemu, reports, observer
<1>1. CASE SaveSnapshot
  BY <1>1 DEF SaveSnapshot
<1>2. CASE RestoreSnapshot
  BY <1>2 DEF RestoreSnapshot
<1>3. CASE QemuSaves \/ QemuLoads \/ QemuRefuses
  BY <1>3 DEF QemuSaves, QemuLoads, QemuRefuses
<1>4. CASE \/ SetupRemoteDir \/ CopyTools \/ MakeTools \/ CopyDash
           \/ WriteTest \/ MakeTest \/ RemoveExecDir \/ MakeExecDir \/ SetupFs \/ PreExec
           \/ TestCompletes \/ TestHangs \/ PostExec \/ TeardownFs \/ PostTeardown \/ CopyOutcome
           \/ TimedOutTeardown
  <2>1. monitor = "idle" /\ UNCHANGED monitor
    <3>1. CASE SetupRemoteDir \/ CopyTools \/ MakeTools \/ CopyDash
      BY <3>1 DEF SetupRemoteDir, CopyTools, MakeTools, CopyDash, Call, CanDo
    <3>2. CASE WriteTest \/ MakeTest \/ RemoveExecDir \/ MakeExecDir \/ SetupFs \/ PreExec
      BY <3>2 DEF WriteTest, MakeTest, RemoveExecDir, MakeExecDir, SetupFs, PreExec, Call, CanDo
    <3>3. CASE TestCompletes \/ TestHangs \/ TimedOutTeardown
      BY <3>3 DEF TestCompletes, TestHangs, TimedOutTeardown, Call, CanDo
    <3>4. CASE PostExec \/ TeardownFs \/ PostTeardown \/ CopyOutcome
      BY <3>4 DEF PostExec, TeardownFs, PostTeardown, CopyOutcome, Call, CanDo
    <3> QED
      BY <1>4, <3>1, <3>2, <3>3, <3>4
  <2> QED
    BY <2>1
<1>5. CASE RemoveExecDirFails \/ ResetEvents \/ TestFails \/ TestDiesWithGuest
  BY <1>5 DEF RemoveExecDirFails, ResetEvents, TestFails, TestDiesWithGuest, TypeOK
<1>6. CASE ReportCrash \/ DetectErrors \/ DoObjective
  BY <1>6 DEF ReportCrash, DetectErrors, DoObjective, Executed
<1>7. CASE CommandRefused \/ CommandFails \/ CommandHangs
  BY <1>7 DEF CommandRefused, CommandFails, CommandHangs
<1>8. CASE HungTestEnds \/ GuestDies \/ GuestReboots
  BY <1>8 DEF HungTestEnds, GuestDies, GuestReboots
<1>9. CASE UnsolicitedEvent \/ EventArrives \/ UNCHANGED vars
  BY <1>9 DEF UnsolicitedEvent, EventArrives, vars
<1> QED
  BY <1>1, <1>2, <1>3, <1>4, <1>5, <1>6, <1>7, <1>8, <1>9
  DEF Next, Proceed, Create, Prepare, Judge, Qemu, Stop

(* What the operations of the machine do to its parts.                      *)
LEMMA MachineParts ==
  ASSUME NEW g \in Machine, NEW s \in Sides
  PROVE  /\ Setup(g, s).mounted = g.mounted \cup {s} /\ Setup(g, s).device = s
         /\ Setup(g, s).data = Empty /\ Setup(g, s).busy = g.busy
         /\ Teardown(g, s).mounted = g.mounted \ {s} /\ Teardown(g, s).busy = g.busy
         /\ Teardown(g, s).counters = g.counters
         /\ ZeroCounters(g).mounted = g.mounted /\ ZeroCounters(g).device = g.device
         /\ ZeroCounters(g).data = g.data /\ ZeroCounters(g).busy = g.busy
         /\ ZeroCounters(g).counters = 0
         /\ Die(g).mounted = g.mounted /\ Die(g).device = g.device /\ Die(g).data = g.data
         /\ Die(g).busy = g.busy /\ Die(g).counters = g.counters /\ Die(g).alive = FALSE
         /\ Setup(g, s).alive = g.alive /\ Teardown(g, s).alive = g.alive
         /\ ZeroCounters(g).alive = g.alive
  BY DEF Setup, Teardown, ZeroCounters, Die, Machine

LEMMA SetupParts ==
  ASSUME NEW g \in Machine, NEW s \in Sides
  PROVE  Setup(g, s).alive = g.alive /\ Setup(g, s).mounted = g.mounted \cup {s}
  BY MachineParts

LEMMA RebootParts ==
  ASSUME NEW g \in Machine
  PROVE  /\ Clean(Reboot(g)) /\ Reboot(g).mounted = {} /\ Reboot(g).busy = FALSE
         /\ Reboot(g).device = NoFs /\ Reboot(g).data = Empty
         /\ Reboot(g).counters = g.counters
  BY DEF Reboot, Booted, Clean

LEMMA TouchParts ==
  ASSUME NEW g \in Machine, NEW d \in States, NEW t \in Nat
  PROVE  /\ Touch(g, d, t).mounted = g.mounted /\ Touch(g, d, t).busy = g.busy
         /\ Touch(g, d, t).data = d /\ Touch(g, d, t).counters = t
         /\ Touch(g, d, t).alive = g.alive
  BY DEF Touch, Machine

LEMMA HoldParts ==
  ASSUME NEW g \in Machine, NEW b \in BOOLEAN
  PROVE  /\ Hold(g, b).mounted = g.mounted /\ Hold(g, b).data = g.data
         /\ Hold(g, b).alive = g.alive /\ Hold(g, b).counters = g.counters
  BY DEF Hold, Machine

(* A test that hangs leaves the file system it ran on mounted.              *)
LEMMA HangKeepsMounts ==
  ASSUME TypeOK, TestHangs
  PROVE  guest'.mounted = guest.mounted
<1>1. PICK d \in States, b \in BOOLEAN : guest' = Hold(Touch(guest, d, Test), b)
  BY DEF TestHangs
<1>2. Test \in Nat
  BY DEF TypeOK, Test
<1>3. Touch(guest, d, Test) \in Machine
  BY <1>2, MachineTypes DEF TypeOK
<1>4. guest'.mounted = Touch(guest, d, Test).mounted
  BY <1>1, <1>3, HoldParts
<1> QED
  BY <1>2, <1>4, TouchParts DEF TypeOK

(* A test still holds its file system only after its timeout, or while the  *)
(* snapshot is being restored.                                              *)
LEMMA HungTestTimedOut ==
  ASSUME TypeOK, MachineInv, HungTestEnds
  PROVE  phase = "timed_out" \/ monitor = "loadvm"
  BY DEF MachineInv, HungTestEnds, Running, Ended, Stuck, TypeOK, Phases, InTest, InHarness, Clean

(***************************************************************************)
(* Clean starts.                                                            *)
(***************************************************************************)
LEMMA MachineStep ==
  ASSUME TypeOK, MonitorInv, MachineInv, [Next]_vars
  PROVE  MachineInv'
<1> USE DEF MachineInv, files, qemu, observer, Creating
<1>0. guest \in Machine /\ disk \in Disks /\ side \in Sides
  BY DEF TypeOK
<1>1. CASE SetupRemoteDir \/ CopyTools \/ MakeTools \/ CopyDash
  BY <1>1 DEF SetupRemoteDir, CopyTools, MakeTools, CopyDash, Call
<1>2. CASE SaveSnapshot
  BY <1>2 DEF SaveSnapshot, MonitorInv
<1>3. CASE WriteTest \/ MakeTest
  BY <1>3 DEF WriteTest, MakeTest, Call
<1>4. CASE RemoveExecDir \/ RemoveExecDirFails \/ MakeExecDir \/ ResetEvents
  <2>1. /\ phase' = "exec_dir" => kept' \/ disk'.exec_dir = Nothing
        /\ phase' = "reset" => kept' \/ disk'.exec_dir = NoFiles
    BY <1>4, <1>0 DEF RemoveExecDir, RemoveExecDirFails, MakeExecDir, ResetEvents, Call, Disks
  <2> QED
    BY <1>4, <2>1 DEF RemoveExecDir, RemoveExecDirFails, MakeExecDir, ResetEvents, Call
<1>5. CASE SetupFs
  <2>1. Clean(guest)
    BY <1>5 DEF SetupFs, Call, CanDo
  <2>2. /\ guest'.mounted = {side} /\ ~guest'.busy
        /\ guest'.device = side /\ guest'.data = Empty
    <3>1. guest' = Setup(guest, side) /\ guest.mounted = {} /\ guest.busy = FALSE
      BY <1>5, <1>0, <2>1 DEF SetupFs, Clean, Machine
    <3>2. /\ Setup(guest, side).mounted = guest.mounted \cup {side}
          /\ Setup(guest, side).busy = guest.busy
          /\ Setup(guest, side).device = side /\ Setup(guest, side).data = Empty
      BY <1>0, MachineParts
    <3> QED
      BY <3>1, <3>2
  <2>3. phase = "setup" /\ phase' = "pre_exec" /\ UNCHANGED <<side, snapshot, disk, kept>>
    BY <1>5 DEF SetupFs, Call
  <2> QED
    BY <2>2, <2>3
<1>6. CASE PreExec
  <2>1. kept \/ disk'.exec_dir = NoFiles
    <3>1. kept \/ disk.exec_dir = NoFiles
      BY <1>6 DEF PreExec, Call, CanDo, HasFiles
    <3> QED
      BY <1>6, <1>0, <3>1 DEF PreExec, Disks, NoFiles
  <2> QED
    BY <1>6, <1>0, <2>1, MachineParts DEF PreExec, Call
<1>7. CASE TestCompletes
  <2>1. guest'.mounted = guest.mounted /\ guest'.busy = guest.busy
    BY <1>7, <1>0, TouchParts DEF TestCompletes, Test, TypeOK
  <2> QED
    BY <1>7, <2>1, AfterTheTest DEF TestCompletes, Call
<1>8. CASE TestHangs
  BY <1>8, HangKeepsMounts, AfterTheTest DEF TestHangs, Call
<1>9. CASE HungTestEnds
  <2>1. guest'.mounted = guest.mounted
    BY <1>9, <1>0, HoldParts DEF HungTestEnds
  <2>2. UNCHANGED <<phase, side, snapshot, monitor>>
    BY <1>9 DEF HungTestEnds
  <2> QED
    BY <2>1, <2>2, <1>9, HungTestTimedOut DEF MonitorInv
<1>10. CASE TestFails \/ TestDiesWithGuest
  BY <1>10, AfterTheTest DEF TestFails, TestDiesWithGuest
<1>11. CASE CommandRefused \/ CommandFails \/ CommandHangs
  BY <1>11 DEF CommandRefused, CommandFails, CommandHangs
<1>12. CASE PostExec \/ PostTeardown \/ CopyOutcome
  BY <1>12 DEF PostExec, PostTeardown, CopyOutcome, Call
<1>13. CASE TeardownFs \/ TimedOutTeardown
  <2>1. guest.mounted \subseteq {side} /\ ~guest.busy /\ guest' = Teardown(guest, side)
    BY <1>13
    DEF TeardownFs, TimedOutTeardown, NoPanicEvent, CanDo, CanTeardown, DiskIsFree, Call
  <2>2. Clean(guest')
    <3>1. guest.busy = FALSE /\ guest.mounted \ {side} = {}
      BY <1>0, <2>1 DEF Machine
    <3>2. guest'.mounted = guest.mounted \ {side} /\ guest'.busy = FALSE
      BY <1>0, <2>1, <3>1, MachineParts
    <3> QED
      BY <3>1, <3>2 DEF Clean
  <2>3. UNCHANGED <<side, snapshot, kept>> /\ phase' \in {"post_teardown", "report"}
    BY <1>13 DEF TeardownFs, TimedOutTeardown, Call
  <2> QED
    BY <2>2, <2>3
<1>14. CASE RestoreSnapshot
  BY <1>14 DEF RestoreSnapshot, HadPanicEvent
<1>15. CASE ReportCrash \/ DetectErrors \/ DoObjective
  BY <1>15 DEF ReportCrash, DetectErrors, DoObjective, Executed
<1>16. CASE QemuSaves
  <2>1. phase = "write" /\ (Clean(guest) \/ ~guest.alive)
    BY <1>16 DEF QemuSaves, MonitorInv, Running, Ended, Stuck
  <2>2. snapshot'.guest = guest /\ UNCHANGED <<phase, guest>>
    BY <1>16 DEF QemuSaves
  <2> QED
    BY <2>1, <2>2
<1>17. CASE QemuLoads \/ QemuRefuses
  <2>1. phase \in {"write", "failed", "done", "stuck", "report"}
    BY <1>17 DEF QemuLoads, QemuRefuses, MonitorInv, TypeOK
  <2>2. Clean(guest') \/ ~guest'.alive \/ phase \notin {"write", "report"}
    BY <1>17, <1>0, MachineParts DEF QemuLoads, QemuRefuses
  <2>3. UNCHANGED <<phase, snapshot>>
    BY <1>17 DEF QemuLoads, QemuRefuses
  <2> QED
    BY <2>1, <2>2, <2>3
<1>18. CASE GuestDies
  <2>1. Killed # NotRun
    BY DEF Killed, NotRun
  <2>2. phase = "exec" => happened'[side] = Killed
    BY <1>18 DEF GuestDies, TypeOK
  <2> QED
    BY <1>18, <1>0, <2>1, <2>2, MachineParts DEF GuestDies, Clean
<1>19. CASE GuestReboots
  <2>1. disk'.exec_dir \in {disk.exec_dir, Nothing}
    BY <1>19 DEF GuestReboots, NoDisk
  <2>2. UNCHANGED <<phase, side, snapshot, happened, kept>>
    BY <1>19 DEF GuestReboots
  <2>3. /\ Clean(guest') /\ guest'.mounted = {} /\ ~guest'.busy
        /\ guest'.device = NoFs /\ guest'.data = Empty /\ guest'.counters = guest.counters
    BY <1>19, <1>0, RebootParts DEF GuestReboots
  <2> QED
    BY <2>1, <2>2, <2>3
<1>20. CASE UnsolicitedEvent \/ EventArrives \/ UNCHANGED vars
  BY <1>20 DEF UnsolicitedEvent, EventArrives, vars
<1> QED
  BY <1>1, <1>2, <1>3, <1>4, <1>5, <1>6, <1>7, <1>8, <1>9, <1>10, <1>11, <1>12, <1>13, <1>14, <1>15,
     <1>16, <1>17, <1>18, <1>19, <1>20
  DEF Next, Proceed, Create, Prepare, Judge, Qemu, Stop

LEMMA Machines == Spec => [](TypeOK /\ MonitorInv /\ MachineInv)
<1>1. Init => MonitorInv /\ MachineInv
  BY DEF Init, MonitorInv, MachineInv, Booted, Clean, Creating
<1>2. TypeOK /\ MonitorInv /\ MachineInv /\ [Next]_vars => MonitorInv' /\ MachineInv'
  BY MonitorStep, MachineStep
<1> QED
  BY <1>1, <1>2, TypeCorrect, PTL DEF Spec

(* Whatever became of the machine and of the tests before, a test starts on  *)
(* a machine that holds nothing of them; only the directory it runs in may  *)
(* hold their files, when its removal failed.                               *)
THEOREM TestsStartClean == Spec => []CleanStart
<1>1. MachineInv => CleanStart
  BY DEF MachineInv, CleanStart
<1> QED
  BY <1>1, Machines, PTL

(***************************************************************************)
(* Events.                                                                  *)
(***************************************************************************)
LEMMA EventStep ==
  ASSUME TypeOK, EventInv, [Next]_vars
  PROVE  EventInv'
<1> USE DEF EventInv, PanicIsThisRuns, files, qemu, reports, observer
<1>0. wire \in BOOLEAN /\ events \in BOOLEAN /\ emitted \in BOOLEAN
  BY DEF TypeOK
<1>1. CASE Create \/ WriteTest \/ MakeTest \/ RemoveExecDir \/ RemoveExecDirFails \/ MakeExecDir
  <2>1. phase' \in Creating \cup {"write", "make", "remove_exec_dir", "exec_dir", "reset"}
    BY <1>1
    DEF Create, SetupRemoteDir, CopyTools, MakeTools, CopyDash, SaveSnapshot, WriteTest, MakeTest,
        RemoveExecDir, RemoveExecDirFails, MakeExecDir, Call, Creating
  <2> QED
    BY <2>1 DEF Creating
<1>2. CASE ResetEvents
  BY <1>0, <1>2 DEF ResetEvents
<1>3. CASE SetupFs \/ PreExec \/ PostExec \/ TeardownFs \/ PostTeardown
  BY <1>3 DEF SetupFs, PreExec, PostExec, TeardownFs, PostTeardown, Call
<1>4. CASE TestCompletes \/ TestHangs \/ TestFails \/ TestDiesWithGuest
  <2>1. /\ phase = "exec" /\ phase' \in {"post_exec", "timed_out", "failed"}
        /\ UNCHANGED <<wire, events, emitted>>
    <3>1. CASE TestCompletes \/ TestHangs
      BY <3>1, AfterTheTest DEF TestCompletes, TestHangs, Call
    <3>2. CASE TestFails \/ TestDiesWithGuest
      BY <3>2, AfterTheTest DEF TestFails, TestDiesWithGuest
    <3> QED
      BY <1>4, <3>1, <3>2
  <2> QED
    BY <2>1
<1>5. CASE CopyOutcome \/ TimedOutTeardown
  <2>1. /\ phase' \in {"remove_exec_dir", "report"}
        /\ phase' = "report" => verdict' # Panicked
    BY <1>5 DEF CopyOutcome, TimedOutTeardown, Call, Completed, TimedOut, Panicked
  <2> QED
    BY <2>1
<1>6. CASE RestoreSnapshot
  BY <1>6 DEF RestoreSnapshot, HadPanicEvent
<1>7. CASE ReportCrash \/ DetectErrors \/ DoObjective
  BY <1>7 DEF ReportCrash, DetectErrors, DoObjective, Executed
<1>8. CASE CommandRefused \/ CommandFails \/ CommandHangs
  BY <1>8 DEF CommandRefused, CommandFails, CommandHangs
<1>9. CASE Qemu
  <2>1. UNCHANGED <<phase, verdict>> /\ (emitted' \/ UNCHANGED emitted)
    BY <1>9
    DEF Qemu, QemuSaves, QemuLoads, QemuRefuses, GuestDies, GuestReboots, UnsolicitedEvent,
        EventArrives, MayReport, Reports
  <2>2. wire' \/ events' => wire \/ events \/ emitted'
    BY <1>9, <1>0
    DEF Qemu, QemuSaves, QemuLoads, QemuRefuses, GuestDies, GuestReboots, UnsolicitedEvent,
        EventArrives, MayReport, Reports
  <2> QED
    BY <1>0, <2>1, <2>2
<1>10. CASE HungTestEnds \/ UNCHANGED vars
  <2>1. UNCHANGED <<phase, verdict, wire, events, emitted>>
    BY <1>10 DEF HungTestEnds, vars
  <2> QED
    BY <2>1
<1> QED
  BY <1>1, <1>2, <1>3, <1>4, <1>5, <1>6, <1>7, <1>8, <1>9, <1>10
  DEF Next, Proceed, Prepare, Judge, Stop

(* A test is called panicked only on an event read after that run of the     *)
(* harness had reset the events: reported since, or still unread then.       *)
THEOREM PanicsAreOfThisRun == Spec => []PanicIsThisRuns
<1>1. Init => EventInv
  BY DEF Init, EventInv, PanicIsThisRuns
<1>2. TypeOK /\ EventInv /\ [Next]_vars => EventInv'
  BY EventStep
<1>3. EventInv => PanicIsThisRuns
  BY DEF EventInv
<1> QED
  BY <1>1, <1>2, <1>3, TypeCorrect, PTL DEF Spec

(***************************************************************************)
(* What a test leaves, and what becomes of it.                              *)
(***************************************************************************)
(* The first side is known as long as it is not tested again.               *)
LEMMA FirstStaysKnown ==
  ASSUME TypeOK, side = "snd" => Known("fst"), UNCHANGED <<side, outcome, executions>>,
         side = "snd" => dash'["fst"] = dash["fst"] /\ happened'["fst"] = happened["fst"]
  PROVE  side' = "snd" => Known("fst")'
  BY DEF Known, Test

(* The fuzzer's steps.                                                      *)
LEMMA TestStep ==
  ASSUME TypeOK, MonitorInv, MachineInv, TestInv, [Next]_vars
  PROVE  TestInv'
<1> USE DEF TestInv, files, qemu, reports, observer
<1>0. /\ guest \in Machine /\ disk \in Disks /\ side \in Sides /\ Test \in Nat
      /\ dash \in [Sides -> Seen] /\ outcome \in [Sides -> Files]
      /\ happened \in [Sides -> Happenings] /\ phase \in Phases
  BY DEF TypeOK, Test
<1>1. CASE Create
  <2>1. phase' \in Creating \cup {"write"}
    BY <1>1
    DEF Create, SetupRemoteDir, CopyTools, MakeTools, CopyDash, SaveSnapshot, Call, Creating
  <2> QED
    BY <2>1 DEF Creating, InHarness
<1>2. CASE WriteTest
  BY <1>0, <1>2 DEF WriteTest, Call, Disks, InHarness
<1>3. CASE MakeTest
  <2>1. disk'.binary = input /\ side = "fst"
    BY <1>0, <1>3 DEF MakeTest, Call, CanDo, HasFiles, Disks
  <2> QED
    BY <1>3, <2>1 DEF MakeTest, Call
<1>4. CASE \/ RemoveExecDir \/ RemoveExecDirFails \/ MakeExecDir \/ ResetEvents \/ SetupFs
           \/ PreExec
  <2>1. /\ phase \in {"remove_exec_dir", "exec_dir", "reset", "setup", "pre_exec"}
        /\ phase' \in {"exec_dir", "reset", "setup", "pre_exec", "exec"}
        /\ UNCHANGED <<side, input, outcome, dash, happened, executions>>
    BY <1>4
    DEF RemoveExecDir, RemoveExecDirFails, MakeExecDir, ResetEvents, SetupFs, PreExec, Call
  <2>2. disk'.binary = disk.binary
    BY <1>0, <1>4
    DEF RemoveExecDir, RemoveExecDirFails, MakeExecDir, ResetEvents, SetupFs, PreExec, Disks
  <2> QED
    BY <2>1, <2>2, FirstStaysKnown DEF InHarness
<1>5. CASE TestCompletes
  <2>1. PICK t \in Traces, d \in States :
          /\ guest' = Touch(guest, d, Test)
          /\ disk' = [disk EXCEPT !.exec_dir.test = Test, !.exec_dir.trace = t]
          /\ happened' = [happened EXCEPT ![side] = Left(t, d)]
    BY <1>5 DEF TestCompletes
  <2>2. /\ phase = "exec" /\ phase' = "post_exec" /\ UNCHANGED <<side, input, outcome, dash>>
        /\ Test' = Test /\ UNCHANGED executions
    BY <1>5, AfterTheTest DEF TestCompletes, Call, Test
  <2>3. guest'.data = d /\ guest'.counters = Test
    BY <1>0, <2>1, TouchParts
  <2>4. disk.exec_dir \in Files
    BY <1>0, <1>5 DEF TestCompletes, Call, CanDo, HasFiles, Disks
  <2>5. /\ disk'.exec_dir.test = Test /\ disk'.exec_dir.trace = t
        /\ disk'.binary = disk.binary
    BY <1>0, <2>1, <2>4 DEF Disks, Files
  <2>6. happened'[side] = Left(t, d) /\ (side = "snd" => happened'["fst"] = happened["fst"])
    BY <1>0, <2>1 DEF Sides
  <2>7. side' = "snd" => Known("fst")'
    BY <2>2, <2>6, FirstStaysKnown DEF InHarness
  <2> QED
    BY <2>2, <2>3, <2>5, <2>6, <2>7 DEF InHarness
<1>6. CASE \/ TestHangs \/ TestFails \/ TestDiesWithGuest
           \/ CommandRefused \/ CommandFails \/ CommandHangs
  <2>1. phase' \in {"timed_out", "failed", "stuck"}
    <3>1. CASE TestHangs \/ TestFails \/ TestDiesWithGuest
      BY <3>1, AfterTheTest DEF TestHangs, TestFails, TestDiesWithGuest, Call
    <3>2. CASE CommandRefused \/ CommandFails \/ CommandHangs
      BY <3>2 DEF CommandRefused, CommandFails, CommandHangs
    <3> QED
      BY <1>6, <3>1, <3>2
  <2> QED
    BY <2>1 DEF InHarness
<1>7. CASE HungTestEnds
  <2>1. \/ phase \in {"timed_out", "write", "done", "failed", "stuck"}
        \/ phase = "report" /\ verdict # Completed
    BY <1>7, HungTestTimedOut DEF MonitorInv, Panicked, Completed
  <2> QED
    BY <1>7, <2>1 DEF HungTestEnds, InHarness
<1>8. CASE PostExec
  <2>1. /\ dash'[side] = [test |-> Test, state |-> guest.data]
        /\ side = "snd" => dash'["fst"] = dash["fst"]
    BY <1>0, <1>8 DEF PostExec, Sides
  <2>2. side' = "snd" => Known("fst")'
    BY <1>8, <2>1, FirstStaysKnown DEF PostExec, Call, InHarness
  <2> QED
    BY <1>8, <2>1, <2>2 DEF PostExec, Call, Test, InHarness
<1>9. CASE TeardownFs
  <2>1. guest'.counters = guest.counters /\ side \in guest.mounted
    <3>1. guest' = Teardown(guest, side) /\ side \in guest.mounted
      BY <1>9 DEF TeardownFs, Call, CanDo, CanTeardown, IsMounted
    <3>2. Teardown(guest, side).counters = guest.counters
      BY <1>0, MachineParts
    <3> QED
      BY <3>1, <3>2
  <2>2. side' = "snd" => Known("fst")'
    BY <1>9, FirstStaysKnown DEF TeardownFs, Call, InHarness
  <2>3. /\ phase = "teardown" /\ phase' = "post_teardown" /\ Test' = Test
        /\ UNCHANGED <<side, input, disk, dash, happened>>
    BY <1>9 DEF TeardownFs, Call, Test
  <2> QED
    BY <2>1, <2>2, <2>3 DEF Test, InHarness
<1>10. CASE PostTeardown
  <2>1. disk.exec_dir \in Files
    BY <1>0, <1>10 DEF PostTeardown, Call, CanDo, HasFiles, Disks
  <2>2. /\ disk'.exec_dir.lcov = guest.counters /\ disk'.binary = disk.binary
        /\ disk'.exec_dir.test = disk.exec_dir.test /\ disk'.exec_dir.trace = disk.exec_dir.trace
    BY <1>0, <1>10, <2>1 DEF PostTeardown, Disks, Files
  <2>3. side' = "snd" => Known("fst")'
    BY <1>10, FirstStaysKnown DEF PostTeardown, Call, InHarness
  <2>4. disk.exec_dir # Nothing
    BY <1>10 DEF PostTeardown, Call, CanDo, HasFiles
  <2> QED
    BY <1>10, <2>2, <2>3, <2>4 DEF PostTeardown, Call, Test, InHarness
<1>11. CASE CopyOutcome
  <2>1. /\ phase = "copy" /\ UNCHANGED <<input, disk, dash, happened, executions>>
        /\ outcome' = [outcome EXCEPT ![side] = disk.exec_dir] /\ side' = "snd"
        /\ phase' = IF side = "fst" THEN "remove_exec_dir" ELSE "report"
    BY <1>11 DEF CopyOutcome, Call
  <2>2. disk.exec_dir # Nothing
    BY <1>11 DEF CopyOutcome, Call, CanDo, HasFiles
  <2>3. \A s \in Sides : s = side \/ (Known(s) /\ outcome'[s] = outcome[s])
                         => outcome'[s].test = Test /\ outcome'[s].lcov = Test /\ dash[s].test = Test
                            /\ happened[s] = Left(outcome'[s].trace, dash[s].state)
    BY <1>0, <2>1, <2>2 DEF Known
  <2>4. \A s \in Sides : s # side => outcome'[s] = outcome[s]
    BY <1>0, <2>1
  <2>5. \A s \in Sides : s = side \/ Known(s) => Known(s)'
    BY <2>1, <2>3, <2>4 DEF Known, Test
  <2> QED
    BY <1>0, <2>1, <2>5 DEF Sides, InHarness
<1>12. CASE RestoreSnapshot \/ TimedOutTeardown
  <2>1. phase' = "report" /\ verdict' # Completed
    BY <1>12 DEF RestoreSnapshot, TimedOutTeardown, Completed, TimedOut, Panicked
  <2> QED
    BY <2>1 DEF InHarness
<1>13. CASE ReportCrash \/ DetectErrors \/ DoObjective
  <2>1. phase' \in {"write", "done"}
    BY <1>13 DEF ReportCrash, DetectErrors, DoObjective, Executed
  <2> QED
    BY <2>1 DEF InHarness
<1>14. CASE QemuLoads \/ QemuRefuses
  <2>1. /\ \/ phase \in {"write", "done", "failed", "stuck"}
           \/ phase = "report" /\ verdict # Completed
        /\ UNCHANGED <<phase, verdict>>
    BY <1>14 DEF QemuLoads, QemuRefuses, MonitorInv, Panicked, Completed, TypeOK
  <2> QED
    BY <2>1 DEF InHarness
<1>15. CASE GuestDies \/ GuestReboots
  <2>1. /\ guest'.counters = guest.counters
        /\ guest'.mounted \subseteq guest.mounted
        /\ side \in guest'.mounted => guest'.data = guest.data
    <3>1. CASE GuestDies
      BY <1>0, <3>1, MachineParts DEF GuestDies
    <3>2. CASE GuestReboots
      BY <1>0, <3>2, RebootParts DEF GuestReboots
    <3> QED
      BY <1>15, <3>1, <3>2
  <2>2. UNCHANGED <<phase, side, input, outcome, dash, verdict, executions>>
    BY <1>15 DEF GuestDies, GuestReboots
  <2>3. disk' = disk \/ disk' = NoDisk
    BY <1>15 DEF GuestDies, GuestReboots
  <2>4. NoDisk.exec_dir = Nothing /\ NoDisk.binary = Nothing /\ NoDisk.tools = {}
    BY DEF NoDisk
  <2>5. phase \notin {"exec", "timed_out"} => UNCHANGED happened
    BY <1>15 DEF GuestDies, GuestReboots
  <2>6. side = "snd" => happened'["fst"] = happened["fst"]
    BY <1>0, <1>15 DEF GuestDies, GuestReboots, Sides
  <2>7. phase \in InHarness => (side' = "snd" => Known("fst")')
    BY <2>2, <2>6, FirstStaysKnown
  <2>8. phase \notin {"exec", "timed_out"} => \A s \in Sides : Known(s)' <=> Known(s)
    BY <2>2, <2>5 DEF Known, Test
  <2>9. Test' = Test
    BY <2>2 DEF Test
  <2> QED
    BY <2>1, <2>2, <2>3, <2>4, <2>5, <2>7, <2>8, <2>9 DEF InHarness
<1>16. CASE QemuSaves \/ UnsolicitedEvent \/ EventArrives \/ UNCHANGED vars
  <2>1. UNCHANGED <<phase, side, input, guest, disk, outcome, dash, verdict, executions, happened>>
    BY <1>16 DEF QemuSaves, UnsolicitedEvent, EventArrives, vars
  <2> QED
    BY <2>1 DEF Known, Test
<1> QED
  BY <1>1, <1>2, <1>3, <1>4, <1>5, <1>6, <1>7, <1>8, <1>9, <1>10, <1>11, <1>12, <1>13, <1>14, <1>15,
     <1>16
  DEF Next, Proceed, Prepare, Judge, Qemu, Stop

LEMMA TimeoutStep ==
  ASSUME TypeOK, TimeoutInv, [Next]_vars
  PROVE  TimeoutInv'
<1> USE DEF TimeoutInv, files, qemu, observer
<1>0. /\ side \in Sides /\ happened \in [Sides -> Happenings] /\ phase \in Phases
      /\ verdict \in Verdicts \cup {Nothing}
  BY DEF TypeOK
<1>1. CASE Create \/ TestFails \/ CommandRefused \/ CommandFails \/ CommandHangs
  <2>1. phase' \in Creating \cup {"write", "failed", "stuck"}
    <3>1. CASE Create
      BY <3>1
      DEF Create, SetupRemoteDir, CopyTools, MakeTools, CopyDash, SaveSnapshot, Call, Creating
    <3>2. CASE TestFails
      BY <3>2, AfterTheTest DEF TestFails
    <3>3. CASE CommandRefused \/ CommandFails \/ CommandHangs
      BY <3>3 DEF CommandRefused, CommandFails, CommandHangs
    <3> QED
      BY <1>1, <3>1, <3>2, <3>3
  <2> QED
    BY <2>1 DEF Creating, InTest, InHarness
<1>2. CASE WriteTest
  BY <1>2 DEF WriteTest, Call
<1>3. CASE MakeTest \/ RemoveExecDir \/ RemoveExecDirFails \/ MakeExecDir \/ ResetEvents
  BY <1>3
  DEF MakeTest, RemoveExecDir, RemoveExecDirFails, MakeExecDir, ResetEvents, Call, InTest, InHarness
<1>4. CASE SetupFs \/ PreExec \/ PostExec \/ TeardownFs \/ PostTeardown
  BY <1>4 DEF SetupFs, PreExec, PostExec, TeardownFs, PostTeardown, Call, InTest, InHarness
<1>5. CASE TestCompletes
  BY <1>5, AfterTheTest DEF TestCompletes, Call, InTest, InHarness
<1>6. CASE TestHangs
  BY <1>0, <1>6, AfterTheTest DEF TestHangs, Call, InTest, InHarness
<1>7. CASE TestDiesWithGuest
  BY <1>7, AfterTheTest DEF TestDiesWithGuest, InTest, InHarness
<1>8. CASE CopyOutcome
  BY <1>8 DEF CopyOutcome, Call
<1>9. CASE RestoreSnapshot \/ TimedOutTeardown
  BY <1>0, <1>9 DEF RestoreSnapshot, TimedOutTeardown, HadPanicEvent, NoPanicEvent
<1>10. CASE ReportCrash \/ DetectErrors \/ DoObjective
  <2>1. phase' \in {"write", "done"}
    BY <1>10 DEF ReportCrash, DetectErrors, DoObjective, Executed
  <2> QED
    BY <2>1 DEF InTest, InHarness
<1>11. CASE GuestDies
  <2>1. UNCHANGED <<phase, side, verdict>>
    BY <1>11 DEF GuestDies
  <2>2. phase = "timed_out" => happened'[side] = Killed
    BY <1>0, <1>11 DEF GuestDies
  <2>3. phase = "report" => UNCHANGED happened
    BY <1>11 DEF GuestDies
  <2> QED
    BY <2>1, <2>2, <2>3
<1>12. CASE HungTestEnds \/ QemuSaves \/ QemuLoads \/ QemuRefuses \/ GuestReboots
  BY <1>12 DEF HungTestEnds, QemuSaves, QemuLoads, QemuRefuses, GuestReboots
<1>13. CASE UnsolicitedEvent \/ EventArrives \/ UNCHANGED vars
  BY <1>13 DEF UnsolicitedEvent, EventArrives, vars
<1> QED
  BY <1>1, <1>2, <1>3, <1>4, <1>5, <1>6, <1>7, <1>8, <1>9, <1>10, <1>11, <1>12, <1>13
  DEF Next, Proceed, Prepare, Judge, Qemu, Stop

LEMMA TestsAndTimeouts == Spec => [](TestInv /\ TimeoutInv)
<1>1. Init => TestInv /\ TimeoutInv
  BY DEF Init, TestInv, TimeoutInv, InTest, InHarness
<1>2. /\ TypeOK /\ MonitorInv /\ MachineInv /\ TestInv /\ TimeoutInv /\ [Next]_vars
      => TestInv' /\ TimeoutInv'
  BY TestStep, TimeoutStep
<1> QED
  BY <1>1, <1>2, Machines, PTL DEF Spec

(* What is compared, and saved with its binary, is of one test, whatever    *)
(* the tests before it left.                                                *)
THEOREM OneTestIsCompared == Spec => []ComparesOneTest
<1>1. TestInv => ComparesOneTest
  BY DEF TestInv, Known, ComparesOneTest
<1> QED
  BY <1>1, TestsAndTimeouts, PTL

(***************************************************************************)
(* Recovery.                                                                *)
(***************************************************************************)
(* A machine that is ready does what it is asked.                           *)
LEMMA ReadyCanDo ==
  ASSUME MachineInv, Ready, monitor = "idle", phase # "timed_out",
         phase \in {"exec", "report"} => phase = "report" /\ verdict = Completed
  PROVE  CanDo
<1>1. HasFiles
  BY DEF Ready, HasFiles, InHarness
<1>2. CanTeardown
  BY DEF Ready, CanTeardown, IsMounted, DiskIsFree, MachineInv
<1> QED
  BY <1>1, <1>2 DEF CanDo, Ready

(* Unless something but a test failed, only the cleaning up after a timeout *)
(* is refused.                                                              *)
LEMMA OnlyTimeoutsAreRefused ==
  ASSUME MonitorInv, MachineInv, RecoveryInv, ~fault, CommandRefused
  PROVE  phase = "timed_out"
<1> SUFFICES ASSUME phase # "timed_out" PROVE FALSE
  OBVIOUS
<1>1. /\ AsksMachine /\ monitor = "idle" /\ ~CanDo
  BY DEF CommandRefused
<1>2. /\ phase \notin {"timed_out", "done", "failed", "stuck", "exec"}
      /\ phase = "report" => verdict = Completed
  BY <1>1 DEF AsksMachine, NoPanicEvent
<1>3. Ready
  BY <1>1, <1>2 DEF RecoveryInv
<1> QED
  BY <1>1, <1>2, <1>3, ReadyCanDo

(* What is done between two tests and before one.                           *)
LEMMA PreparationRecovers ==
  ASSUME TypeOK, MonitorInv, MachineInv, TestInv, RecoveryInv, ~fault, ~fault',
         Create \/ Prepare
  PROVE  RecoveryInv'
<1> USE DEF RecoveryInv, RecoversFromPanics, Ready, InHarness, files, qemu, observer
<1>0. guest \in Machine /\ disk \in Disks /\ side \in Sides
  BY DEF TypeOK
<1>1. CASE SetupRemoteDir
  BY <1>1, <1>0 DEF SetupRemoteDir, Call, CanDo
<1>2. CASE CopyTools
  <2>1. disk'.tools = disk.tools \cup {"executor"}
    BY <1>2, <1>0 DEF CopyTools, Disks
  <2> QED
    BY <1>2, <2>1 DEF CopyTools, Call, CanDo
<1>3. CASE MakeTools
  <2>1. disk'.tools = disk.tools
    BY <1>3, <1>0 DEF MakeTools, Disks
  <2> QED
    BY <1>3, <2>1 DEF MakeTools, Call, CanDo
<1>4. CASE CopyDash
  <2>1. disk'.tools = disk.tools \cup {"dash"}
    BY <1>4, <1>0 DEF CopyDash, Disks
  <2> QED
    BY <1>4, <2>1 DEF CopyDash, Call, CanDo
<1>5. CASE SaveSnapshot
  BY <1>5 DEF SaveSnapshot, MonitorInv, TypeOK
<1>6. CASE WriteTest
  <2>1. disk'.tools = disk.tools
    BY <1>6, <1>0 DEF WriteTest, Disks
  <2>2. /\ phase = "write" /\ phase' = "make" /\ monitor = "idle"
        /\ UNCHANGED <<guest, monitor, snapshot>>
    BY <1>6 DEF WriteTest, Call, CanDo
  <2> QED
    BY <2>1, <2>2
<1>7. CASE MakeTest
  <2>1. disk'.tools = disk.tools /\ disk'.binary = disk.source
    BY <1>7, <1>0 DEF MakeTest, Disks
  <2>2. /\ phase = "make" /\ phase' = "remove_exec_dir" /\ monitor = "idle" /\ CanDo
        /\ UNCHANGED <<guest, monitor, snapshot>>
    BY <1>7 DEF MakeTest, Call, CanDo
  <2>3. disk.source # Nothing
    BY <2>2, CampaignAssumption DEF CanDo, HasFiles, TestInv, TypeOK, InTest
  <2> QED
    BY <2>1, <2>2, <2>3
<1>8. CASE RemoveExecDir \/ RemoveExecDirFails
  <2>1. disk'.tools = disk.tools /\ disk'.binary = disk.binary
    BY <1>8, <1>0 DEF RemoveExecDir, RemoveExecDirFails, Disks
  <2>2. /\ phase = "remove_exec_dir" /\ phase' = "exec_dir"
        /\ UNCHANGED <<guest, monitor, snapshot, side>>
    BY <1>8 DEF RemoveExecDir, RemoveExecDirFails, Call
  <2> QED
    BY <2>1, <2>2 DEF MonitorInv
<1>9. CASE MakeExecDir
  <2>1. disk'.tools = disk.tools /\ disk'.binary = disk.binary /\ disk'.exec_dir # Nothing
    <3>1. NoFiles \in Files
      BY DEF NoFiles, Files
    <3> QED
      BY <1>9, <1>0, <3>1, FilesAssumption DEF MakeExecDir, Disks
  <2>2. /\ phase = "exec_dir" /\ phase' = "reset"
        /\ UNCHANGED <<guest, monitor, snapshot, side>>
    BY <1>9 DEF MakeExecDir, Call
  <2> QED
    BY <2>1, <2>2 DEF MonitorInv
<1>10. CASE ResetEvents
  BY <1>10 DEF ResetEvents, MonitorInv
<1>11. CASE SetupFs
  <2>1. guest'.alive = guest.alive /\ guest'.mounted = guest.mounted \cup {side}
    BY <1>11, <1>0, SetupParts DEF SetupFs
  <2>2. /\ phase = "setup" /\ phase' = "pre_exec"
        /\ UNCHANGED <<disk, monitor, snapshot, side>>
    BY <1>11 DEF SetupFs, Call
  <2> QED
    BY <2>1, <2>2 DEF MonitorInv
<1>12. CASE PreExec
  <2>1. guest'.alive = guest.alive /\ guest'.mounted = guest.mounted
    <3>1. guest' = ZeroCounters(guest)
      BY <1>12 DEF PreExec
    <3> QED
      BY <3>1, <1>0, MachineParts
  <2>2. /\ phase = "pre_exec" /\ phase' = "exec" /\ CanDo
        /\ UNCHANGED <<monitor, snapshot, side>>
    BY <1>12 DEF PreExec, Call
  <2>3. disk'.tools = disk.tools /\ disk'.binary = disk.binary /\ disk'.exec_dir # Nothing
    <3>1. disk.exec_dir \in Files
      BY <2>2, <1>0 DEF CanDo, HasFiles, Disks
    <3>2. disk'.exec_dir \in Files
      BY <3>1, <1>12, <1>0 DEF PreExec, Disks, Files
    <3> QED
      BY <3>2, <1>12, <1>0, FilesAssumption DEF PreExec, Disks
  <2> QED
    BY <2>1, <2>2, <2>3 DEF MonitorInv
<1> QED
  BY <1>1, <1>2, <1>3, <1>4, <1>5, <1>6, <1>7, <1>8, <1>9, <1>10, <1>11, <1>12 DEF Create, Prepare

(* A test, and what is made of it.                                          *)
LEMMA TestsRecover ==
  ASSUME TypeOK, MonitorInv, MachineInv, TimeoutInv, RecoveryInv, ~fault, ~fault',
         TestCompletes \/ TestHangs \/ HungTestEnds \/ TestDiesWithGuest \/ Judge
  PROVE  RecoveryInv'
<1> USE DEF RecoveryInv, RecoversFromPanics, Ready, InHarness, files, qemu, observer
<1>0. /\ guest \in Machine /\ disk \in Disks /\ side \in Sides
      /\ happened \in [Sides -> Happenings]
  BY DEF TypeOK
<1>1. NotRun # Killed
  BY DEF NotRun, Killed
<1>2. Test \in Nat
  BY DEF TypeOK, Test
<1>3. CASE TestCompletes
  <2>1. PICK t \in Traces, d \in States :
          /\ guest' = Touch(guest, d, Test)
          /\ disk' = [disk EXCEPT !.exec_dir.test = Test, !.exec_dir.trace = t]
    BY <1>3 DEF TestCompletes
  <2>2. /\ Touch(guest, d, Test).alive = guest.alive
        /\ Touch(guest, d, Test).mounted = guest.mounted
    BY <1>0, <1>2, TouchParts
  <2>3. /\ phase = "exec" /\ phase' = "post_exec" /\ CanDo /\ happened[side] = NotRun
        /\ UNCHANGED <<monitor, snapshot, side>>
    BY <1>3, AfterTheTest DEF TestCompletes, Call
  <2>4. disk'.tools = disk.tools /\ disk'.binary = disk.binary /\ disk'.exec_dir # Nothing
    <3>1. disk.exec_dir \in Files
      BY <2>3, <1>0 DEF CanDo, HasFiles, Disks
    <3>2. disk'.exec_dir \in Files
      BY <3>1, <2>1, <1>0, <1>2 DEF Disks, Files
    <3> QED
      BY <3>2, <2>1, <1>0, FilesAssumption DEF Disks
  <2> QED
    BY <1>1, <2>1, <2>2, <2>3, <2>4 DEF MonitorInv
<1>4. CASE TestHangs
  <2>1. guest'.mounted = guest.mounted
    BY <1>4, HangKeepsMounts
  <2>2. phase = "exec" /\ phase' = "timed_out" /\ UNCHANGED <<disk, snapshot, side>>
    BY <1>4, AfterTheTest DEF TestHangs, Call
  <2> QED
    BY <2>1, <2>2
<1>5. CASE HungTestEnds
  <2>1. guest'.mounted = guest.mounted
    BY <1>5, <1>0, HoldParts DEF HungTestEnds
  <2>2. disk'.tools = disk.tools
    BY <1>5, <1>0 DEF HungTestEnds, Disks
  <2>3. phase # "failed" /\ UNCHANGED <<phase, side, snapshot, monitor>>
    BY <1>5 DEF HungTestEnds, Running, Ended
  <2> QED
    BY <1>5, <2>1, <2>2, <2>3, HungTestTimedOut
<1>6. CASE TestDiesWithGuest
  <2>1. /\ phase = "exec" /\ phase' \in {"timed_out", "failed"} /\ happened[side] = Killed
        /\ UNCHANGED <<guest, disk, snapshot, side, verdict, happened>>
    BY <1>6, AfterTheTest DEF TestDiesWithGuest
  <2>2. verdict = Nothing
    BY <2>1 DEF TimeoutInv, InTest
  <2> QED
    BY <2>1, <2>2
<1>7. CASE PostExec
  BY <1>7 DEF PostExec, Call, MonitorInv
<1>8. CASE TeardownFs
  <2>1. guest' = Teardown(guest, side) /\ Teardown(guest, side).alive = guest.alive
    BY <1>8, <1>0, MachineParts DEF TeardownFs
  <2>2. /\ phase = "teardown" /\ phase' = "post_teardown"
        /\ UNCHANGED <<disk, monitor, snapshot, side>>
    BY <1>8 DEF TeardownFs, Call
  <2> QED
    BY <2>1, <2>2 DEF MonitorInv
<1>9. CASE PostTeardown
  <2>1. /\ phase = "post_teardown" /\ phase' = "copy" /\ CanDo
        /\ UNCHANGED <<guest, monitor, snapshot, side>>
    BY <1>9 DEF PostTeardown, Call
  <2>2. disk'.tools = disk.tools /\ disk'.binary = disk.binary /\ disk'.exec_dir # Nothing
    <3>1. disk.exec_dir \in Files
      BY <2>1, <1>0 DEF CanDo, HasFiles, Disks
    <3>2. disk'.exec_dir \in Files
      BY <3>1, <1>9, <1>0 DEF PostTeardown, Disks, Files, Machine
    <3> QED
      BY <3>2, <1>9, <1>0, FilesAssumption DEF PostTeardown, Disks
  <2> QED
    BY <2>1, <2>2 DEF MonitorInv
<1>10. CASE CopyOutcome
  <2>1. /\ phase = "copy" /\ phase' \in {"remove_exec_dir", "report"}
        /\ UNCHANGED <<guest, disk, monitor, snapshot>>
    BY <1>10 DEF CopyOutcome, Call
  <2> QED
    BY <2>1 DEF MonitorInv
<1>11. CASE RestoreSnapshot
  BY <1>11 DEF RestoreSnapshot
<1>12. CASE TimedOutTeardown
  <2>1. /\ phase = "timed_out" /\ phase' = "report" /\ verdict' = TimedOut
        /\ guest.alive /\ side \in guest.mounted
        /\ UNCHANGED <<disk, snapshot>>
    BY <1>12 DEF TimedOutTeardown, NoPanicEvent, CanDo, CanTeardown, IsMounted
  <2>2. guest' = Teardown(guest, side) /\ Teardown(guest, side).alive = guest.alive
    BY <1>12, <1>0, MachineParts DEF TimedOutTeardown
  <2>3. TimedOut # Completed
    BY DEF TimedOut, Completed
  <2> QED
    BY <2>1, <2>2, <2>3
<1>13. CASE ReportCrash \/ DetectErrors \/ DoObjective
  <2>1. /\ phase = "report" /\ phase' \in {"write", "done"}
        /\ UNCHANGED <<guest, disk, monitor, snapshot>>
    BY <1>13 DEF ReportCrash, DetectErrors, DoObjective, Executed
  <2> QED
    BY <2>1
<1> QED
  BY <1>3, <1>4, <1>5, <1>6, <1>7, <1>8, <1>9, <1>10, <1>11, <1>12, <1>13 DEF Judge

(* What becomes of the machine, and of its snapshot.                        *)
LEMMA QemuRecovers ==
  ASSUME TypeOK, MonitorInv, RecoveryInv, ~fault, ~fault', Qemu
  PROVE  RecoveryInv'
<1> USE DEF RecoveryInv, RecoversFromPanics, Ready, files, observer
<1>0. guest \in Machine /\ side \in Sides /\ happened \in [Sides -> Happenings]
  BY DEF TypeOK
<1>1. CASE QemuSaves
  <2>1. phase = "write" /\ monitor = "savevm"
    BY <1>1 DEF QemuSaves, MonitorInv, Running, Ended, Stuck
  <2>2. /\ snapshot'.guest = guest /\ snapshot'.disk = disk
        /\ UNCHANGED <<phase, guest, disk>>
    BY <1>1 DEF QemuSaves
  <2> QED
    BY <2>1, <2>2 DEF InHarness
<1>2. CASE QemuLoads
  <2>1. phase = "write" \/ (phase = "report" /\ verdict # Completed)
    BY <1>2 DEF QemuLoads, MonitorInv, Running, Ended, Stuck, Panicked, Completed
  <2>2. /\ snapshot # Nothing /\ guest' = snapshot.guest /\ disk' = snapshot.disk
        /\ UNCHANGED <<phase, snapshot, verdict>>
    BY <1>2 DEF QemuLoads
  <2> QED
    BY <2>1, <2>2 DEF InHarness
<1>3. CASE QemuRefuses
  BY <1>3 DEF QemuRefuses
<1>4. CASE GuestDies
  <2>1. phase \in {"exec", "timed_out"} /\ happened'[side] = Killed
    BY <1>4, <1>0 DEF GuestDies
  <2>2. guest'.mounted = guest.mounted
    BY <1>4, <1>0, MachineParts DEF GuestDies
  <2>3. UNCHANGED <<phase, side, disk, snapshot>>
    BY <1>4 DEF GuestDies
  <2> QED
    BY <2>1, <2>2, <2>3
<1>5. CASE GuestReboots
  <2>1. phase # "failed" /\ ~guest.alive
        /\ UNCHANGED <<phase, side, monitor, snapshot, happened>>
    BY <1>5 DEF GuestReboots, Running, Ended
  <2>2. guest'.mounted = {}
    BY <1>5, <1>0, RebootParts DEF GuestReboots
  <2> QED
    BY <2>1, <2>2
<1>6. CASE UnsolicitedEvent \/ EventArrives
  <2>1. UNCHANGED <<phase, side, guest, disk, snapshot, monitor, verdict, happened>>
    BY <1>6 DEF UnsolicitedEvent, EventArrives
  <2> QED
    BY <2>1
<1> QED
  BY <1>1, <1>2, <1>3, <1>4, <1>5, <1>6 DEF Qemu

LEMMA RecoveryStep ==
  ASSUME TypeOK, MonitorInv, MachineInv, TestInv, TimeoutInv, RecoveryInv, [Next]_vars
  PROVE  RecoveryInv'
<1>1. CASE fault'
  BY <1>1 DEF RecoveryInv
<1>2. CASE ~fault'
  <2>1. ~fault
    BY <1>2
    DEF Next, Proceed, Create, Prepare, Judge, Qemu, Stop, vars, observer, SetupRemoteDir, CopyTools,
        MakeTools, CopyDash, SaveSnapshot, WriteTest, MakeTest, RemoveExecDir, RemoveExecDirFails,
        MakeExecDir, ResetEvents, SetupFs, PreExec, TestCompletes, TestHangs, HungTestEnds, TestFails,
        TestDiesWithGuest, PostExec, TeardownFs, PostTeardown, CopyOutcome, RestoreSnapshot,
        TimedOutTeardown, ReportCrash, DetectErrors, DoObjective, CommandRefused, CommandFails,
        CommandHangs, QemuSaves, QemuLoads, QemuRefuses, GuestDies, GuestReboots, UnsolicitedEvent,
        EventArrives, TypeOK
  <2>2. CASE Create \/ Prepare
    BY <1>2, <2>1, <2>2, PreparationRecovers
  <2>3. CASE TestCompletes \/ TestHangs \/ HungTestEnds \/ TestDiesWithGuest \/ Judge
    BY <1>2, <2>1, <2>3, TestsRecover
  <2>4. CASE Qemu
    BY <1>2, <2>1, <2>4, QemuRecovers
  <2>5. CASE TestFails \/ CommandFails
    BY <1>2, <2>5 DEF TestFails, CommandFails
  <2>6. CASE CommandRefused
    <3>1. phase = "timed_out"
      BY <2>1, <2>6, OnlyTimeoutsAreRefused
    <3>2. phase' = "failed" /\ UNCHANGED <<side, disk, snapshot, verdict, happened, guest>>
      BY <2>6 DEF CommandRefused, files, observer
    <3> QED
      BY <2>1, <3>1, <3>2 DEF RecoveryInv, RecoversFromPanics, TimeoutInv, InTest
  <2>7. CASE CommandHangs
    <3>1. phase' = "stuck" /\ UNCHANGED snapshot
      BY <2>7 DEF CommandHangs, files
    <3> QED
      BY <2>1, <3>1 DEF RecoveryInv, RecoversFromPanics
  <2>8. CASE UNCHANGED vars
    <3>1. UNCHANGED <<phase, side, guest, disk, snapshot, monitor, verdict, happened, fault>>
      BY <2>8 DEF vars, files, qemu, observer
    <3> QED
      BY <3>1 DEF RecoveryInv, RecoversFromPanics, Ready
  <2> QED
    BY <2>2, <2>3, <2>4, <2>5, <2>6, <2>7, <2>8 DEF Next, Proceed, Stop
<1> QED
  BY <1>1, <1>2

(* A machine that dies while a test runs or when it was given up ends the    *)
(* campaign before the next test or not at all, whatever becomes of the      *)
(* machine then.                                                             *)
THEOREM PanicsAreSurvived == Spec => []RecoversFromPanics
<1>1. Init => RecoveryInv
  BY DEF Init, RecoveryInv, RecoversFromPanics, Ready, Booted, InHarness
<1>2. /\ TypeOK /\ MonitorInv /\ MachineInv /\ TestInv /\ TimeoutInv /\ RecoveryInv /\ [Next]_vars
      => RecoveryInv'
  BY RecoveryStep
<1>3. TypeOK /\ RecoveryInv => RecoversFromPanics
  BY DEF RecoveryInv, RecoversFromPanics
<1> QED
  BY <1>1, <1>2, <1>3, Machines, TestsAndTimeouts, PTL DEF Spec

(***************************************************************************)
(* Verdicts.                                                                *)
(***************************************************************************)
LEMMA CrashIsDeserved ==
  ASSUME TypeOK, TimeoutInv, ReportCrash
  PROVE  Deserves /\ \E s \in Sides : happened[s].kind # "completed"
<1>1. PICK s \in Sides : happened[s] \in {Hung, Killed}
  BY DEF ReportCrash, TimeoutInv, Completed, TimedOut, Panicked
<1>2. happened[s].kind \in {"hung", "killed the machine"}
  <2>1. Hung.kind = "hung" /\ Killed.kind = "killed the machine"
    BY DEF Hung, Killed
  <2> QED
    BY <1>1, <2>1
<1> QED
  BY <1>2 DEF Deserves

LEMMA ComparisonIsOfWhatHappened ==
  ASSUME TestInv, phase = "report", verdict = Completed
  PROVE  /\ Deserves <=> AnyInteresting /\ ~BothErroneous
         /\ \A s \in Sides : happened[s].kind = "completed"
         /\ BothErroneous <=> \A s \in Sides : happened[s].trace \in ErrorTraces
<1>1. \A s \in Sides : happened[s] = Left(outcome[s].trace, dash[s].state)
  BY DEF TestInv, Known
<1>2. \A s \in Sides : /\ happened[s].kind = "completed"
                       /\ happened[s].trace = outcome[s].trace
                       /\ happened[s].state = dash[s].state
  <2>1. ASSUME NEW t, NEW d
        PROVE  /\ Left(t, d).kind = "completed"
               /\ Left(t, d).trace = t /\ Left(t, d).state = d
    BY DEF Left
  <2> QED
    BY <1>1, <2>1
<1>3. Differ(happened.fst, happened.snd) <=> AnyInteresting
  BY <1>2 DEF Differ, AnyInteresting, TraceDiff, DashDiff, HashesDiffer, Sides
<1>4. \A s \in Sides : happened[s].kind \notin {"hung", "killed the machine"}
  BY <1>2
<1> QED
  BY <1>2, <1>3, <1>4 DEF Deserves, BothErroneous

(* Only the end of a test counts it.                                        *)
LEMMA OnlyReportsCount ==
  ASSUME TypeOK, [Next]_vars, executions' = executions + 1
  PROVE  ReportCrash \/ DetectErrors \/ DoObjective
<1>1. ~UNCHANGED executions
  BY DEF TypeOK
<1>2. ~Create
  BY <1>1
  DEF Create, SetupRemoteDir, CopyTools, MakeTools, CopyDash, SaveSnapshot, reports
<1>3. ~Prepare
  BY <1>1
  DEF Prepare, WriteTest, MakeTest, RemoveExecDir, RemoveExecDirFails, MakeExecDir, ResetEvents,
      SetupFs, PreExec, reports
<1>4. ~(TestCompletes \/ TestHangs \/ HungTestEnds \/ TestFails \/ TestDiesWithGuest)
  BY <1>1 DEF TestCompletes, TestHangs, HungTestEnds, TestFails, TestDiesWithGuest, reports
<1>5. ~(\/ PostExec \/ TeardownFs \/ PostTeardown \/ CopyOutcome \/ RestoreSnapshot
        \/ TimedOutTeardown)
  BY <1>1
  DEF PostExec, TeardownFs, PostTeardown, CopyOutcome, RestoreSnapshot, TimedOutTeardown, reports
<1>6. ~(CommandRefused \/ CommandFails \/ CommandHangs)
  BY <1>1 DEF CommandRefused, CommandFails, CommandHangs, reports
<1>7. ~Qemu
  BY <1>1
  DEF Qemu, QemuSaves, QemuLoads, QemuRefuses, GuestDies, GuestReboots, UnsolicitedEvent,
      EventArrives, reports
<1>8. ~UNCHANGED vars
  BY <1>1 DEF vars, reports
<1> QED
  BY <1>2, <1>3, <1>4, <1>5, <1>6, <1>7, <1>8 DEF Next, Proceed, Judge, Stop

LEMMA VerdictStep ==
  ASSUME TypeOK, TestInv, TimeoutInv, [Next]_vars, executions' = executions + 1
  PROVE  /\ crashes' = crashes + (IF Deserves THEN 1 ELSE 0)
         /\ crashes_dir'[input] # Nothing <=> Deserves \/ crashes_dir[input] # Nothing
         /\ \A i \in Inputs \ {input} : crashes_dir'[i] = crashes_dir[i]
         /\ input \in accidents' <=>
              \/ input \in accidents
              \/ \A s \in Sides : /\ happened[s].kind = "completed"
                                 /\ happened[s].trace \in ErrorTraces
<1>0. /\ input \in Inputs /\ crashes \in Nat
      /\ crashes_dir \in [Inputs -> {Nothing, TimedOut, Panicked, Diff}]
  <2>1. phase = "report"
    BY OnlyReportsCount DEF ReportCrash, DetectErrors, DoObjective
  <2> QED
    BY <2>1 DEF TypeOK, InTest
<1>1. CASE ReportCrash
  BY <1>0, <1>1, CrashIsDeserved, ReasonsAssumption DEF ReportCrash, SaveCrash
<1>2. CASE DetectErrors
  BY <1>0, <1>2, ComparisonIsOfWhatHappened DEF DetectErrors
<1>3. CASE DoObjective
  <2>1. /\ Deserves <=> AnyInteresting
        /\ ~ \A s \in Sides : happened[s].trace \in ErrorTraces
    BY <1>3, ComparisonIsOfWhatHappened DEF DoObjective
  <2> QED
    BY <1>0, <1>3, <2>1, ReasonsAssumption DEF DoObjective, SaveCrash
<1> QED
  BY <1>1, <1>2, <1>3, OnlyReportsCount

(* Every executed test ends up where it belongs, and no other is saved.     *)
THEOREM VerdictsAreRight == Spec => VerdictsAreSaved
<1>1. TypeOK /\ TestInv /\ TimeoutInv /\ [Next]_vars =>
        [executions' = executions + 1 =>
           /\ crashes' = crashes + (IF Deserves THEN 1 ELSE 0)
           /\ crashes_dir'[input] # Nothing <=> Deserves \/ crashes_dir[input] # Nothing
           /\ \A i \in Inputs \ {input} : crashes_dir'[i] = crashes_dir[i]
           /\ input \in accidents' <=>
                \/ input \in accidents
                \/ \A s \in Sides : /\ happened[s].kind = "completed"
                                   /\ happened[s].trace \in ErrorTraces]_vars
  BY VerdictStep
<1> QED
  BY <1>1, TypeCorrect, TestsAndTimeouts, PTL DEF Spec, VerdictsAreSaved

=============================================================================
