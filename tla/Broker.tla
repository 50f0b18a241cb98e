-------------------------------- MODULE Broker --------------------------------
(***************************************************************************)
(* Several instances of a fuzzer under one broker (blackbox/broker.rs and  *)
(* greybox/broker.rs, whose loops are the same): a thread for every        *)
(* instance, which asks for a port and launches a QEMU process that serves *)
(* it (supervisor.rs, command.rs), a thread for every QEMU process that    *)
(* waits for its end, and the main thread, which starts the instances and  *)
(* then reads what all of them send through one channel.  Messages that    *)
(* are only logged are left out.  When the main thread returns, the        *)
(* process ends and with it every other thread.                            *)
(***************************************************************************)
EXTENDS Naturals, Sequences, FiniteSets

CONSTANTS
  Instances,  \* how many instances are started
  TestCount,  \* --test-count
  Ports,      \* the ports the kernel gives out
  NoPort      \* the absence of a port

ASSUME BrokerAssumption ==
  Instances \in Nat \ {0} /\ TestCount \in Nat \ {0} /\ NoPort \notin Ports

VARIABLES
  inst,      \* for each instance, how far its thread is: "launching", "ready",
             \* "running", "counting", "closing", "unwinding", "finished", "unwound"
             \* or "failed"
  qemu,      \* for each instance, its QEMU process: "none", "up", "killed", "exited",
             \* and, when its thread has seen that, "kill seen" or "exit seen"
  port,      \* for each instance, the port it reaches its machine by
  executed,  \* for each instance, the tests it has run
  run,       \* for each instance, whether its Run message has been sent
  chan,      \* the channel to the broker
  stats,     \* for each instance, the executions the broker last heard of
  main,      \* what the main thread does
  reported   \* the error the main thread returned with

vars == <<inst, qemu, port, executed, run, chan, stats, main, reported>>

Ids == 0 .. Instances - 1

Stats(i, n) == [kind |-> "stats", id |-> i, executions |-> n]
Error(i, cause) == [kind |-> "error", id |-> i, cause |-> cause]

NoError == [cause |-> "none"]

NeverRun   == "failed to run qemu"
Unexpected == "qemu finished unexpectedly"

Send(msg) == chan' = Append(chan, msg)

Init ==
  /\ inst = [i \in Ids |-> "launching"] /\ qemu = [i \in Ids |-> "none"]
  /\ port = [i \in Ids |-> NoPort]
  /\ executed = [i \in Ids |-> 0] /\ run = [i \in Ids |-> FALSE]
  /\ chan = <<>> /\ stats = [i \in Ids |-> 0]
  /\ main = "starting" /\ reported = NoError

------------------------------------------------------------------------------
(* The thread of an instance.                                              *)

\* A thread goes on while the process lives.
Thread(i, from, to) ==
  main # "returned" /\ inst[i] = from /\ inst' = [inst EXCEPT ![i] = to]

\* The QEMU process that has bound a port.
Serves(i, p) == qemu[i] = "up" /\ port[i] = p

\* The port the kernel finds free is released before QEMU binds it.
FreshTcpPort(i) ==
  /\ main # "returned" /\ inst[i] = "launching" /\ port[i] = NoPort
  /\ \E p \in Ports : /\ \A j \in Ids : ~Serves(j, p)
                      /\ port' = [port EXCEPT ![i] = p]
  /\ UNCHANGED <<inst, qemu, executed, run, chan, stats, main, reported>>

\* A QEMU whose port was taken meanwhile exits at once.
LaunchQemu(i) ==
  /\ main # "returned" /\ inst[i] = "launching" /\ qemu[i] = "none" /\ port[i] # NoPort
  /\ qemu' = [qemu EXCEPT ![i] =
                IF \E j \in Ids : Serves(j, port[i]) THEN "exited" ELSE "up"]
  /\ UNCHANGED <<inst, port, executed, run, chan, stats, main, reported>>

\* The script that runs QEMU cannot be started: its thread says so.
SpawnFails(i) ==
  /\ main # "returned" /\ inst[i] = "launching" /\ qemu[i] = "none" /\ port[i] # NoPort
  /\ qemu' = [qemu EXCEPT ![i] = "exit seen"]
  /\ Send(Error(i, NeverRun))
  /\ UNCHANGED <<inst, port, executed, run, stats, main, reported>>

\* No supervisor has been made yet, so nothing stops a QEMU that is up.
LaunchFails(i) ==
  /\ Thread(i, "launching", "unwound")
  /\ UNCHANGED <<qemu, port, executed, run, chan, stats, main, reported>>

\* Fuzzer::create fails when the supervisor has been made, which is dropped.
CreateFails(i) ==
  /\ Thread(i, "launching", "unwinding") /\ qemu[i] # "none"
  /\ UNCHANGED <<qemu, port, executed, run, chan, stats, main, reported>>

Launched(i) ==
  /\ Thread(i, "launching", "ready") /\ qemu[i] = "up"
  /\ UNCHANGED <<qemu, port, executed, run, chan, stats, main, reported>>

ReceiveRun(i) ==
  /\ Thread(i, "ready", "running") /\ run[i]
  /\ UNCHANGED <<qemu, port, executed, run, chan, stats, main, reported>>

TestsLeft(i) == executed[i] < TestCount

\* Whatever QEMU serves the port answers, also one of another instance.
Answers(i) == \E j \in Ids : Serves(j, port[i])

\* A crash or a seed was found: the statistics are sent before the test is counted.
SendStats(i) ==
  /\ Thread(i, "running", "counting") /\ Answers(i) /\ TestsLeft(i)
  /\ Send(Stats(i, executed[i]))
  /\ UNCHANGED <<qemu, port, executed, run, stats, main, reported>>

\* Fuzzer::runs: the statistics are sent again when the heartbeat is due.
Execute(i) ==
  /\ \/ Thread(i, "running", "running") /\ Answers(i) /\ TestsLeft(i)
     \/ Thread(i, "counting", "running")
  /\ executed' = [executed EXCEPT ![i] = @ + 1]
  /\ Send(Stats(i, executed[i] + 1)) \/ UNCHANGED chan
  /\ UNCHANGED <<qemu, port, run, stats, main, reported>>

ExecutionFails(i) ==
  /\ \/ Thread(i, "running", "unwinding") /\ TestsLeft(i)
     \/ Thread(i, "counting", "unwinding")
  /\ UNCHANGED <<qemu, port, executed, run, chan, stats, main, reported>>

Finish(i) ==
  /\ Thread(i, "running", "closing") /\ executed[i] = TestCount
  /\ UNCHANGED <<qemu, port, executed, run, chan, stats, main, reported>>

\* Mutant: nothing stops QEMU when its supervisor is dropped.
DropSupervisorLeavesQemu(i) ==
  /\ \/ Thread(i, "closing", "finished")
     \/ Thread(i, "unwinding", "unwound")
  /\ UNCHANGED <<qemu, port, executed, run, chan, stats, main, reported>>

\* run_instance returns: the supervisor is dropped, which kills QEMU.
DropSupervisor(i) ==
  /\ \/ Thread(i, "closing", "finished")
     \/ Thread(i, "unwinding", "unwound")
  /\ qemu' = [qemu EXCEPT ![i] = IF @ = "up" THEN "killed" ELSE @]
  /\ UNCHANGED <<port, executed, run, chan, stats, main, reported>>

\* Only then is the error sent.
SendError(i) ==
  /\ Thread(i, "unwound", "failed") /\ Send(Error(i, "instance"))
  /\ UNCHANGED <<qemu, port, executed, run, stats, main, reported>>

------------------------------------------------------------------------------
(* A QEMU process and the thread that waits for it.                        *)

QemuExits(i) ==
  /\ main # "returned" /\ qemu[i] = "up"
  /\ qemu' = [qemu EXCEPT ![i] = "exited"]
  /\ UNCHANGED <<inst, port, executed, run, chan, stats, main, reported>>

Seen(end) == IF end = "killed" THEN "kill seen" ELSE "exit seen"

\* Mutant: the thread that waits for QEMU only logs its end.
ReapQemuLogs(i) ==
  /\ main # "returned" /\ qemu[i] \in {"exited", "killed"}
  /\ qemu' = [qemu EXCEPT ![i] = Seen(@)]
  /\ UNCHANGED <<inst, port, executed, run, chan, stats, main, reported>>

\* The thread says the same of either end.
ReapQemu(i) ==
  /\ main # "returned" /\ qemu[i] \in {"exited", "killed"}
  /\ qemu' = [qemu EXCEPT ![i] = Seen(@)]
  /\ Send(Error(i, Unexpected))
  /\ UNCHANGED <<inst, port, executed, run, stats, main, reported>>

------------------------------------------------------------------------------
(* The main thread.                                                        *)

Return(reason) == main' = "returned" /\ reported' = reason

\* The thread of an instance has ended, and its receiver is gone.
Gone(i) == inst[i] \in {"failed", "finished"}

Starting(i) == main = "starting" /\ ~run[i] /\ \A j \in Ids : j < i => run[j]

StartInstances(i) ==
  /\ Starting(i) /\ ~Gone(i)
  /\ run' = [run EXCEPT ![i] = TRUE]
  /\ main' = IF i = Instances - 1 THEN "receiving" ELSE "starting"
  /\ UNCHANGED <<inst, qemu, port, executed, chan, stats, reported>>

\* The receiver goes before the error of the instance is sent.
StartFails(i) ==
  /\ Starting(i) /\ (inst[i] = "unwound" \/ Gone(i))
  /\ Return(Error(i, "failed to run instance"))
  /\ UNCHANGED <<inst, qemu, port, executed, run, chan, stats>>

\* Mutant: the statistics of an instance are added up.
HeardAdding(msg) == [stats EXCEPT ![msg.id] = @ + msg.executions]

\* The statistics of an instance replace the last ones.
Heard(msg) == [stats EXCEPT ![msg.id] = msg.executions]

\* Mutant: an empty channel is taken for a closed one.
NoSendersEver == chan = <<>>

\* Every thread that could still send has ended.
NoSenders ==
  chan = <<>> /\ \A i \in Ids : Gone(i) /\ qemu[i] \in {"none", "exit seen", "kill seen"}

Handle(msg) ==
  IF msg.kind = "error"
  THEN Return(msg) /\ UNCHANGED stats
  ELSE stats' = Heard(msg) /\ UNCHANGED <<main, reported>>

\* recv() waits for a message, and gives up when no one is left to send one.
Receive ==
  /\ main = "receiving"
  /\ IF NoSenders
     THEN Return([cause |-> "disconnected"]) /\ UNCHANGED <<chan, stats>>
     ELSE chan # <<>> /\ chan' = Tail(chan) /\ Handle(Head(chan))
  /\ UNCHANGED <<inst, qemu, port, executed, run>>

------------------------------------------------------------------------------
Main == Receive \/ \E i \in Ids : StartInstances(i) \/ StartFails(i)

Instance(i) ==
  \/ FreshTcpPort(i) \/ LaunchQemu(i) \/ Launched(i) \/ ReceiveRun(i) \/ SendStats(i) \/ Execute(i)
  \/ Finish(i) \/ DropSupervisor(i) \/ SendError(i)

Failure(i) ==
  SpawnFails(i) \/ LaunchFails(i) \/ CreateFails(i) \/ ExecutionFails(i) \/ QemuExits(i)

Returned == main = "returned" /\ UNCHANGED vars

Next ==
  Main \/ Returned \/ \E i \in Ids : Instance(i) \/ Failure(i) \/ ReapQemu(i)

\* Threads are scheduled; QEMU dies of being killed; a launch that cannot succeed
\* and a test on a QEMU that is gone fail in the end.
Fairness ==
  /\ WF_vars(Main)
  /\ \A i \in Ids : /\ WF_vars(Instance(i)) /\ WF_vars(ReapQemu(i))
                    /\ WF_vars(qemu[i] # "up" /\ LaunchFails(i))
                    /\ WF_vars(~Answers(i) /\ ExecutionFails(i))

Spec == Init /\ [][Next]_vars /\ Fairness
------------------------------------------------------------------------------
\* The statistics shown for an instance never go back and never claim a test it has
\* not run, however the messages of the threads interleave
\* (greybox/broker.rs:117-128).
StatsAreHonest ==
  [][\A i \in Ids : stats[i] <= stats'[i] /\ stats'[i] <= executed[i]]_vars

\* The campaign ends for the reason the broker gives, of the instance it names: that
\* instance failed, or its thread was over before it could be started, or its QEMU was
\* not run, died, or was killed when the instance was over.  Although an instance that
\* is through sends nothing itself, the broker never finds that no one is left to send
\* before it has read an error (greybox/broker.rs:74-113, supervisor.rs:105-137).
EndsForAReason ==
  main = "returned" =>
    /\ reported.cause # "disconnected"
    /\ reported.cause = "instance" => inst[reported.id] = "failed"
    /\ reported.cause = "failed to run instance" => inst[reported.id] \in {"unwound", "failed"}
    /\ reported.cause = NeverRun => qemu[reported.id] = "exit seen"
    /\ reported.cause = Unexpected =>
         \/ qemu[reported.id] = "exit seen"
         \/ qemu[reported.id] = "kill seen" /\ inst[reported.id] \in {"finished", "unwound", "failed"}

\* Two instances never work on one machine unnoticed: although the port of a QEMU
\* that died may be given to another one, the instance it belonged to then reaches
\* that machine only while the error that ends the campaign is about to be sent or
\* is on its way (command.rs:470-480, supervisor.rs:113-132).
SharedMachineIsDoomed ==
  \A i, j \in Ids :
    /\ i # j /\ Serves(j, port[i]) /\ inst[i] \in {"ready", "running", "counting"}
    /\ main # "returned"
    => qemu[i] = "exited" \/ \E k \in DOMAIN chan : chan[k].kind = "error"

\* When an instance has ended, or its QEMU died, the campaign does end: no thread
\* left behind keeps the broker waiting (greybox/broker.rs:81,
\* 111-113, supervisor.rs:113-132, 199-208).
EndsAfterAnInstance ==
  (\E i \in Ids : Gone(i) \/ qemu[i] = "exited") ~> main = "returned"

=============================================================================
