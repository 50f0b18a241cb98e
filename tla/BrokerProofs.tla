----------------------------- MODULE BrokerProofs -----------------------------
(***************************************************************************)
(* The broker, its instances and their QEMU processes, for any number of    *)
(* instances, tests and ports.                                              *)
(***************************************************************************)
EXTENDS Broker, TLAPS

(***************************************************************************)
(* Types.                                                                   *)
(***************************************************************************)
InstStates ==
  {"launching", "ready", "running", "counting", "closing", "unwinding", "finished", "unwound",
   "failed"}

QemuStates == {"none", "up", "killed", "exited", "kill seen", "exit seen"}

Causes == {"instance", NeverRun, Unexpected}

Messages ==
  [kind : {"stats"}, id : Ids, executions : Nat] \cup [kind : {"error"}, id : Ids, cause : Causes]

TypeOK ==
  /\ inst \in [Ids -> InstStates] /\ qemu \in [Ids -> QemuStates]
  /\ port \in [Ids -> Ports \cup {NoPort}]
  /\ executed \in [Ids -> Nat] /\ stats \in [Ids -> Nat]
  /\ run \in [Ids -> BOOLEAN]
  /\ chan \in Seq(Messages)
  /\ main \in {"starting", "receiving", "returned"}

LEMMA MessageTypes ==
  ASSUME NEW i \in Ids
  PROVE  /\ \A n \in Nat : Stats(i, n) \in Messages
         /\ \A c \in Causes : Error(i, c) \in Messages
  BY DEF Stats, Error, Messages

(* What the channel holds after a message has been sent.                    *)
LEMMA Sent ==
  ASSUME chan \in Seq(Messages), NEW msg \in Messages, Send(msg)
  PROVE  /\ chan' \in Seq(Messages) /\ DOMAIN chan' = 1 .. Len(chan) + 1
         /\ chan'[Len(chan) + 1] = msg
         /\ \A k \in DOMAIN chan : k \in DOMAIN chan' /\ chan'[k] = chan[k]
  BY DEF Send

(* What it holds after one has been received.                               *)
LEMMA Received ==
  ASSUME NEW S, NEW s \in Seq(S), s # <<>>
  PROVE  /\ Len(s) \in Nat \ {0} /\ DOMAIN s = 1 .. Len(s) /\ Head(s) = s[1] /\ s[1] \in S
         /\ Tail(s) \in Seq(S) /\ DOMAIN Tail(s) = 1 .. Len(s) - 1
         /\ \A k \in DOMAIN Tail(s) : k + 1 \in DOMAIN s /\ Tail(s)[k] = s[k + 1]
  OBVIOUS

LEMMA ReceivedTypes ==
  ASSUME NEW msg \in Messages
  PROVE  /\ msg.kind \in {"stats", "error"} /\ msg.id \in Ids
         /\ msg.kind = "stats" => msg.executions \in Nat
         /\ msg.kind = "error" => msg.cause \in Causes
  BY DEF Messages

(* Every state of every thread is one of those named.                       *)
THEOREM TypeCorrect == Spec => []TypeOK
<1>1. Init => TypeOK
  BY BrokerAssumption DEF Init, TypeOK, InstStates, QemuStates
<1>2. ASSUME TypeOK, [Next]_vars PROVE TypeOK'
  <2> USE <1>2 DEF TypeOK
  <2>1. ASSUME NEW i \in Ids, Instance(i) \/ Failure(i) \/ ReapQemu(i) PROVE TypeOK'
    <3>1. CASE FreshTcpPort(i)
      BY <3>1 DEF FreshTcpPort
    <3>2. CASE LaunchQemu(i) \/ QemuExits(i)
      BY <3>2 DEF LaunchQemu, QemuExits, QemuStates
    <3>3. CASE \/ Launched(i) \/ ReceiveRun(i) \/ Finish(i) \/ ExecutionFails(i)
               \/ LaunchFails(i) \/ CreateFails(i)
      BY <3>3 DEF Launched, ReceiveRun, Finish, ExecutionFails, LaunchFails, CreateFails, Thread,
                  InstStates
    <3>4. CASE Execute(i)
      <4>1. executed[i] + 1 \in Nat
        OBVIOUS
      <4>2. chan' \in Seq(Messages)
        BY <3>4, <4>1, MessageTypes, Sent DEF Execute
      <4>3. inst' \in [Ids -> InstStates] /\ executed' \in [Ids -> Nat]
        BY <3>4, <4>1 DEF Execute, Thread, InstStates
      <4> QED
        BY <3>4, <4>2, <4>3 DEF Execute
    <3>5. CASE SendStats(i)
      <4>1. chan' \in Seq(Messages)
        BY <3>5, MessageTypes, Sent DEF SendStats
      <4> QED
        BY <3>5, <4>1 DEF SendStats, Thread, InstStates
    <3>6. CASE DropSupervisor(i)
      BY <3>6 DEF DropSupervisor, Thread, InstStates, QemuStates
    <3>7. CASE SendError(i) \/ SpawnFails(i) \/ ReapQemu(i)
      <4>1. PICK c \in Causes : Send(Error(i, c))
        BY <3>7 DEF SendError, SpawnFails, ReapQemu, Causes
      <4>2. chan' \in Seq(Messages)
        BY <4>1, MessageTypes, Sent
      <4> QED
        BY <3>7, <4>2 DEF SendError, SpawnFails, ReapQemu, Seen, Thread, InstStates, QemuStates
    <3> QED
      BY <2>1, <3>1, <3>2, <3>3, <3>4, <3>5, <3>6, <3>7 DEF Instance, Failure
  <2>2. ASSUME NEW i \in Ids, StartInstances(i) \/ StartFails(i) PROVE TypeOK'
    BY <2>2 DEF StartInstances, StartFails, Starting, Return
  <2>3. CASE Receive
    <3>1. CASE NoSenders
      BY <2>3, <3>1 DEF Receive, Return
    <3>2. CASE ~NoSenders
      <4>1. Head(chan) \in Messages /\ chan' \in Seq(Messages)
        <5>1. chan # <<>> /\ chan' = Tail(chan) /\ chan \in Seq(Messages)
          BY <2>3, <3>2 DEF Receive
        <5> QED
          BY <5>1, Received
      <4>2. stats' \in [Ids -> Nat]
        BY <2>3, <3>2, <4>1, ReceivedTypes DEF Receive, Handle, Heard
      <4> QED
        BY <2>3, <3>2, <4>1, <4>2 DEF Receive, Handle, Return
    <3> QED
      BY <3>1, <3>2
  <2>4. CASE Returned \/ UNCHANGED vars
    BY <2>4 DEF Returned, vars
  <2> QED
    BY <2>1, <2>2, <2>3, <2>4 DEF Next, Main
<1> QED
  BY <1>1, <1>2, PTL DEF Spec

(***************************************************************************)
(* The statistics.                                                          *)
(***************************************************************************)
IsStats(k, i) == chan[k].kind = "stats" /\ chan[k].id = i

(* What is known of an instance, what is on its way about it, in the order  *)
(* it was sent, and what it has really executed.                            *)
StatsInv ==
  \A i \in Ids :
    /\ stats[i] <= executed[i]
    /\ \A k \in DOMAIN chan : IsStats(k, i) =>
         /\ stats[i] <= chan[k].executions /\ chan[k].executions <= executed[i]
         /\ \A l \in DOMAIN chan : k <= l /\ IsStats(l, i) =>
              chan[k].executions <= chan[l].executions

(* Statistics that are sent claim what has been executed, not less than any *)
(* before them.                                                             *)
LEMMA SendKeepsStats ==
  ASSUME TypeOK, StatsInv, NEW j \in Ids, NEW n \in Nat, executed[j] <= n, Send(Stats(j, n)),
         executed' = [executed EXCEPT ![j] = n], UNCHANGED stats
  PROVE  StatsInv'
<1>1. Stats(j, n) \in Messages /\ executed[j] \in Nat
  BY MessageTypes DEF TypeOK
<1>2. /\ DOMAIN chan = 1 .. Len(chan) /\ Len(chan) \in Nat
      /\ DOMAIN chan' = 1 .. Len(chan) + 1 /\ chan'[Len(chan) + 1] = Stats(j, n)
      /\ \A k \in DOMAIN chan : k \in DOMAIN chan' /\ chan'[k] = chan[k] /\ chan[k] \in Messages
  BY <1>1, Sent DEF TypeOK
<1>3. stats' = stats /\ executed' = [executed EXCEPT ![j] = n]
  OBVIOUS
<1> SUFFICES ASSUME NEW i \in Ids
             PROVE  /\ stats'[i] <= executed'[i]
                    /\ \A k \in DOMAIN chan' : IsStats(k, i)' =>
                         /\ stats'[i] <= chan'[k].executions
                         /\ chan'[k].executions <= executed'[i]
                         /\ \A l \in DOMAIN chan' : k <= l /\ IsStats(l, i)' =>
                              chan'[k].executions <= chan'[l].executions
  BY DEF StatsInv
<1>4. /\ stats[i] \in Nat /\ executed[i] \in Nat /\ executed'[i] \in Nat
      /\ stats'[i] = stats[i] /\ executed[i] <= executed'[i]
      /\ i = j => executed'[i] = n
  BY <1>1, <1>3 DEF TypeOK
<1>5. stats[i] <= executed[i]
  BY DEF StatsInv
<1>6. ASSUME NEW k \in DOMAIN chan, IsStats(k, i)'
      PROVE  /\ IsStats(k, i) /\ chan[k].executions \in Nat /\ chan'[k] = chan[k]
             /\ stats[i] <= chan[k].executions /\ chan[k].executions <= executed[i]
  BY <1>6, <1>2, ReceivedTypes DEF IsStats, StatsInv
<1>7. ASSUME NEW k \in DOMAIN chan', k = Len(chan) + 1, IsStats(k, i)'
      PROVE  i = j /\ chan'[k].executions = n
  BY <1>7, <1>2 DEF IsStats, Stats
<1>8. ASSUME NEW k \in DOMAIN chan', IsStats(k, i)'
      PROVE  stats'[i] <= chan'[k].executions /\ chan'[k].executions <= executed'[i]
  <2>1. CASE k \in DOMAIN chan
    BY <1>8, <2>1, <1>6, <1>4
  <2>2. CASE k = Len(chan) + 1
    BY <1>8, <2>2, <1>7, <1>4, <1>5, <1>1
  <2> QED
    BY <1>2, <2>1, <2>2
<1>9. ASSUME NEW k \in DOMAIN chan', IsStats(k, i)', NEW l \in DOMAIN chan', k <= l, IsStats(l, i)'
      PROVE  chan'[k].executions <= chan'[l].executions
  <2>1. CASE l \in DOMAIN chan
    <3>1. k \in DOMAIN chan
      BY <2>1, <1>9, <1>2
    <3> QED
      BY <3>1, <2>1, <1>9, <1>6 DEF StatsInv
  <2>2. CASE k \in DOMAIN chan /\ l = Len(chan) + 1
    BY <1>9, <2>2, <1>6, <1>7, <1>4, <1>1
  <2>3. CASE k = Len(chan) + 1 /\ l = Len(chan) + 1
    BY <1>9, <2>3, <1>7, <1>1
  <2> QED
    BY <1>2, <1>9, <2>1, <2>2, <2>3
<1> QED
  BY <1>4, <1>5, <1>8, <1>9

(* An error that is sent changes no statistics.                             *)
LEMMA ErrorKeepsStats ==
  ASSUME TypeOK, StatsInv, NEW j \in Ids, NEW c \in Causes, Send(Error(j, c)),
         UNCHANGED <<executed, stats>>
  PROVE  StatsInv'
<1>1. /\ DOMAIN chan = 1 .. Len(chan) /\ Len(chan) \in Nat
      /\ DOMAIN chan' = 1 .. Len(chan) + 1 /\ chan'[Len(chan) + 1] = Error(j, c)
      /\ \A k \in DOMAIN chan : k \in DOMAIN chan' /\ chan'[k] = chan[k]
  BY MessageTypes, Sent DEF TypeOK
<1>2. \A i \in Ids, k \in DOMAIN chan' :
        IsStats(k, i)' => k \in DOMAIN chan /\ chan'[k] = chan[k] /\ IsStats(k, i)
  BY <1>1 DEF IsStats, Error
<1> QED
  BY <1>1, <1>2 DEF StatsInv

(* Receiving a message takes the first one, which the others do not precede. *)
LEMMA ReceiveKeepsStats ==
  ASSUME TypeOK, StatsInv, Receive
  PROVE  StatsInv' /\ \A i \in Ids : stats[i] <= stats'[i]
<1>1. CASE UNCHANGED <<chan, stats>>
  BY <1>1 DEF Receive, StatsInv, IsStats, TypeOK
<1>2. CASE /\ chan # <<>> /\ chan' = Tail(chan) /\ Handle(Head(chan))
  <2> DEFINE msg == chan[1]
  <2>1. /\ Len(chan) \in Nat \ {0} /\ DOMAIN chan = 1 .. Len(chan) /\ msg \in Messages
        /\ DOMAIN chan' = 1 .. Len(chan) - 1 /\ Handle(msg)
        /\ \A k \in DOMAIN chan' : k + 1 \in DOMAIN chan /\ chan'[k] = chan[k + 1]
    BY <1>2, Received DEF TypeOK
  <2>2. /\ executed' = executed
        /\ \A i \in Ids : stats'[i] = IF IsStats(1, i) THEN msg.executions ELSE stats[i]
    BY <2>1, ReceivedTypes DEF Receive, Handle, Heard, IsStats, TypeOK
  <2>3. \A i \in Ids, k \in DOMAIN chan' : IsStats(k, i)' <=> IsStats(k + 1, i)
    BY <2>1 DEF IsStats
  <2>4. \A i \in Ids : stats[i] \in Nat /\ executed[i] \in Nat
    BY DEF TypeOK
  <2>5. ASSUME NEW i \in Ids
        PROVE  /\ stats[i] <= stats'[i] /\ stats'[i] <= executed'[i]
               /\ \A k \in DOMAIN chan' : IsStats(k, i)' =>
                    /\ stats'[i] <= chan'[k].executions
                    /\ chan'[k].executions <= executed'[i]
    <3>1. CASE IsStats(1, i)
      BY <3>1, <2>1, <2>2, <2>3, <2>4 DEF StatsInv
    <3>2. CASE ~IsStats(1, i)
      BY <3>2, <2>1, <2>2, <2>3, <2>4 DEF StatsInv
    <3> QED
      BY <3>1, <3>2
  <2>6. \A i \in Ids : \A k, l \in DOMAIN chan' :
          IsStats(k, i)' /\ IsStats(l, i)' /\ k <= l =>
            chan'[k].executions <= chan'[l].executions
    BY <2>1, <2>3 DEF StatsInv
  <2> QED
    BY <2>5, <2>6 DEF StatsInv
<1> QED
  BY <1>1, <1>2 DEF Receive

LEMMA StatsStep ==
  ASSUME TypeOK, StatsInv, [Next]_vars
  PROVE  /\ StatsInv' /\ \A i \in Ids : stats[i] <= stats'[i]
         /\ UNCHANGED stats \/ UNCHANGED executed
<1>1. ASSUME NEW i \in Ids, Instance(i) \/ Failure(i) \/ ReapQemu(i)
      PROVE  StatsInv' /\ stats' = stats
  <2>1. CASE Execute(i)
    <3>1. executed[i] \in Nat /\ executed' = [executed EXCEPT ![i] = executed[i] + 1] /\ stats' = stats
      BY <2>1 DEF Execute, TypeOK
    <3>2. CASE Send(Stats(i, executed[i] + 1))
      <4>1. PICK n \in Nat : n = executed[i] + 1
        BY <3>1
      <4>2. /\ executed[i] <= n /\ executed' = [executed EXCEPT ![i] = n]
            /\ Send(Stats(i, n)) /\ UNCHANGED stats
        BY <3>1, <3>2, <4>1
      <4> QED
        BY <3>1, <4>2, SendKeepsStats
    <3>3. CASE UNCHANGED chan
      BY <3>1, <3>3, ReceivedTypes DEF StatsInv, IsStats, TypeOK
    <3> QED
      BY <2>1, <3>1, <3>2, <3>3 DEF Execute
  <2>2. CASE SendStats(i)
    <3>1. /\ executed[i] \in Nat /\ executed' = [executed EXCEPT ![i] = executed[i]]
          /\ stats' = stats /\ Send(Stats(i, executed[i]))
      BY <2>2 DEF SendStats, TypeOK
    <3>2. PICK n \in Nat : n = executed[i]
      BY <3>1
    <3>3. /\ executed[i] <= n /\ executed' = [executed EXCEPT ![i] = n]
          /\ Send(Stats(i, n)) /\ UNCHANGED stats
      BY <3>1, <3>2
    <3> QED
      BY <3>1, <3>3, SendKeepsStats
  <2>3. CASE SendError(i) \/ SpawnFails(i) \/ ReapQemu(i)
    <3>1. PICK c \in Causes : Send(Error(i, c))
      BY <2>3 DEF SendError, SpawnFails, ReapQemu, Causes
    <3>2. UNCHANGED <<executed, stats>>
      BY <2>3 DEF SendError, SpawnFails, ReapQemu
    <3> QED
      BY <3>1, <3>2, ErrorKeepsStats
  <2>4. CASE UNCHANGED <<executed, stats, chan>>
    BY <2>4 DEF StatsInv, IsStats
  <2> QED
    BY <1>1, <2>1, <2>2, <2>3, <2>4
    DEF Instance, Failure, FreshTcpPort, LaunchQemu, Launched, ReceiveRun, Finish,
        LaunchFails, CreateFails, ExecutionFails, DropSupervisor, QemuExits
<1>2. CASE UNCHANGED <<executed, stats, chan>>
  BY <1>2 DEF StatsInv, IsStats, TypeOK
<1>3. \A i \in Ids : stats[i] <= stats[i]
  BY DEF TypeOK
<1> QED
  <2>1. CASE Receive
    BY <2>1, ReceiveKeepsStats DEF Receive
  <2>2. CASE \E i \in Ids : Instance(i) \/ Failure(i) \/ ReapQemu(i)
    BY <2>2, <1>1, <1>3
  <2>3. CASE Returned \/ UNCHANGED vars \/ \E i \in Ids : StartInstances(i) \/ StartFails(i)
    BY <2>3, <1>2, <1>3 DEF StartInstances, StartFails, Returned, vars
  <2> QED
    BY <2>1, <2>2, <2>3 DEF Next, Main

(* The statistics the broker shows of an instance never go back, and never  *)
(* claim a test it has not run, for any number of instances.                *)
THEOREM StatisticsAreHonest == Spec => StatsAreHonest
<1>1. Init => StatsInv
  BY DEF Init, StatsInv
<1>2. TypeOK /\ StatsInv /\ [Next]_vars => StatsInv'
  BY StatsStep
<1>3. TypeOK /\ StatsInv /\ [Next]_vars =>
        [\A i \in Ids : stats[i] <= stats'[i] /\ stats'[i] <= executed[i]]_vars
  BY StatsStep DEF StatsInv
<1> QED
  BY <1>1, <1>2, <1>3, TypeCorrect, PTL DEF Spec, StatsAreHonest

(***************************************************************************)
(* QEMU processes and ports.                                                *)
(***************************************************************************)
Over == {"finished", "unwound", "failed"}

SeenStates == {"exit seen", "kill seen"}

(* A QEMU has a port, which it shares with no other that is up.  The thread *)
(* of an instance gets past its launch only with a QEMU and runs only when  *)
(* told to, and only the end of that thread kills its QEMU.                 *)
Owned(i) ==
  /\ qemu[i] # "none" => port[i] # NoPort
  /\ inst[i] \notin {"launching", "unwound", "failed"} => qemu[i] # "none"
  /\ qemu[i] \in {"killed", "kill seen"} => inst[i] \in Over
  /\ inst[i] \in {"running", "counting", "closing", "finished"} => run[i]

QemuInv ==
  /\ \A i \in Ids : Owned(i)
  /\ \A i, j \in Ids : i # j /\ qemu[i] = "up" /\ qemu[j] = "up" => port[i] # port[j]

LEMMA QemuStep ==
  ASSUME TypeOK, QemuInv, [Next]_vars
  PROVE  QemuInv'
<1>1. ASSUME NEW i \in Ids, Instance(i) \/ Failure(i) \/ ReapQemu(i)
      PROVE  QemuInv'
  <2> USE <1>1 DEF TypeOK, InstStates, QemuStates, Over
  <2>1. CASE FreshTcpPort(i)
    <3>1. qemu[i] = "none"
      BY <2>1 DEF QemuInv, Owned, FreshTcpPort
    <3>2. UNCHANGED <<inst, qemu, run>> /\ inst[i] = "launching"
          /\ \A j \in Ids : j # i => port'[j] = port[j]
      BY <2>1 DEF FreshTcpPort
    <3> QED
      BY <3>1, <3>2 DEF QemuInv, Owned
  <2>2. CASE LaunchQemu(i) \/ SpawnFails(i)
    <3>1. /\ \A j \in Ids : j # i => qemu'[j] = qemu[j]
          /\ qemu'[i] \in {"up", "exited", "exit seen"} /\ port[i] # NoPort /\ inst[i] = "launching"
          /\ qemu'[i] = "up" => \A j \in Ids : qemu[j] = "up" => port[j] # port[i]
          /\ UNCHANGED <<inst, port, run>>
      BY <2>2 DEF LaunchQemu, SpawnFails, Serves
    <3> QED
      BY <3>1 DEF QemuInv, Owned
  <2>3. CASE \/ Launched(i) \/ ReceiveRun(i) \/ Finish(i) \/ ExecutionFails(i) \/ SendStats(i)
             \/ Execute(i) \/ SendError(i) \/ LaunchFails(i) \/ CreateFails(i)
    <3>1. /\ \A j \in Ids : j # i => inst'[j] = inst[j]
          /\ UNCHANGED <<qemu, port, run>>
          /\ inst'[i] = "running" => run[i]
          /\ inst'[i] \in {"counting", "closing"} => inst[i] = "running"
          /\ inst[i] \notin {"finished", "failed"}
          /\ inst'[i] \in InstStates
          /\ inst'[i] \in {"ready", "unwinding"} /\ inst[i] = "launching" => qemu[i] # "none"
          /\ inst[i] = "launching" => inst'[i] \in {"ready", "unwinding", "unwound"}
          /\ inst[i] = "unwound" => inst'[i] = "failed"
          /\ inst'[i] # "finished"
      BY <2>3 DEF QemuInv, Owned, Launched, ReceiveRun, Finish, ExecutionFails, SendStats, Execute, SendError,
                  LaunchFails, CreateFails, Thread
    <3> QED
      BY <3>1 DEF QemuInv, Owned
  <2>4. CASE DropSupervisor(i) \/ QemuExits(i) \/ ReapQemu(i)
    <3>1. /\ \A j \in Ids : j # i => inst'[j] = inst[j] /\ qemu'[j] = qemu[j]
          /\ UNCHANGED <<port, run>>
          /\ inst'[i] = "finished" => inst[i] \in {"closing", "finished"}
          /\ qemu'[i] # "up" \/ qemu'[i] = qemu[i]
          /\ qemu[i] # "none" <=> qemu'[i] # "none"
          /\ \/ inst'[i] \in {"finished", "unwound"} /\ inst[i] \in {"closing", "unwinding"}
             \/ /\ inst'[i] = inst[i] /\ qemu'[i] # "killed"
                /\ qemu'[i] = "kill seen" => qemu[i] = "killed"
      <4>1. CASE DropSupervisor(i)
        BY <4>1 DEF DropSupervisor, Thread
      <4>2. CASE QemuExits(i) \/ ReapQemu(i)
        BY <4>2 DEF QemuExits, ReapQemu, Seen
      <4> QED
        BY <2>4, <4>1, <4>2
    <3>2. ASSUME NEW j \in Ids PROVE Owned(j)'
      <4>1. Owned(j)
        BY DEF QemuInv
      <4>2. CASE j # i
        BY <3>1, <4>1, <4>2 DEF Owned
      <4>3. CASE j = i
        BY <3>1, <4>1, <4>3 DEF Owned
      <4> QED
        BY <4>2, <4>3
    <3>3. \A j \in Ids : qemu'[j] = "up" => qemu[j] = "up"
      BY <3>1
    <3> QED
      BY <3>1, <3>2, <3>3 DEF QemuInv
  <2> QED
    BY <2>1, <2>2, <2>3, <2>4 DEF Instance, Failure
<1>2. CASE /\ UNCHANGED <<inst, qemu, port>> /\ \A i \in Ids : run[i] => run'[i]
  BY <1>2 DEF QemuInv, Owned
<1> QED
  BY <1>1, <1>2 DEF Next, Main, TypeOK, Receive, StartInstances, StartFails, Returned, vars

(***************************************************************************)
(* Errors.                                                                  *)
(***************************************************************************)
ErrorSent == \E k \in DOMAIN chan : chan[k].kind = "error"

(* The instance or its QEMU is in a state the cause speaks of.              *)
Justified(cause, i) ==
  \/ cause = "instance" /\ inst[i] = "failed"
  \/ cause = "failed to run instance" /\ inst[i] \in {"unwound", "failed"}
  \/ cause = NeverRun /\ qemu[i] = "exit seen"
  \/ cause = Unexpected /\ (qemu[i] = "exit seen" \/ (qemu[i] = "kill seen" /\ inst[i] \in Over))

(* Until the broker returns, an instance that failed and a QEMU whose end   *)
(* was seen have left an error in the channel; every error there has a      *)
(* reason, and so has the one the broker returns with.                      *)
ErrorInv ==
  /\ \A i \in Ids :
       main # "returned" /\ (inst[i] = "failed" \/ qemu[i] \in SeenStates) => ErrorSent
  /\ \A k \in DOMAIN chan : chan[k].kind = "error" => Justified(chan[k].cause, chan[k].id)
  /\ main = "returned" => Justified(reported.cause, reported.id)

(* What a reason was stays so.                                              *)
LEMMA ReasonsStay ==
  ASSUME TypeOK, [Next]_vars, NEW j \in Ids
  PROVE  /\ inst[j] = "failed" => inst'[j] = "failed"
         /\ inst[j] = "unwound" => inst'[j] \in {"unwound", "failed"}
         /\ inst[j] = "finished" => inst'[j] = "finished"
         /\ qemu[j] \in SeenStates => qemu'[j] = qemu[j]
<1> USE DEF TypeOK, SeenStates
<1>1. ASSUME NEW i \in Ids, Instance(i) \/ Failure(i) \/ ReapQemu(i)
      PROVE  /\ j # i => inst'[j] = inst[j] /\ qemu'[j] = qemu[j]
             /\ inst[i] \in {"finished", "failed"} => inst'[i] = inst[i]
             /\ inst[i] = "unwound" => inst'[i] \in {"unwound", "failed"}
             /\ qemu[i] \in SeenStates => qemu'[i] = qemu[i]
  <2>1. CASE \/ Launched(i) \/ ReceiveRun(i) \/ Finish(i) \/ ExecutionFails(i) \/ SendStats(i)
             \/ Execute(i) \/ SendError(i) \/ LaunchFails(i) \/ CreateFails(i)
    BY <2>1 DEF Launched, ReceiveRun, Finish, ExecutionFails, SendStats, Execute, SendError,
                LaunchFails, CreateFails, Thread
  <2>2. CASE FreshTcpPort(i) \/ LaunchQemu(i) \/ SpawnFails(i) \/ QemuExits(i) \/ ReapQemu(i)
    BY <2>2 DEF FreshTcpPort, LaunchQemu, SpawnFails, QemuExits, ReapQemu
  <2>3. CASE DropSupervisor(i)
    BY <2>3 DEF DropSupervisor, Thread
  <2> QED
    BY <1>1, <2>1, <2>2, <2>3 DEF Instance, Failure
<1>2. CASE UNCHANGED <<inst, qemu>>
  BY <1>2
<1> QED
  BY <1>1, <1>2 DEF Next, Main, Receive, StartInstances, StartFails, Returned, vars

LEMMA JustifiedStays ==
  ASSUME TypeOK, [Next]_vars, NEW j \in Ids, NEW c, Justified(c, j)
  PROVE  Justified(c, j)'
  BY ReasonsStay DEF Justified, Over, SeenStates

(* A message that is sent leaves those before it in place.                  *)
LEMMA SendKeepsErrors ==
  ASSUME TypeOK, ErrorInv, [Next]_vars, NEW msg \in Messages, Send(msg),
         UNCHANGED <<main, reported>>, main # "returned",
         msg.kind = "error" => Justified(msg.cause, msg.id)',
         msg.kind # "error" =>
           \A i \in Ids : qemu'[i] = qemu[i] /\ (inst'[i] # "failed" \/ inst'[i] = inst[i])
  PROVE  ErrorInv'
<1>1. /\ DOMAIN chan = 1 .. Len(chan) /\ Len(chan) \in Nat
      /\ DOMAIN chan' = 1 .. Len(chan) + 1 /\ chan'[Len(chan) + 1] = msg
      /\ \A k \in DOMAIN chan : k \in DOMAIN chan' /\ chan'[k] = chan[k] /\ chan[k] \in Messages
  BY Sent DEF TypeOK
<1>2. ErrorSent \/ msg.kind = "error" => ErrorSent'
  BY <1>1 DEF ErrorSent
<1>3. ASSUME NEW k \in DOMAIN chan', chan'[k].kind = "error"
      PROVE  Justified(chan[k].cause, chan[k].id)'
  <2>1. CASE k \in DOMAIN chan
    <3>1. Justified(chan[k].cause, chan[k].id) /\ chan[k].id \in Ids /\ chan[k].cause \in Causes
      BY <1>1, <1>3, <2>1, ReceivedTypes DEF ErrorInv
    <3>2. PICK i \in Ids, c \in Causes : i = chan[k].id /\ c = chan[k].cause
      BY <3>1
    <3>3. Justified(c, i)'
      BY <3>1, <3>2, JustifiedStays
    <3> QED
      BY <1>1, <2>1, <3>2, <3>3 DEF Justified
  <2>2. CASE k = Len(chan) + 1
    BY <1>1, <1>3, <2>2 DEF Justified
  <2> QED
    BY <1>1, <2>1, <2>2
<1>4. ASSUME NEW i \in Ids, inst'[i] = "failed" \/ qemu'[i] \in SeenStates
      PROVE  ErrorSent'
  <2>1. CASE msg.kind = "error"
    BY <1>2, <2>1
  <2>2. CASE msg.kind # "error"
    BY <1>2, <1>4, <2>2 DEF ErrorInv
  <2> QED
    BY <2>1, <2>2
<1> QED
  BY <1>3, <1>4 DEF ErrorInv

LEMMA ReceiveKeepsErrors ==
  ASSUME TypeOK, QemuInv, ErrorInv, Receive
  PROVE  ErrorInv'
<1>1. ~NoSenders
  <2> SUFFICES ASSUME NoSenders PROVE FALSE
    OBVIOUS
  <2>1. 0 \in Ids
    BY BrokerAssumption DEF Ids
  <2>2. inst[0] = "failed" \/ qemu[0] \in SeenStates
    BY <2>1 DEF NoSenders, Gone, QemuInv, Owned, SeenStates
  <2>3. DOMAIN chan = {}
    <3>1. chan = <<>>
      BY DEF NoSenders
    <3> QED
      BY <3>1
  <2> QED
    BY <2>1, <2>2, <2>3 DEF ErrorInv, ErrorSent, Receive
<1> DEFINE msg == chan[1]
<1>2. chan # <<>> /\ chan' = Tail(chan) /\ Handle(Head(chan)) /\ chan \in Seq(Messages)
  BY <1>1 DEF Receive, TypeOK
<1>3. /\ Len(chan) \in Nat \ {0} /\ DOMAIN chan = 1 .. Len(chan) /\ msg \in Messages
      /\ DOMAIN chan' = 1 .. Len(chan) - 1 /\ Handle(msg)
      /\ \A k \in DOMAIN chan' : k + 1 \in DOMAIN chan /\ chan'[k] = chan[k + 1]
  BY <1>2, Received
<1>4. UNCHANGED <<inst, qemu>>
  BY DEF Receive
<1>5. ASSUME NEW k \in DOMAIN chan', chan'[k].kind = "error"
      PROVE  Justified(chan[k].cause, chan[k].id)'
  BY <1>3, <1>4, <1>5 DEF ErrorInv, Justified
<1>6. CASE msg.kind = "error"
  <2>1. main' = "returned" /\ reported' = msg
    BY <1>3, <1>6 DEF Handle, Return
  <2>2. Justified(msg.cause, msg.id)
    BY <1>3, <1>6 DEF ErrorInv
  <2>3. Justified(reported.cause, reported.id)'
    BY <1>4, <2>1, <2>2 DEF Justified
  <2> QED
    BY <2>1, <2>3, <1>5 DEF ErrorInv
<1>7. CASE msg.kind # "error"
  <2>1. UNCHANGED <<main, inst, qemu>>
    BY <1>3, <1>7 DEF Receive, Handle
  <2>2. ErrorSent => ErrorSent'
    <3> SUFFICES ASSUME NEW k \in DOMAIN chan, chan[k].kind = "error" PROVE ErrorSent'
      BY DEF ErrorSent
    <3>1. k - 1 \in DOMAIN chan' /\ chan'[k - 1] = chan[k]
      BY <1>3, <1>7
    <3> QED
      BY <3>1 DEF ErrorSent
  <2> QED
    BY <2>1, <2>2, <1>5 DEF ErrorInv, Receive
<1> QED
  BY <1>6, <1>7

LEMMA ErrorStep ==
  ASSUME TypeOK, QemuInv, ErrorInv, [Next]_vars
  PROVE  ErrorInv'
<1>1. ASSUME NEW i \in Ids, Instance(i) \/ Failure(i) \/ ReapQemu(i)
      PROVE  ErrorInv'
  <2> USE <1>1
  <2>1. CASE /\ UNCHANGED <<chan, main, reported>> /\ main # "returned"
             /\ \A j \in Ids : inst'[j] = "failed" => inst[j] = "failed"
             /\ \A j \in Ids : qemu'[j] \in SeenStates => qemu[j] \in SeenStates
    <3>1. ASSUME NEW k \in DOMAIN chan, chan[k].kind = "error"
          PROVE  Justified(chan[k].cause, chan[k].id)'
      <4>1. PICK j \in Ids, c \in Causes : j = chan[k].id /\ c = chan[k].cause
        BY <3>1, ReceivedTypes DEF TypeOK
      <4>2. Justified(c, j)'
        BY <3>1, <4>1, JustifiedStays DEF ErrorInv
      <4> QED
        BY <2>1, <4>1, <4>2 DEF Justified
    <3>2. ErrorSent <=> ErrorSent'
      BY <2>1 DEF ErrorSent
    <3> QED
      BY <2>1, <3>1, <3>2 DEF ErrorInv, Justified
  <2>2. CASE \/ FreshTcpPort(i) \/ LaunchQemu(i) \/ Launched(i) \/ ReceiveRun(i) \/ Finish(i)
             \/ LaunchFails(i) \/ CreateFails(i) \/ ExecutionFails(i) \/ DropSupervisor(i)
             \/ QemuExits(i)
    BY <2>2, <2>1
    DEF FreshTcpPort, LaunchQemu, Launched, ReceiveRun, Finish, LaunchFails, CreateFails,
        ExecutionFails, DropSupervisor, QemuExits, Thread, TypeOK, InstStates, QemuStates,
        SeenStates
  <2>3. CASE Execute(i) \/ SendStats(i)
    <3>1. /\ \A j \in Ids : inst'[j] # "failed" \/ inst'[j] = inst[j]
          /\ UNCHANGED <<qemu, main, reported>> /\ main # "returned"
      BY <2>3 DEF Execute, SendStats, Thread, TypeOK
    <3>2. CASE UNCHANGED chan
      BY <2>1, <3>1, <3>2
    <3>3. CASE \E n \in Nat : Send(Stats(i, n))
      <4>1. PICK n \in Nat : Send(Stats(i, n))
        BY <3>3
      <4>2. Stats(i, n) \in Messages /\ Stats(i, n).kind = "stats"
        BY MessageTypes DEF Stats
      <4> QED
        BY <3>1, <4>1, <4>2, SendKeepsErrors
    <3>4. executed[i] \in Nat /\ executed[i] + 1 \in Nat
      BY DEF TypeOK
    <3> QED
      BY <2>3, <3>2, <3>3, <3>4 DEF Execute, SendStats
  <2>4. CASE SendError(i) \/ SpawnFails(i) \/ ReapQemu(i)
    <3>1. PICK c \in Causes :
            /\ Send(Error(i, c))
            /\ \/ SendError(i) /\ c = "instance"
               \/ SpawnFails(i) /\ c = NeverRun
               \/ ReapQemu(i) /\ c = Unexpected
      BY <2>4 DEF SendError, SpawnFails, ReapQemu, Causes
    <3>2. /\ Error(i, c) \in Messages /\ Error(i, c).kind = "error"
          /\ Error(i, c).cause = c /\ Error(i, c).id = i
      BY MessageTypes DEF Error
    <3>3. main # "returned" /\ UNCHANGED <<main, reported>>
      BY <2>4 DEF SendError, SpawnFails, ReapQemu, Thread
    <3>4. Justified(c, i)'
      <4>1. CASE SendError(i) /\ c = "instance"
        BY <4>1 DEF SendError, Thread, TypeOK, Justified
      <4>2. CASE SpawnFails(i) /\ c = NeverRun
        BY <4>2 DEF SpawnFails, TypeOK, Justified
      <4>3. CASE ReapQemu(i) /\ c = Unexpected
        <5>1. /\ qemu'[i] = Seen(qemu[i]) /\ inst'[i] = inst[i]
              /\ qemu[i] = "killed" => inst[i] \in Over
          BY <4>3 DEF ReapQemu, TypeOK, QemuInv, Owned
        <5> QED
          BY <4>3, <5>1 DEF Justified, Seen
      <4> QED
        BY <3>1, <4>1, <4>2, <4>3
    <3> QED
      BY <3>1, <3>2, <3>3, <3>4, SendKeepsErrors
  <2> QED
    BY <2>2, <2>3, <2>4 DEF Instance, Failure
<1>2. ASSUME NEW i \in Ids, StartInstances(i) \/ StartFails(i)
      PROVE  ErrorInv'
  <2>1. UNCHANGED <<inst, qemu, chan>> /\ main # "returned"
    BY <1>2 DEF StartInstances, StartFails, Starting
  <2>2. CASE StartInstances(i)
    BY <2>1, <2>2, BrokerAssumption DEF StartInstances, ErrorInv, ErrorSent, Justified
  <2>3. CASE StartFails(i)
    <3>1. reported' = Error(i, "failed to run instance") /\ main' = "returned"
      BY <2>3 DEF StartFails, Return
    <3>2. inst[i] \in {"unwound", "failed"}
      <4>1. inst[i] # "finished"
        BY <2>3 DEF StartFails, Starting, QemuInv, Owned
      <4> QED
        BY <2>3, <4>1 DEF StartFails, Gone
    <3>3. Justified("failed to run instance", i)'
      BY <2>1, <3>2 DEF Justified
    <3>4. Justified(reported.cause, reported.id)'
      BY <2>1, <3>1, <3>3 DEF Error, Justified
    <3> QED
      BY <2>1, <3>1, <3>4 DEF ErrorInv, Justified
  <2> QED
    BY <1>2, <2>2, <2>3
<1>3. CASE Returned \/ UNCHANGED vars
  BY <1>3 DEF Returned, vars, ErrorInv, ErrorSent, Justified
<1> QED
  BY <1>1, <1>2, <1>3, ReceiveKeepsErrors DEF Next, Main

LEMMA ErrorsAndQemus == Spec => [](QemuInv /\ ErrorInv)
<1>1. Init => QemuInv /\ ErrorInv
  BY DEF Init, QemuInv, Owned, ErrorInv, ErrorSent, SeenStates
<1>2. TypeOK /\ QemuInv /\ ErrorInv /\ [Next]_vars => (QemuInv /\ ErrorInv)'
  BY QemuStep, ErrorStep
<1> QED
  BY <1>1, <1>2, TypeCorrect, PTL DEF Spec

(* The reason the broker ends the campaign for is true of the instance it   *)
(* names, and there always is one, however many instances there are.        *)
THEOREM EndHasAReason == Spec => []EndsForAReason
<1>1. ErrorInv => EndsForAReason
  BY DEF ErrorInv, EndsForAReason, Justified, Over, NeverRun, Unexpected
<1> QED
  BY <1>1, ErrorsAndQemus, PTL

(* Two instances never work on one machine unnoticed, whatever ports the    *)
(* kernel gives out: the error that ends the campaign is about to be sent   *)
(* or is on its way.                                                        *)
THEOREM SharedMachineIsNoticed == Spec => []SharedMachineIsDoomed
<1>1. TypeOK /\ QemuInv /\ ErrorInv => SharedMachineIsDoomed
  <2> SUFFICES ASSUME TypeOK, QemuInv, ErrorInv, NEW i \in Ids, NEW j \in Ids, i # j,
                      Serves(j, port[i]), inst[i] \in {"ready", "running", "counting"},
                      main # "returned"
               PROVE  qemu[i] = "exited" \/ ErrorSent
    BY DEF SharedMachineIsDoomed, ErrorSent
  <2>1. qemu[i] \notin {"none", "up", "killed"}
    BY DEF QemuInv, Owned, Serves, Over
  <2> QED
    BY <2>1 DEF TypeOK, QemuStates, SeenStates, ErrorInv
<1> QED
  BY <1>1, TypeCorrect, ErrorsAndQemus, PTL

=============================================================================
