# A verification of DIFFuzzer

DIFFuzzer tests file systems: it makes up a workload of file operations, compiles
it to a program, runs the program on two file systems and compares what they did.
These TLA+ modules model the parts of it that carry state, TLC checks them on
small instances, and TLAPS proves some of the results for instances of any size.
Paths below are relative to the repository; `PROJECT.json` maps every definition
to the lines it models.

## Inventory

| component | state | operations | what makes it hard | what makes it correct |
|---|---|---|---|---|
| abstract file system, `abstract_fs/fs.rs` | vectors of directories, files, symlinks and descriptors, a recording | `mkdir create remove hardlink symlink rename open close read write fsync replay`, path resolution | indices across five vectors; resolution recurses through symlinks; `rename` works in several steps | every index in range, directories a forest, a failed call changes nothing, the recording replays, nothing panics |
| contents, `abstract_fs/content.rs` | slices of a source | `write`, `read` | boundaries of slices | a sequence of bytes |
| generator, `abstract_fs/generator.rs` | the file system it grows, a name counter | `append_one` | draws from what is alive, unwraps every result | the draw always applies and is recorded, weights are obeyed, links form no loops |
| mutator, `abstract_fs/mutator.rs`, `greybox/mutator.rs` | none | insert, remove, repeat until enough | descriptors are renumbered, a loop that counts successes | the mutated workload replays, the loop ends |
| runner and harness, `fuzzing/runner.rs`, `fuzzing/harness.rs`, `fuzzing/fuzzer.rs` | the machine's directories, outcome directories, counters | one test: set up, run, observe, tear down, copy, twice; compare, save | timeouts, crashes of the machine, leftovers of earlier tests | a test starts clean, what is compared is one test's, crashes are survived, verdicts are saved |
| coverage feedback, `greybox/feedback` | counts per address; a reader's file and lines | opinion on a run, reading of reports | lines left over between records | coverage is what was executed |
| observers and objectives, `fuzzing/observer`, `fuzzing/objective` | the last hash and listing, coverage counters | callbacks before and after the test | they outlive the test they saw | see above; hash and listing agree |
| machine, `mount/mod.rs`, `command.rs` | the RAM disk, mounts, the directory for tests | the commands sent to it | it dies, hangs or boots again between any two commands | a command works on the machine it was meant for; every failure but that of removing the directory of the former test is noticed, unless the command never returns |
| supervisor, `supervisor.rs` | QEMU's process, its port, an event channel | launch, snapshot, events, drop | three threads of its own, a monitor whose answers no one reads, a port that is free only when it is asked for | an old event is not taken for a panic of this test, the snapshot can be relied on, no machine is shared unnoticed |
| brokers, `fuzzing/broker.rs`, `*/broker.rs` | a channel, instances, last statistics | start, receive, aggregate, fail | threads, order of messages, ends of threads | ends when and only when something has, shows true numbers |
| grey-box fuzzer, `fuzzing/greybox` | corpus, coverage maps, queue | choose, mutate, run, judge, keep | maps that are updated before the verdict | what covers something new is kept, every seed has its turn |
| reducer, `fuzzing/reducer.rs` | the workload so far, an index | remove, run, compare | indices while the list shrinks | the result shows the same difference |
| dash, `dash/src/lib.rs` | none | hash, merge of two listings | order of walk and order of paths | reports what differs |
| encoding, executor and traces, `abstract_fs/encode.rs`, `executor/executor.cpp`, `objective/trace.rs` | the variables of the test, the open descriptors, two traces | one function per operation, main, the comparison row by row | numbers are given out again, calls fail, reductions take opens away | a call reaches the file its open opened, traces differ when the file systems did |
| saving, single runs, command line, tools | files and text | | | not modelled, see below |

They interact by calls: a fuzzer asks the generator (or scheduler and mutator) for
a workload, the runner compiles and runs it by the harness, which calls the
observers and sends commands to the machine; the supervisor's threads and the
instances send messages to the broker through one channel, and QEMU sends events
through another.

## Plan

The order is by importance to the program's results.

1. Abstract file system, contents, generator (done, with proofs): every result rests on
   the workloads being valid.
2. Campaign and broker (done, with proofs): what is run, compared, saved and survived,
   from the creation of the runner to the end of the campaign.
3. Mutator and reducer over the edits of workloads; the reducer's tests are
   compiled, executed call by call and compared row by row (done, with proofs).
4. Grey-box fuzzer: corpus, coverage maps, the two schedulers (done, with proofs).
5. Dash: the listing and the merge of two listings (done, with proofs).
6. Left: an abstract fuzzer that `Campaign` and `GreyBox` implement; the text of traces
   and commands.

Parameters are constants with named assumptions, every operation is one action or
one operator that returns an outcome, and recursion is written as functions over
`Nat`, so that each module can be proved about.

## Modules

**`FsModel`** has the data of `fs.rs` and `node.rs` (1-based indices; a directory is
a function from names to nodes with `Absent` for no entry) and path resolution.
The code recurses twice over: over the segments of a path and through symlinks.
`ResolveNodeRec` is one call, given the answers of deeper ones; `Walk[n]` lets it
make `n` nested calls, `StackDepth` is the stack, and using it up is the error
`StackOverflow`.

**`FsOperations`** has one operator per method; its value is the outcome
`[err, fs]`, in which `fs` is what the call leaves behind even when it fails.
`"Panic"` stands for a failed assertion or an index out of range. `Replay` is a recursive
function over the same operators. **`FsInvariants`** has the predicates of a tree that the
properties of several modules are made of.

**`AbstractFS`** is the state machine of a client that calls anything in any order,
and the properties; **`MCAbstractFS`** bounds it.

**`ByteFile`** is what a file promises, a sequence of bytes; **`Content`** is the code's
list of slices, and implements it under the mapping that reads the slices off.
A byte is the position in the source it comes from. Every loop over slices is one
function (`Loop`) of what an iteration makes, so that the proofs say once what holds of
all of them; a loop that is left early goes on without changing a byte.

**`GeneratorChoices`** and **`Generator`** are `append_one`: what is alive (a search that follows symlinks to
directories once, `MAX_SYMLINK_FOLLOW`), which kinds are kept among the weights, and
which calls each kind may make. A weighted draw is a choice among the kinds of
positive weight. Names are numbers, as in the code. The rename loop's last attempt
is the action.

**`Guest`** is the machine: alive or not, the RAM disk both file systems are made on,
what is mounted, coverage counters, and whether a test that hung still holds its file
system (`busy`), in which case `rmmod` fails (`DiskIsFree`), as `umount` does where nothing
is mounted (`IsMounted`). A kernel that panicked may boot again by itself (`Reboot`; the
tools say `panic=1`): the RAM disk is gone, the disk stays.

**`Campaign`** is `Runner::create` and `Fuzzer::run` over `Runner::run_harness` and
`Harness::run`: `phase` names the next call, each a step. `disk` is the directory for tests:
the tools copied there, the source and the binary of the test, and the directory it runs in.
`ExecLocal` reads exit codes as `exec_local` does: 124 is a timeout, 255 an error of ssh.
`files` carry the number of the test that wrote them, so that a mix of tests is visible.
Between any two steps

* the machine may die (`GuestDies`), and boot again with its disk, or with `/tmp` cleared
  (`GuestReboots`); a test that was given up may end after all and write its trace
  (`HungTestEnds`);
* a command may fail on a machine that is fit for it (`CommandFails`), fails or hangs on one
  that is not (`CommandRefused`, `CommandHangs`; `CanDo` says what each phase needs), and only
  the test has a timeout: any other command may never return (`Stuck`). The one failure
  the code drops is that of removing the directory of the former run (`RemoveExecDirFails`),
  after which `mkdir -p` leaves the old directory as it is;
* QEMU may report something (`UnsolicitedEvent`, and most steps of the machine), which is on
  the `wire` until the event thread reads it into the channel (`EventArrives`), and `reset_events`
  empties the channel only;
* `savevm` and `loadvm` are written to the `monitor` and nothing waits for them. QEMU
  carries them out later on the machine there is then (`QemuSaves`, `QemuLoads`), or refuses
  them without the program noticing (`QemuRefuses`). It is assumed that it does so before a
  command that is sent to the machine later is done: the monitor is a local socket and QEMU
  stops the machine for it.

Four variables are the observer's and influence nothing: `happened` (what each test really
did), `emitted` (whether an event was unread at the last reset or came later), `kept`
(whether the old directory could not be removed) and `fault` (whether something failed
that was no test: a command on a machine fit for it, a snapshot that QEMU refused, a death
of the machine while no test ran, nor had just been given up). What a test's own end
brings about, the broken connection, a dead machine that is torn down, an event
that is not read yet, is no `fault`.

**`Broker`** has three kinds of threads: the instance, the one that waits for its
QEMU, and the main one. When the main thread returns every other one stops. An instance
asks the kernel for a free port, which it releases before its QEMU binds it
(`FreshTcpPort`, `LaunchQemu`), so another may get the same: the QEMU that comes second
exits, and the instance's commands are answered by whatever QEMU serves the port
(`Answers`). A launch fails in three ways: the script cannot be run (`SpawnFails`), the
supervisor cannot be made, and then nothing stops the QEMU (`LaunchFails`), or the
fuzzer cannot, and the supervisor is dropped (`CreateFails`). An instance that is over
before it is started ends the campaign in `run` (`StartFails`). What was found is reported
before its test is counted (`SendStats`). An error has the thread that sent it as its cause.

**`WorkloadEdits`** has `insert` and `remove` of `abstract_fs/mutator.rs` as sets of outcomes:
replay what is before the index, draw one operation with `GeneratorChoices`, replay
the rest; the recording is the edited workload. **`Mutator`** is the loop of
`greybox/mutator.rs` over them. One workload goes through one call of `mutate` after
the other, as the seeds of a corpus do. An edit that fails is a stuttering step. The
configuration (weights, lengths, numbers of mutations) is a variable that never changes,
so that one run checks several. The state of `Generator` has names of its own
(`GeneratorInit`, `unwrap_failed`), so that one module can prove about both.

**`Executor`** is one test. `EncodeC` is the program made of a workload, with the
variables it declares; each function of `executor.cpp` is an action that makes its system
call, keeps the variables `fd` and the table `open_fds` of the process, and appends its
row; the process ends with `EndOfTest` and the second file system's begins with its
variables at zero. How system calls end is a constant, `Responses`, except that the
kernel gives out the lowest free number and refuses one that is not open. Two responses
are the same only if what a call lets the program see is the same, so `Ends` says what an
end of each kind has: a byte count only of a read or a write that succeeded, data only of a
read, and which system call has ended it, which only `do_create` and `do_remove` leave
open. `TraceDiff` and `IgnoreIndexEqual` are the two comparisons of rows.

**`Reducer`** is `fuzzing/reducer.rs` over `RemoveAt`, and each of its runs is a test of
`Executor`: it extends both modules, and its next-state relation takes the steps of a
test (`Test`) between its own. Nothing is assumed of the file systems, not even that
they do the same twice, nor of what dash finds; a test may crash, or exit before its
trace is written. `reduced` and `variations` are the directories of reports.

**`Dash`** walks two trees into listings, in the order of the directory walk, and
merges them from their ends by comparing paths as strings. Names are sequences of
character codes, since the two orders agree only because generated names are numbers,
whose digits come after the separator (`DigitsFollowSlash`). Skipped paths are missing
from both listings, so the checks of the patterns in the merge (`lib.rs:145-159`)
skip nothing, and the root is never skipped.

**`GreyBox`** is `fuzz_one` with the corpus: seeds are their coverage and the number
of times they were chosen. `executions` is bounded by `test_count`, as in
`Fuzzer::run`. Powers are exact fractions, where the code has floating point.
`waited` and `executed` are the observer's. The coverage of the first file system is
read from a report of lcov, that of the second, as with kcov, is any set of addresses.
The configured `m_constant` may be zero, which makes every weight infinite and the draw
panic (`ChooseFails`).
**`LCov`** is the reader of reports: `ParseFrom` reads them line by line, and `Reported` says by
definition what a report reports: of several records of one file the last, since the
reader replaces those before it.

The proofs are in **`OperationProofs`** (recursion over the naturals, path resolution, the
operations of the file system and their replay: types, consistency, renames, the
forest, descriptors), **`AbstractFSProofs`** (of the file system and of `Content`),
**`MutatorProofs`** (of the mutator and the generator) and **`ReducerProofs`**, which
rest on it, and **`DashProofs`**, **`GreyBoxProofs`**, **`BrokerProofs`** and
**`CampaignProofs`**.

## Runs

| run | what it shows | bounds |
|---|---|---|
| `fs_tree` | entries, forest, rename | 3 directories, 1 file, 2 symlinks, 5 nodes, 2 names, paths of 2 segments: enough for a directory moved below itself through a symlink and for a replaced directory |
| `fs_descriptors` | descriptors, offsets, no panics, replay | 2 files with hard links, 1 symlink, 3 descriptors, sizes 0 to 2: a file is opened again after closing while another is open, and reads stop at, before and past the end |
| `content` | slices implement bytes | files of 4 bytes: writes that meet, split, cover and pass several slices |
| `generator` | what append_one draws always applies | 4 names, 1 descriptor, one-byte files, uniform weights and weights with nothing to begin with |
| `generator_weights` (violated) | see findings | as above, no weight for WRITE |
| `campaign` | clean start, one test compared, panics, verdicts, the end | 2 tests of 2 workloads, 2 traces (one with errors), states of 2 shapes: the second test meets every leftover of the first, a test still hanging in the machine, a directory that could not be removed and an event still unread among them |
| `campaign_size` (violated) | see findings | 1 test with `dash.size` |
| `broker` | statistics, shared machines, when and for which reason the campaign ends | 2 instances, 2 tests each, 2 ports, at most 3 messages waiting (`MCBroker`): both instances ask for a port before either binds one, or get the port of a QEMU that died, and two errors and an old message are on their way at once |
| `mutator` | edits of workloads: validity, one operation at a time, no loops of links, some edit always left | 3 operations of all kinds: a link left dangling by a removal, and the name it has, come back by insertions; 5 operations on files: an open is removed, or inserted, before another open and its write; 2 operations and 2 mutations a call with no weight for removal |
| `reducer` | what is reduced and reported, which file each call reaches, what a difference of traces means | the empty workload and five of up to 5 operations that depend on each other; buffers of 2 bytes, of which one write is too long; on either file system calls that fail, and different data read; dash finds a difference or none: two opens of which one fails shift the numbers of all later rows, and an open is taken away before another |
| `dash` | the listing agrees with the trees and the hashes | all pairs of trees over `/1 /10 /1/1 /1/10 /10/1`, whose names are prefixes of each other, and all choices of changed entries |
| `grey_box` | counts, reports and corpus agree, the queue is fair | 5 runs, two addresses and one, either scheduler: the queue wraps, and grows while it is in the middle; reports of two files in either order, of one or of none, and of two records of one file, each with a line executed or not and one that never is; `m_constant` 3, or 0 |

The bounds of the file system and of the broker's channel are in the guards of the MC modules
(`WithinBounds`), so that a call that would pass one is not made; a thread of the broker
whose message finds no room sends it when the main thread has read one. `VIEW` leaves out the recording, so each tree
is reached by one history of calls, which is the one `ReplayRebuildsTree` is checked for;
every other property does not read it, and `WorkloadsReplayToThemselves` checks replays
of all short workloads. Names are symmetric except in the generator, which compares
them. The stack of the runs of the generator and the mutator, 100, has the room that the
theorems about them ask for. `CHECK_DEADLOCK FALSE` is said where the system stops: of the generator, when the
names are used up or when it has panicked, and of the mutator, when it has panicked.

### Findings

* `generator_weights`: the arms of the kinds Read and Write are exchanged
  (`generator.rs:161`), so each weight acts on the other kind.
* `campaign_size`: with `dash.size` set, a difference in sizes alone changes the hash
  and is then dropped, because the listing is compared with default options
  (`objective/dash.rs:26`).

Seen while modelling, and represented in the modules as the code has it; no run is kept
for them:

* A link whose target runs through itself recurses until the stack is full
  (`fs.rs:447`, the error `StackOverflow`), instead of the error `LoopExists`. The
  generator and the mutator make no such links: `LinksNeverLoop`.
* A rename onto the same entry removes the node (`fs.rs:226`), where rename(2) does
  nothing. The generator always renames to a new name.
* "qemu finished unexpectedly" (`supervisor.rs:117`) is also said of the QEMU that an
  instance which is through has killed itself, and then ends the campaign of the others.
  `EndsForAReason` has this case as a disjunct of its own.
* `Outcome::Panicked` is documented as "Test execution caused system shutdown / panic"
  (`outcome.rs:34`). Neither direction holds. A test that does so ends the campaign with an
  error instead when the connection breaks before the timeout (`harness.rs:124`), or when
  the event has not been read by then and the dead machine is torn down (`harness.rs:115`),
  and its workload is not saved. And any event counts (`supervisor.rs:239`): one that was
  reported before `reset_events`, such as that of saving the snapshot, may be read after it,
  and a test that merely hangs is then called panicked. `PanicIsThisRuns` and
  `RecoversFromPanics` say what does hold.
* The error of removing the directory of the former run is dropped (`harness.rs:49`), and the
  test then starts among the files of another. What is compared is still of one test
  (`ComparesOneTest`), since a test that completes has written its own.
* Only the test has a timeout, and neither ssh nor scp is given a keep-alive
  (`command.rs:434-459`): on a machine that died a command may wait for ever.
* `savevm` and `loadvm` that QEMU refuses go unnoticed (`supervisor.rs:178-190`).
* When a launch fails after its QEMU is up but before there is a supervisor
  (`supervisor.rs:138-146`), nothing stops that QEMU.
* A second record of a source file in a report of lcov replaces the first
  (`lcov.rs:96-98`): the lines executed in the first are lost.
* With `m_constant` zero the fast scheduler panics at its first draw (`schedule.rs:117`).
* The fast scheduler draws seeds by `1.0 / power` (`schedule.rs:117`) and makes one
  input of each, so a seed of more power is fuzzed less, while the doc comment
  (`schedule.rs:59`) has the power decide how many inputs a seed is fuzzed into.
* A test that hangs and holds its file system makes `rmmod` fail, since only ssh was
  ended; the campaign then ends with an error, and the workload is not saved.
* Descriptor numbers are part of the rows, so an open that leaks shifts the rows after it
  and cannot be dropped by the reducer: without it the difference is another one.
* When the broker returns, `main` returns and the supervisors of the other instances are
  not dropped: their QEMUs go on.

### Fairness

`Campaign`: the instance takes its next step if the machine can do what it asks (the
program is a loop with no waits but for the commands); a command the machine cannot do
fails or hangs for ever, and so does a test that cannot run end. A test that hangs is left
by its timeout, which is a step of the program. Nothing is assumed of events, of QEMU's
monitor, of a test that hangs or of the machine. That a command hangs for ever is
an end of its own (`Stuck`), and `CampaignEnds` says that the campaign ends or is stuck:
no loop goes on for ever and no test, only another command, can hold it up.

`Broker`: the main thread and the instances are scheduled, a QEMU that has ended or
been killed is reaped, a launch whose QEMU is not up fails in the end, and so does a
test when nothing serves the port. QEMU itself need not end, and the main thread need
not hear of a test.

`Mutator` has no fairness: that its loop ends needs random draws that do not for ever
miss the edits that succeed, and `SomeEditSucceeds` says that there always is one. The
other modules state safety only.

## Proofs

For every set of names and paths, all sizes, any stack depth, and trees of any size
TLAPS proves of `AbstractFS`: its types (`SpecTypeOK`), no dangling entry
(`SpecNoDanglingEntry`), files and descriptors consistent (`SpecDescriptorsConsistent`),
and that no call at all panics (`SpecNoCallPanics`). The assumptions are those of
`FsModel` and `AbstractFS`: the empty name is not a name, paths are sequences of names,
and sizes and the depth of the stack are natural numbers.

The inductive invariant is `Consistent(fs)`, the conjunction of the types,
`EntriesAllocated`, `FilesKnowTheirDescriptors` and `OffsetsWithinFiles`. None of these
is inductive alone: an entry is put in with an index a resolution returned, so
resolution must be sound, which needs all entries allocated; a read or write
advances an offset of the file the descriptor names, so the descriptor must name a
file that exists. Each operator has a lemma (`RemoveGood`, ..., `WriteGood`) that its
outcome is no panic and leaves a consistent tree, `ApplyGood` collects them, `NextInv`
has one step per action. The recording is only shown to keep its type.

Resolution is a recursive function over the stack depth. The prover's library states
recursion and induction with operator parameters, which the backends cannot
instantiate, so `OperationProofs` derives both for sets and functions from the least
element of a set of naturals: `NatSetInduction`, and `RecursionOverNat` for a recursive
function whose step takes the previous value. It uses them for the equation of `Walk`
(`WalkEquation`) and shows by induction that a resolution of any depth ends at a node
that exists and passes only directories that exist (`ResolveNodeSound`), and that one more
stack frame (`OneMoreFrame`) or fewer symlinks among those visited (`FewerVisited`) do
not change an answer that succeeds.

That a rename moves exactly one entry, and a refused one changes nothing
(`SpecRenameMovesOneEntry`, `SpecFailedRenameChangesNothing`), rests on the code's second
resolution of the old parent (`fs.rs:224`), which is made after the new entry has been put
in. It must find what the first one found, or the code would fail half-way or remove another
entry. The entry that was replaced leads nowhere on (`ReplacedLeadsNowhere`): it was a
file, an empty directory, or a symlink to one of those, since the code refuses anything
else. So a resolution that succeeds in the old tree succeeds in the new one with the same
answer, unless it ended in what was replaced (`NotAffected`, by induction on the depth).

That the directories stay a forest (`SpecDirsFormForest`) is a question only for rename. A
resolution passes every ancestor of the directory it ends in, whichever symlinks it
goes through (`AnswersPassAncestors`), and the code compares the directory it moves with
those the resolution passed, so it never moves one below itself. The directories passed
hold the ancestors of all of them, so a cycle after the move would lie wholly among them
or wholly outside, where nothing has come closer together (`MovedForest`). The invariant is
`Inv /\ Forest(fs)`.

That a recording rebuilds its tree (`SpecReplayRebuildsTree`) is proved along the
recursive function of `Replay`, whose equation is derived first (`ReplayIsRun`): the
invariant (`Recorded`) is that the replay of the recording so far is the tree itself, and a
call that succeeds appends one operation that does the same again when it is
applied to the same tree; a call that fails changes nothing that a replay would miss. For
calls on paths this is plain; an open must be given the descriptor it was given before.

That slices are bytes (`SlicesImplementBytes`) is proved for files of any length, in
`AbstractFSProofs` too, with one lemma for each call and its mapped step. A write parts the
slices at its offset (`PartedBetween`, `PartedWithin`), the loop that cuts takes as many
bytes off the back part as are written (`CutFacts`), and what it empties is taken out
without a loss of bytes (`NonEmptyFacts`); a read has, after each slice, the bytes from its
offset on, as many as it may have (`HasRead`). All of these are inductions over the
slices (`SeqSetInduction`, `LoopFacts`). The inductive invariant is that no slice is empty
(`NoSliceIsEmpty`): otherwise the slice a write starts in need not hold the byte at the
offset (`SliceAtFacts`). The assumption is `ContentAssumption`, that offsets, lengths and
source offsets are natural numbers.

What a replay makes of *any* sequence of operations is the basis of the mutator and the
reducer: if it succeeds, it has recorded as many operations as it was given, each
the same but for the descriptor an open returns (`ReplayReplayed`), and the recording is
one that replays to itself. So whatever is taken away or put in, what the mutator and the
reducer keep is a valid workload (`MutatedWorkloadsAreValid`, `ReductionsAreParts`) and
differs from the one before in one operation (`MutationsEditOneOperation`). For the
insertion this needs that the generator's draw appends exactly one operation to what was
replayed before the index. The assumptions of all theorems of `MutatorProofs` are that
sizes and names are natural numbers (`SizesAreNumbers`, `NamesAreNumbers`), that weights are
too, that the mutator's configurations have a greatest length and a greatest number of
mutations above zero, and that a test case read by the reducer is
the recording of a tree (`ReducerAssumption`), as all saved ones are. The types of the
configuration allow zero for both. It is left out: with no mutations
`random_range(1..=0)` panics at the first call (`greybox/mutator.rs`), and with no length
every insertion is ruled out.

That what `append_one` draws can be applied (`UnwrapsHold` of the generator,
`MutatorUnwrapsHold` of insertions anywhere in a workload) is a question of path resolution,
which has to succeed, not only to be sound. It can fail in two ways other than that nothing is
there: by visiting a link twice, and by using up the stack. The first does not happen because
links are ordered by age. What a target names is made before the link: in the generator, where
names count up, its names are less than the link's (`Grounded`); in a mutated workload, where
names come in any order, each is made once, and before the link or never
(`TargetsOlder`, `MadeOnce`). An insertion keeps this because its name is one that no
operation and no target mentions, which also makes `LinksNeverLoop` true
(`MutatedLinksNeverLoop`); a removal keeps it because it makes nothing. So the resolution
of a path meets only older and older links, and it makes no more nested calls than
one for each name of each path on the way (`RoomForPaths`). This is the room that the
theorems ask for: `RoomForNames` for as many names as the generator gives, and
`RoomForWorkloads` for the greatest length of a workload. Both bounds are sufficient and not
the least; without any, the theorems would be false.

On this rests that the search of `alive` reports only paths that lead to their nodes
(`AlivePathsLeadThere`, along the two nested recursions of the search), that a new name under
such a path is free, and that a file it reports can be opened, linked or
removed, so each kind of operation succeeds (`DrawnSucceeds`) and is recorded, a rename
included, whose errors the code would drop (`OneOperationIsAppended`). The invariants are
`GInv` and `RInv`. That the loop of mutations can always go on (`AnEditSucceeds`) needs
nothing to follow the edit: the last operation of a workload can always be taken away
(`LastRemoved`), and one that needs nothing but a name can come after it (`OneAppended`).
For the name, its hypothesis `NamesGoOn` is that there is always a greater one, as there is in the
code, where a name is any number.

For any addresses, any number of runs and both schedulers TLAPS proves of `GreyBox`
its types (`TypeCorrect`), that the queue is fair (`QueueFair`), and that counts and
corpus agree (`NothingCoveredIsForgotten`, `CorpusHoldsNothingTwice`). Fairness of the
queue is not inductive: `WaitBound` says how long each seed has waited by where it is
relative to the position, exactly for those behind it and at most a whole round for
those from it on, which an added seed only lengthens. That a new seed covers something
new needs that what is not counted is in no seed, so the two invariants of the corpus
are proved together (`CorpusInv`). That there is a seed at the position of the queue
is `QueuePositionInCorpus`. The assumptions are that the addresses are finitely many,
that reports are well formed and of them, and that `test_count` and `m_constant` are
natural numbers.

That the counts are of the lines the reports call executed (`CoverageIsOfTheReports`)
is proved through the reader: `HasRead` says after each line which of the lines so far are in
the map, which in the record still open, and which file that record is of, and holds
along the recursive function of `ParseFrom` (`ParseIsReading`, `ReportIsRead`). A report is
well formed if every line of a record lies in exactly one that names a file, and each record
ends (`WellFormed`). A file may have several records, in any number and order, but then
what counts is the last: the reader puts records into a map by the name of the file, so the
lines executed in the others are lost (`lcov.rs:96-98`), and `Reported` says so.

For any number of instances, tests and ports TLAPS proves of `Broker` that statistics are
honest (`StatisticsAreHonest`), that the error the broker returns with is true of the
instance it names (`EndHasAReason`) and that
no machine is shared unnoticed (`SharedMachineIsNoticed`). `StatsInv` orders what the
broker knows, what is on its way and what was executed; `ErrorInv` says that a failed
instance and a reaped QEMU have left an error in the channel until the broker returns, and
`QemuInv` that two QEMUs that are up have different ports. What an error says is true when
it is sent and stays so, which is shown of every message of the channel. The main fact is that
the channel cannot be empty and without senders before an error was read.

For any workloads, traces and states, and any number of tests TLAPS proves the five safety
properties of `Campaign`: `TestsStartClean`, `PanicsAreOfThisRun`, `PanicsAreSurvived`,
`OneTestIsCompared`, `VerdictsAreRight`. None is inductive:

* `MonitorInv` says when the monitor has a command left: not before the snapshot is asked for,
  and never while a test runs, since the machine answers only after it is done;
* `MachineInv` follows the mounts and the disk through the phases, a machine that boots
  again and the snapshot included;
* `EventInv` says that an event in the channel or on the wire, once the events are reset, is
  one that `emitted` knows of;
* `TestInv` follows the trace, the coverage and the state of a test from the machine
  to the comparison, from a directory that may be an older one: what a test that completes
  writes replaces what was there (`Known`);
* `TimeoutInv` says what a timeout can mean;
* `RecoveryInv` says that whenever nothing but tests failed the machine is as the next command
  needs it (`Ready`), or the snapshot that is about to be loaded is. `ReadyCanDo` makes this
  the guard of each command, so that only the teardown after a timeout can be refused
  (`OnlyTimeoutsAreRefused`).

The assumptions are that no input, trace, state or content of a directory is the absence of
one (`CampaignAssumption`, `FilesAssumption`), that error traces are traces
(`TracesAssumption`), and that the reasons a workload is saved for are none
either (`ReasonsAssumption`).

For any workloads, file systems and findings of dash TLAPS proves of `Reducer` that the
report of what was reduced shows the original difference
(`ReductionsShowTheOriginalDifference`), since `SameDiff` compares all that `Shows` keeps
with the original and never with the last reduction, and that no variation is overwritten
(`NoVariationIsLost`), since indices that have not been tried have none
(`UntriedAreEmpty`).

Of the tests of `Executor` TLAPS proves both properties for any valid workload and any
file systems. A call reaches the file of its open (`CallsReachTheirFiles`), by what a
recording says of its descriptors and what the process has open. In a recording no two
opens return the same descriptor, and a descriptor that is used has been opened and not
closed since (`RecordingThreaded`, an invariant of the replay). The process keeps
faith with it (`Faithful`): the variable of an open that failed is -1, and that of one
that succeeded and is not closed yet is a number whose entry in the table is this open. A
close frees only the number of its own open, since two opens that are not closed have
different numbers; that there always is a lowest free number follows from the table being
finite (`LowestIsFree`). The differences of traces are real (`DifferencesAreReal`) because
the descriptor numbers in a row are a function of the answers before it: the
invariant keeps, for each of the two processes, the history of its states (`Ran`), and as
long as the answers are the same so are the states (`SameAnswersSameProcess`), so the
next rows differ exactly if the answers do (`RowTells`). The recursive function of
`TraceDiff` yields the first pair of rows that differ first (`TraceDiffIsFirst`). The
assumption on the constants is `ExecutorAssumption`: the test has some first free
descriptor number above zero, and every response is one that the call can end with
(`Ends`).

For any finite trees with names of any characters after the separator TLAPS proves all
three properties of `Dash`: `OneSidedReportsAreRight`, `ListsAgreeWithHashes`,
`ChangesAreReported`. The code sorts each directory by file name and merges by comparing
whole paths, and the proof is that these are the same order. Both orders are
dictionaries' (`BeforeIrreflexive`, `BeforeTransitive`, `BeforeTotal`), one of names and one of
characters; where two paths first differ in a name, their strings are alike up to
that name, and then either the names differ in a character or one ends where the other
goes on, and a name's end is followed by nothing or the separator, which is less than any
character (`StringsFollowWalk`). So a listing is sorted by the strings (`WalkIsSorted`, from the
number of entries before each), and strings tell paths apart (`RelPathInjective`). The
invariant of the merge (`MergesSortedLists`) is that all that is left of one side comes
before all that is taken of the other, which makes an entry that is passed alone one
that the other side has not; that what is reported is so and is reported once; and that what
is taken was reported where it should. The merge always ends at both roots, whose
hash is that of the whole list (`RootHash`), so the list shows what the hashes show. The
hash of any other entry may cover entries elsewhere, but begins with the entry itself
(`OwnEntryIsHashed`). The assumptions are `DigitsFollowSlash` and `ListingsAssumption`, that the
trees are finite and have a root.

Model-checked only:

* The liveness properties `CampaignEnds` and `EndsAfterAnInstance`, which are out of the
  prover's reach.

## Not modelled

* Modes and permissions, `src_offset` as a value (reads and writes of bytes are
  `Content`'s), the 64-bit width of sizes, the parsing of path strings.
* How deep the real stack is: any depth gives the same results but for
  `StackOverflow`. The depths of the cfg files pass every resolution without a loop, and the
  theorems about the generator and the mutator say what depth is enough for workloads of any
  length.
* A command to the machine that overtakes a `savevm` or `loadvm` the monitor was sent before
  it; the assumption is stated with `Campaign` above.
* That `test.c` of a machine that boots again may be half written: a command is a step.
* Native mode (no QEMU) is `Campaign` without deaths and events, but that `timeout` then
  waits for a test that is stuck in the kernel. `keep_fs` belongs to single runs, which
  have no second test.
* The options of ssh and the connection its commands share, the local command interface,
  and the QMP handshake.
* The options of each file system, and littlefs, whose setup has more steps than the
  default one of `Guest`.
* The CSV text of a trace and its parser, kcov in the executor, paths and modes as
  arguments of system calls: rows in `Executor` are compared as records.
* In `Campaign`, coverage is the number of the test that last wrote it. `GreyBox` takes
  the coverage of a run as arbitrary.
* Workloads of an initial corpus are used as they are read. `Mutator` begins with the
  empty workload and so meets valid ones only.
* Collisions of hashes, in `Dash` and of the file names in `LCov`, and the rounding of
  powers.
* The components with status `not_modelled` in `PROJECT.json`, for the reasons there.
