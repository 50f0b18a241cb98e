-------------------------------- MODULE Guest --------------------------------
(***************************************************************************)
(* The machine the tests run on, as the fuzzer sees it: a virtual machine  *)
(* that can die and boot again by itself, the RAM disk both file systems   *)
(* are made on (mount/mod.rs), where they are mounted, and the coverage    *)
(* counters of a file system in user space (observer/lcov.rs).  Its        *)
(* operations are what the commands sent to it do when they succeed.       *)
(***************************************************************************)
EXTENDS Naturals, FiniteSets

CONSTANTS
  States,   \* what a test may leave in a file system
  Empty     \* the state of a file system just made

ASSUME EmptyAssumption == Empty \notin States

\* The two file systems that are compared, in the order they are tested.
Sides == {"fst", "snd"}

NoFs == "none"

Machine == [ alive    : BOOLEAN,
             mounted  : SUBSET Sides,
             device   : Sides \cup {NoFs},
             data     : States \cup {Empty},
             busy     : BOOLEAN,  \* a test that hung still holds its file system
             counters : Nat ]

\* The machine when the snapshot is taken: no file system has been made yet.
Booted == [ alive |-> TRUE, mounted |-> {}, device |-> NoFs,
            data |-> Empty, busy |-> FALSE, counters |-> 0 ]

\* modprobe, mkfs and mount: the one RAM disk gets a new file system.
Setup(g, side) ==
  [g EXCEPT !.mounted = @ \cup {side}, !.device = side, !.data = Empty]

\* umount fails where nothing is mounted.
IsMounted(g, side) == side \in g.mounted

\* Mutant: rmmod may fail, as rm may.
RmmodIgnored(g) == TRUE

\* rmmod fails while a process holds the file system, though its mount is gone.
DiskIsFree(g) == ~g.busy

\* umount -fl, then rmmod brd, which destroys the RAM disk.
Teardown(g, side) ==
  [g EXCEPT !.mounted = @ \ {side}, !.device = NoFs, !.data = Empty]

\* lcov --zerocounters
ZeroCounters(g) == [g EXCEPT !.counters = 0]

\* What running the test with this number does to its file system.
Touch(g, state, test) == [g EXCEPT !.data = state, !.counters = test]

\* The timeout ends ssh, not the test: it stays until its last call returns.
Hold(g, busy) == [g EXCEPT !.busy = busy]

Die(g) == [g EXCEPT !.alive = FALSE]

\* The kernel boots again: the RAM disk is gone, the counters are files on the disk.
Reboot(g) == [Booted EXCEPT !.counters = g.counters]

==============================================================================
