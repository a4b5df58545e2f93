# A verification project for the HSA runtime conformance suite

The repository is a suite of C tests for implementations of the HSA runtime. It
does not contain a runtime: the system verified here is the suite itself, its
concurrent harness, its helpers for dispatching kernels, the tests that are
concurrent programs in their own right, and the drivers that run everything.

Two questions guide the project. Does the infrastructure do what its callers
rely on (rounds of threads, slots of a ring buffer, counters of results), under
every interleaving? And are the tests sound oracles: do they accept every
behaviour of a runtime that conforms, and do they notice one that does not?

Paths below are relative to `src/` (`src/utils/...` is
`src/src/utils/...` from the root of this project).

## 1. Inventory

### Parts, state and interaction

| Part | Where | State | Operations |
|---|---|---|---|
| Concurrent harness | `src/utils/concurrent_utils.{c,h}` | test list, thread list, mutex, one condition variable, `run_flag`, `exit_flag`, `num_running_t`, a status per test | create, add, resize, thread_create, start, wait, test_status, exit, destroy, kill; the worker loop |
| Dispatch helpers | `src/utils/queue_utils.c`, `dispatch_utils.c` | none of their own; read and write index, ring buffer and doorbell of the queue, the completion signal | enqueue_dispatch_packet(_at), enqueue_dispatch_packets(_at), dispatch_kernel_1d_data |
| Finalization helpers | `src/utils/finalize_utils.c` | module buffers, program, code object, executable | load and destroy a module, finalize_executable, get_executable_symbols |
| Agent and image helpers | `src/utils/agent_utils.c`, `image_utils.c` | agent lists; tables of image formats | iteration callbacks, attribute checks, pixel arithmetic |
| Signal tests | `src/core/signals` | signals shared by two to four threads | ordering, atomicity, waiting, creation, kernels that wait or set |
| Queue tests | `src/core/queue` | queues, write indices, callbacks | dispatch (concurrent, burst, full, gap, inactivated), write-index ordering and atomicity, creation up to the limit |
| AQL and async tests | `src/core/aql`, `src/core/async` | packets, barriers, the error callback | barriers and/or, across queues, barrier bit, invalid packets |
| API, init, agent, memory, code tests | `src/core/{api,init,agent,memory,code}` | handles of the runtime | call sequences with the status each call must return |
| Extensions | `src/extensions` | programs, images | finalization, ext_api, image clear, copy, import and export |
| Registration and drivers | `cmake/test.cmake`, `cmake/image_data.cmake`, the `CMakeLists` fragments of the fifteen executables and their `main` functions, `script/{run,execute}.sh`, `src/utils/framework.h` | `test.lst`, ctest's list, counters per group and in total | configure, `make test`, `execute.sh` |

A test is a `DEFINE_TEST` function in one of the executables. cmake lists the
tests by name; a driver starts the executable with `CK_RUN_CASE` set to one
name. A concurrent test builds a test group (or uses pthreads directly), its
threads call the runtime on shared signals and queues, and the main function
asserts what they leave. Tests that run kernels load a BRIG module with
the finalization helpers and dispatch packets with the dispatch helpers; the
runtime's packet processor consumes the packets and decrements signals.

### What is hard here, and what correctness means

* *Harness.* One condition variable for both directions, rounds told apart by
  one bit, flags read outside the mutex, memory freed by the caller while
  workers are on their way out, thread creation that may fail. Correct: every
  test runs exactly once per round, wait is a barrier, no wakeup is lost,
  nothing is used after it is freed, wait and exit return.
* *Dispatch.* Several producers on one ring buffer that publish and ring the
  doorbell out of order, a ring that is full, waits that may resume early.
  Correct: a packet is launched exactly as reserved, no packet is overwritten,
  arguments are reused only after the kernel has ended, every caller finishes;
  where the code does not achieve that, nothing goes wrong before the slip.
* *Ordering tests.* They pass a token with release and acquire operations and
  assert relaxed accesses. Correct: no assertion can fail on a runtime that
  implements the orders, whoever holds the token is alone, and all threads end.
* *Atomicity tests.* Correct: they accept every run of an atomic runtime and
  reject a run in which an update was lost.
* *Wait tests.* Threads sleep on one signal for different values, a waker
  changes it step by step; values pass through an `int`; two threads answer in
  one signal. Correct: a check fails only on a runtime whose waits end early,
  no answer is lost, and the test ends.
* *Kernel tests.* A long chain of calls, each of which may fail, over whatever
  agents the machine has. Correct: a kernel runs only on an agent with its own
  memory and on every agent that can run it, a failing call makes the test fail,
  and a test that ends has released what it acquired.
* *Tables.* A test exists only if four hand-kept lists agree: its definition, the
  test cases `main` adds, the list cmake registers, the include order of the
  cmake files. Correct: every name is registered once, and what is registered
  runs.
* *Drivers.* Correct: every listed test is counted once, and a failure makes
  the driver fail.

`PROJECT.json` lists the individual hazards with their lines.

## 2. Modules

| Module | Models | Uses |
|---|---|---|
| `ForkJoin` | what a test group promises (abstract) | |
| `TestGroup` | the harness | refines `ForkJoin` |
| `TestGroupProofs` | theorems about `TestGroup`, among them that it implements `ForkJoin` | `TestGroup` |
| `AqlQueue`, `MCAqlQueue` | dispatch helpers, the concurrent, the multiple dispatch and the gap test, the packet processor; the scenarios | |
| `AqlQueueProofs` | theorems about the ring, for queues of any size | `AqlQueue` |
| `RelAcq` | signals and indices of the runtime as release/acquire memory (external) | |
| `SignalTests` | the programs of the 29 registered signal ordering tests, as data | |
| `SignalOrdering` | runs those programs on the memory | `SignalTests`, `RelAcq` |
| `IdealRun` | how such a test is meant to go, computed from its program; when a program is disciplined | `SignalOrdering` |
| `SignalOrderingProofs` | theorems about disciplined programs, for any number of signals and rounds | `IdealRun` |
| `WriteIndexOrdering` | the four write-index ordering tests | `RelAcq` |
| `WriteIndexProofs` | what the operations of `RelAcq` do to messages and views; theorems about the tests, for any number of queues | `WriteIndexOrdering` |
| `AtomicityTests` | 28 signal and 2 queue atomicity tests, on an atomic and on a lossy runtime | |
| `AtomicityProofs` | theorems about them, for any counts | `AtomicityTests` |
| `SignalWait` | the tests of `hsa_signal_wait_acquire` and `_relaxed` | |
| `SignalWaitProofs` | theorems about them, for any widths and numbers of threads | `SignalWait` |
| `KernelTests`, `MCKernelTests` | the skeleton of the tests that run a kernel, with the agent and finalization helpers; machines | |
| `KernelTestsProofs` | theorems about them, for every machine | `KernelTests` |
| `CoreTests` | the tables of the twelve executables without images | |
| `ImageData`, `ImageClear`, `ImageCopy`, `ImageImportExport` | the formats of the image tests and the tables of the three image executables | |
| `Registry` | from those tables to the tests that run | the five above |
| `SuiteRun`, `MCSuiteRun` | registration, ctest with run.sh, execute.sh, the main function of an executable; a small suite | |
| `SuiteRunProofs` | theorems about execute.sh's counters and reports and ctest's status | `SuiteRun` |

### TestGroup

State has the names of `struct test_group` and of the worker's local variable;
`pc` says where the caller (process 0) and each worker are, `test_mutex` who
holds the mutex, `alive` which allocations exist. A critical section is two
steps, taking the mutex and the body up to its release, because nothing else
can happen to protected state in between; reads the code makes *outside* the
mutex (`num_running_t` in `test_group_start`, `exit_flag` in the worker,
`status`) are steps of their own. `pthread_cond_wait` releases the mutex
atomically, may wake up spuriously, and takes the mutex again before it
returns. `round`, `began` and `ran` are history.

The caller may do all that tests of the suite do, in any order the interface
allows: several adds, refused calls, rounds, waiting or polling the status,
exiting at any point between calls, in the middle of a round too.
`test_group_start` is three steps: the unlocked test of `num_running_t`, taking
the mutex, and the body. With `CreateMayFail` a thread creation may fail with
EAGAIN, which the code does not notice; `test_group_exit` then joins a `pthread_t`
nobody has initialised, which is undefined: in the model the join returns
(`join_uncreated`), crashes the process (`join_uncreated_crashes`) or hangs.

### AqlQueue

A packet slot has a header and a body, written in separate steps. The helpers
are modelled step by step: reserve an index, wait for room, (clear,) copy the
body, store the header, ring the doorbell, wait for the signal. The two room
conditions are kept apart, since queue_utils uses `>` and dispatch_utils `>=`.
The processor launches packets in index order once a doorbell value at or past
the index was stored, stops at an INVALID header, and makes the slot INVALID
when it launches. Kernels end in any order. A scenario picks the client: the
concurrent test, the burst of the multiple dispatch test, the 1D helper, a
bulk request, or the gap test. In the gap test one thread fills three regions
of the queue, each with a signal of its own; a region is a "producer", and `pc`
says in which one the thread is (`FillNext` and `WaitNext` are the order of the
source).

Two things the code does wrong are part of the model, and recorded. `crossed`
says that a producer was let past a ring that was exactly full: the loop of
`enqueue_dispatch_packet_at` waits while `delta > size` (`queue_utils.c:67`).
`early` holds the producers whose wait returned before the signal was 0, which
`hsa_signal_wait_*` may do (`s.early` of the scenario allows it); only
`dispatch_kernel_1d_data` and the bulk helper wait again. The properties say what
survives: `Spoiled` is the point up to which anything is claimed of the ring,
`Lapsed(p)` the one up to which something is claimed of caller `p`.

### RelAcq, SignalTests, SignalOrdering, IdealRun, WriteIndexOrdering

`RelAcq` reads the runtime's orders as C11-like atomics with views: a location
has a history of messages, a thread a view of each location, a release
publishes the view, an acquire joins it, a read-modify-write continues a
release sequence and a store does not. Assumptions: a store comes last in
coherence order, and operations take effect in program order (no load
buffering). Both leave out behaviours, so a violation found is real for the
full model, and a pass is a pass for this memory.

`SignalTests` writes each thread of a test as the calls it makes to take the
token, for each x signal, and to give the token away, with the arguments and
orders of the source; `SignalOrdering` interprets them: `pc` is the next call,
`ii` the x signal the inner loop has come to, `round` the rounds of the outer
one. A spinning load or compare-and-swap that reads a stale value only moves its
view. In `WriteIndexOrdering` queue creation may run out of resources at any
number of queues.

`IdealRun` says how an ordering test is meant to go: one thread at a time is able
to go on, every access returns the newest value. A state of the ideal run has the
next call of each thread, one value for y, one for z and one for the x signals
(two while the inner loop is on its way), and the knowledge that the accesses need:
which threads have seen the newest message of a signal (`knows`), and which
control signals publish that of every x (`pub`). It is computed from the program
alone. `Disciplined` says that this run keeps its promises: two threads are never
able at the same time, asserted values are the expected ones, and an access that
could return something older is made by a thread that knows the newest.
`FollowsIdealRun` relates the test on the real memory to it.

### AtomicityTests

Each test is a record (operation, order, initial value, rounds); the operands
of each thread, the check after each round and the reset are those of the
source. A signal of the bit tests is the set of its bits, four per 16-bit group.
The queue tests first create a queue (`create`): an agent without queues is skipped,
and the add test asks for a size that is the agent's number of queues, so that the
queue may be refused (`main = "refused"`). On the
lossy runtime an operation of a thread in `Torn` is a load and a later store;
`lost` records that another operation came between.

### SignalWait

A waiting thread is `waiting`, `resumed` or `ended`; `value` holds the signals.
A wait ends when its condition holds (`resume`), or early (`resume_early`),
which the model records in `early`: properties about a runtime whose waits do
not end early are conditional on it. `wakeup_val`, `set_val` and `expect_val`
are the functions of the eight wake-up tests, with an `int` of `IntBits` bits
and a signal of `ValueBits`, so that the last mask of the or and xor
tests is the sign bit as `1 << 31` is. In the and, or and xor tests a value is
the set of its bits; a mask that goes through an `int` is sign-extended, as the
conversion to `hsa_signal_value_t` does. The condition and the satisfied tests
are scripts of stores and waits of main (`Condition`, `Satisfied`, `Script`).

### KernelTests

`Body` is the test between the choice of an agent and the end of its
iteration, as a list of calls with the resource each acquires or releases;
every call has an action for success and one for failure. `get_agent_list`,
the callbacks that pick agents and regions (with the value they leave when
nothing fits), `load_module_from_file` (whose `rc` is the status of the last
`fseek`) and `finalize_executable` (one exit label for all failures) are
modelled step by step. `live` counts held resources, `faults` records failed
calls, `tested` the agents on which a kernel ran. Any call may fail, so that the
properties speak about the failing paths too: `KernelsHaveTheirMemory` says where
kernels run, `ErrorsSurface` that a failure is not lost between the exit labels
(`Unnoticed` lists the calls whose status nobody looks at), and `NothingLeaks` that
nothing is released twice, that a passing test keeps at most what its source forgets
(`Forgotten`) or an ignored destroy left (`Spilt`), and that finalize_executable
never keeps its program. A machine is a sequence of
agents, each a record of its features and its regions; `MCKernelTests` has the
four kinds the run uses. Three tests stand for the
shapes: `aql_private_memory` (every agent, fine grained memory),
`aql_group_memory` (the same with the comparison the wrong way round) and
`code_recursive_kernel_function` (the first agent with kernel dispatch).

### Registry and the tables

`CoreTests` has, for each of the twelve executables without images, the ADD_TEST
lines of `main` and the cmake list as sequences of names; `ImageClear`, `ImageCopy` and
`ImageImportExport` have sets of pairs (channel order, geometry), one definition per
macro block of the source. `ImageData` has `valid_image`, cmake's choice of
combinations, as a sequence of rules: a rule sets some of the match variables and
the others keep what an earlier rule left in them, as `CHANNEL_TYPE_MATCH` does from
INTENSITY to LUMINANCE. The actions of `Registry` are cmake going through the targets
(`TEST_LIST` is one variable that each target sets or appends to, and `test.cmake`
empties; a name that was added before, by whatever target, is an error), ctest
starting an executable for one registered name, and its main running the matching
test cases.

### SuiteRun

`configure` registers the tests and appends them to `test.lst`; `ctest_run` and
the steps of execute.sh run them with any of the four outcomes, or with none if
the executable has no case of that name. check and ctest are external. The
variables carry the script's names.

## 3. Runs

| Run | Result | Distinct states |
|---|---|---|
| `test_group` | pass | 25,579 |
| `aql_queue` | pass | 389,345 |
| `signal_ordering` | pass | 2,178 |
| `write_index` | pass | 696 |
| `atomicity` | pass | 246,793 |
| `signal_wait` | pass | 2,575 |
| `signal_wait_ne` | violation | |
| `kernel_tests` | pass | 15,438 |
| `kernel_tests_skip` | violation | |
| `registry` | pass | 11,631 |
| `suite` | pass | 3,132 |
| `suite_execute` | violation | |

**test_group** (3 tests, 2 rounds, creation may fail). Every test is entered
and finished once per round, `num_running_t` counts the unfinished tests,
nobody sleeps on a condition that holds, workers find their memory, after exit
every test with a thread is finished, and a wait or a poll returns only to a
finished round. Wait and exit return when every test has its thread, and the
harness implements `ForkJoin` with its fairness: the refinement maps `done` to the tests with `ran = round` and hides
threads, mutex and condition. Three workers are enough for
one that is last, one that lags and one that is asleep; two rounds use both
values of the one-bit flag, and a third would repeat the first.

**aql_queue.** Three concurrent threads with two packets each on four slots, and two
with three packets whose waits may resume early; 12 calls of the 1D helper on two
slots with waits that resume early; two bulk requests of four packets on four slots;
a burst that just fits, with a wait that may resume early, and one of three packets
on two slots, which passes the full ring and overwrites a packet; rounds of
the gap test with regions of two packets on eight slots, the proportions of the
source (32 and 128), and of one packet on four slots with early waits. Packets are
launched as reserved until a full ring was passed (`LaunchesWhatWasReserved`), only
overload or an early wait gets there (`FullOnlyWhenOverloaded`), only then is an
unread packet overwritten, and never by the bulk and the 1D helper
(`OverwritesOnlyWhenFull`); a caller none of whose own waits was early reuses
nothing too soon and finishes (`ReusesAfterCompletion`, `AllDispatched`).

**signal_ordering** (2 x signals, 3 rounds, 26 tests). Two x signals tell a
partial update from a whole one; in the third round both parities have been
handed over and taken back. Left out are the three tests whose
assertion can fail (section 5). `FollowsIdealRun` evaluates `Disciplined` for each
of the 26 programs. That does not depend on the number of x signals or rounds, so
that it is the premise of the theorems of section 4 for the constants of the
source too; the three programs left out are not disciplined.

**write_index** (0 to 4 queues, termination value 6). Four queues are two
middle ones, six values three turns of one thread and two of the other. With
exactly one queue, which the code accepts, both threads can be busy at once and the
asserted compare-and-swap fails; `CasOracleSound` and `TurnsExclusive` say that
this is the only number of queues with which that happens.

**signal_wait** (4 threads, ints of 4 bits, signals of 8). As many threads as bits, as in the
source, so that the sign bit is reached; a later thread that a change wakes too
soon shows with two threads already.

**kernel_tests** (machines of one or two agents, out of four kinds). Two agents
are enough for one that is skipped or fails before or after one that is tested;
any number of calls may fail, in all three tests.

**registry.** No bounds: all names of the twelve core executables (325 listed) and all
rows of the three image ones. No two registered names are equal and no list runs over
into the next (`ConfiguresEveryTarget`); image tests run as often as `main` adds them,
for the same formats in all three executables; no other test runs twice.

**atomicity** (2 operations per thread, 2 rounds, 2 groups of bits, threads 0
and 3 torn). Two groups let masks meet across a boundary. The order of a variant
matters only to the xor and exchange tests, whose switch has no break: the
relaxed variant runs one loop, the release variant two, and the longer ones
repeat the same. "all" stands for the two queue tests, which go through the
orders in turn.

**suite.** Two targets of two tests, one with a listed name the executable does
not have, up to two configurations, every outcome of each test.

The violation runs are explained in section 5. Of the inductive invariants of the
proofs (section 4), which include the types, only `FollowsIdealRun` is a property
of a run, since it is what gives those theorems their premise.

### Fairness

* Harness: a thread that can run keeps running and test functions return (weak
  fairness). Taking the mutex is strongly fair: other threads may take and
  release it for ever because spurious wakeups are not bounded. A caller that
  entered a harness function completes it, but need not call the next one.
* Dispatch: producers run, the processor goes on with what it was told of,
  kernels end (weak).
* Ordering tests: a thread that can make progress does. A spin on a stale value
  is no progress, so weak fairness says that a write becomes visible in the
  end, which the runtime must provide for any spin to end.
* Wait tests: threads run, and a wait whose condition goes on holding ends
  (weak). A wait whose condition held only for a moment need not end: nothing
  in the runtime promises to see a passing value, and the tests that would need
  it fail `Returns`.
* Atomicity tests and drivers: steps that are possible are taken in the end.

Deadlock is checked except in `signal_wait` and `kernel_tests` with their
violation runs, where a program that has returned or failed has no next step;
elsewhere a finished system stutters in a state of its own.

## 4. Proofs

TLC checks an instance; the theorems hold for every value of the constants. In
each module an inductive invariant comes first (checked with TLC before it was
proved), then one lemma per action or group of actions that it is kept, and the
properties follow from it. Listed below are the theorems, the property of the
runs each one states, and why the invariant says more than the property.

| Module | Theorem | States |
|---|---|---|
| `TestGroupProofs` | `Invariance`, `TypeCorrect` | `IndInv`, `TypeOK` (in no run) |
| | `WakeupsAreKept` | `NoLostWakeup` |
| | `RoundsAreExact` | `OncePerRound` |
| | `WorkersUseLiveMemory` | `NoUseAfterFree` |
| | `WaitingIsABarrier` | `WaitIsBarrier` (action property) |
| | `ExitLeavesFinished` | `ExitedAllFinished` |
| | `GroupImplementsForkJoin` | `Spec => Abstract!Spec` |
| `AqlQueueProofs` | `DispatchInvariant` | `DispatchInv` |
| | `LaunchesReserved` | `LaunchesWhatWasReserved` |
| | `RingFullOnlyWhenOverloaded` | `FullOnlyWhenOverloaded` |
| | `ReuseIsSafe` | `ReusesAfterCompletion` |
| | `FullRingOverwrites` | `OverwritesOnlyWhenFull` (action property) |
| | `GapAssertionsHold` | no producer is at `failed` unless a wait was early |
| `WriteIndexProofs` | `TurnsInvariant` | `IInv` |
| | `TurnsNeverOverlap` | `TurnsExclusive` |
| | `CasTestsAreSound` | `CasOracleSound` |
| | `CountsToTheEnd` | `FinalValues` |
| `SignalOrderingProofs` | `TestsFollowIdealRun` | `FollowsIdealRun` |
| | `DisciplinedTestsAreSound` | `OracleSound` |
| | `TokensAreExclusive` | `TokenExclusive` |
| | `HoldersAreSynchronised` | `HolderSynchronised` |
| `SignalWaitProofs` | `OracleIsSound` | `OracleSound` |
| | `AnswersComeInOrder` | `AnswersInOrder` |
| `AtomicityProofs` | `RoundsInvariant` | `Inv` |
| | `AtomicRuntimesPass` | `OracleSound` |
| | `LostUpdatesAreNoticed` | `SensitiveTestsDetect` |
| `KernelTestsProofs` | `LeakInvariant` | `LeakInv` |
| | `ResourcesBalance` | `NothingLeaks` |
| | `FailuresSurface` | `ErrorsSurface` |
| | `KernelsRunOnOwnMemory` | `KernelsHaveTheirMemory` |
| `SuiteRunProofs` | `CountsAreComplete` | `CountsEveryLine` |
| | `CTestIsTruthful` | `CTestTellsFailures` |
| | `ReportsAreTheGroups` | `ReportsFollowTheList` |

### The harness

For every size of the group and every number of rounds, whether or not threads
fail to be created.

`IndInv` is the conjunction of `TypeOK`, `MutexInv` (who is inside a critical
section), `CallerInv` (what the caller's position says of flags and
allocations), `ThreadInv` (which threads exist), `RoundInv`, `CountsUnfinished`,
`NoLostWakeup` and `StatusInv`. That no
test is skipped rests on `RoundInv`: outside a run, a worker's bit equals
`run_flag` exactly when it has finished the current round. That needs the caller
to start a round only when `num_running_t` is 0, and this to mean that all
members finished, which is `CountsUnfinished`, a statement about the cardinality
of a set that each decrement makes smaller by one. The
barrier for a polling caller needs `StatusInv`: TEST_STOP says that the test ran.

`GroupImplementsForkJoin` shows that an initial state of the harness is one of
`ForkJoin`, and that every step is a step of it or a stutter, under the mapping
of the run (`SeenCaller`, `SeenMembers`, `SeenLost`, `SeenDone`). Four steps are
not stutters: opening the group, starting a round, finishing a test, and the
caller's phase changes. `ZeroIsDone` and `PollIsDone` are where the invariant is
used: what the caller reads (a count of zero, a status) means that the abstract
`done` is complete. `ForkJoin`'s fairness is left to the run.

### The dispatch helpers

For every queue size and any number of packets, in each of the ways the helpers are
used (`AllFit`, which the scenarios of the run satisfy):

* *concurrent*: any number of threads, waits may resume early;
* *burst*: one thread per queue, any number of packets, its wait may resume early.
  `test_queue_multiple_dispatch.c` sends 1024 packets to a queue of the agent's size;
* *1D helper*: `dispatch_kernel_1d_data` from one thread, any number of calls,
  waits may resume early;
* *bulk*: requests no longer than the queue, from any number of threads (a longer
  one starts each chunk at `packet[0]` again, and no test makes one);
* *gap*: three regions that fit into the queue together, any number of rounds,
  waits may resume early. `test_queue_multi_gap.c` has regions of 32 packets and
  128 slots.

The theorems claim nothing that the code does not keep: the invariant holds until
somebody is let past a full ring (`crossed`), in the gap test until a wait resumes
early, and `RingFullOnlyWhenOverloaded` says when the first can happen at all. A
packet's place in the ring, its owner and its state have to be followed from the
reservation to the launch, and `FitInv` does that packet by packet: `OwnInv` (every
index belongs to one producer, whose packets are in order), `HoldInv` (where the
packets a producer is writing are), `LaunchInv` (the launched ones are exactly those
before the read index), `SignalInv` (the signal of a caller that was not early counts
the kernels that have not ended), `RungInv` (the doorbell of the 1D helper is behind),
`SlotInv` (what the slot of each of the next `QueueSize` packets holds), and `RoomInv`:
no packet a lap ahead of the read index is written. For the concurrent threads
`RoomInv` is not what the code waits for, since it waits for one slot too few; that
as many threads as slots never meet the full ring is a pigeonhole argument: a
thread whose waits were not early has at most one packet that was not launched, so
that the indices between read and write index, which have different owners, are
no more than the threads.

The gap test needs an invariant of its own, since one thread holds three regions
at a time and fills them out of order. `GapInv` follows its rounds: between two
of them everything reserved was launched and has ended (`GapClosed`); within one
(`GapOpen`) the thread is at one of six stages (`GapStage`), each region has its
indices, its packets and a signal that counts its kernels (`GapRegion`), and of
the next `QueueSize` slots exactly those of published packets are not empty
(`GapSlots`). That the processor has passed only published packets is what makes
the test's assertions hold (`GapHolds`): while the second region is empty it
stands before it, whatever index the doorbell was rung with. `DispatchInv` is
`FitInv` or `GapInv`, depending on the scenario.

### The write-index ordering tests

For any number of queues and any termination value, on
the release/acquire memory, whose operations the first lemmas characterise
for any threads, locations and values. `IInv` says whose turn it is (`TurnInv`: the thread with the smaller
next value; every queue holds that value or the one before, depending on how
far the thread has got) and what that thread has seen (`SyncInv`: the newest
message of its entry queue publishes the newest message of all, so that after
an acquiring read its relaxed reads cannot be stale). `SingleInv` treats a test
that could create only one queue: there the turns overlap and the ASSERT fails, and
`TurnsNeverOverlap` and `CasTestsAreSound` are about any other number. The add tests need less of `SyncInv`, and are
where the ASSERT may fail; `TurnsExclusive` and `FinalValues` hold for them too.

### The signal ordering tests

For any number of x signals and rounds. The 29 programs are data, and a proof that
went through the turns of each would say 26 times the same. The theorems are
therefore about every program that is disciplined, which is a finite fact about
the program that TLC evaluates (`Disciplined`, run `signal_ordering`), and they
assume waits that do not end early (`~EarlyWakes`; section 5 says what happens
otherwise). `Inv` says that some state of the ideal run is the one the test is in:

* `SamePlace`: threads are at the calls where the ideal run has them, except that a
  thread told to quit has left while it waited;
* `SameValues`: the newest messages have its values; an inner loop that has come to
  `ii` has left the x signals before it in the new state and those after it in
  the old one;
* `SameKnowledge`: who knows, and what publishes, the newest message of x in the
  ideal run does so in the views of the memory;
* `NoStaleClaim`: the value a thread waits for is in no message that it may still
  read, unless it is the newest one. Without this a spin on a relaxed load could end
  on the token of an earlier round. It holds because a thread that begins to wait
  has seen the newest message, and each message added later is the newest when
  it comes; when the wanted value is added, the waiting thread becomes the only
  one able to go on, and nothing replaces the value before it is taken.

A step of a thread that is able is a step of the ideal run (`AdvanceKeeps`, from
`GoingValues`, `GoingKnowledge`, `GoingClaims`); a step of another one only moves
its view or leaves by the quit value (`IdleKeeps`). The three properties of the
tests are read off the ideal run.

### The wait tests

For any number of threads up to the width of an int and any two widths
(`WidthAssumption`, `RangeAssumption`). In a wake-up test `WakeInv` says that the
signal has the value after the changes made so far (`ValueAfter`), that no thread
but the first is awake before its change, and that the flag holds exactly those
that have ended. What is left is arithmetic on the values, respectively sets of
bits: no later thread's condition holds before its turn. `AnswersComeInOrder` is
about the condition tests: `OrderInv` relates main's place in its script to the two
threads. It assumes that `ne` is not among the tests, which is the finding of
`signal_wait_ne`.

### The atomicity tests

For any number of operations, rounds, 16-bit groups and turns, and any set of
torn threads. The operations done so far (`pc`) determine what the value ought to
be: a count (`CountInv`), a set of bits (`MarkInv`), a winner (`CasInv`), a turn
(`TurnInv`). Every value in the signal or loaded by a torn operation is at most
that; it falls short exactly when an update was lost, and a loaded value that is
not behind is the signal's. An operation moves the ideal on by a step no stale
value can make up for, therefore a loss is never repaired, and the check after
the round tells. For the and and or tests this rests on the masks: `AndMasksAre`
and `OrMasksAre` compute what the repeated shifts give (for thread 3 of the and
test in the other direction, for the sign), by a least counterexample
(`SameToTheEnd`), and `MarksApart` says that every bit is touched exactly once.
`TurnsAre` counts a thread's turns.

### The kernel tests

For every machine, that is, every sequence of agents each with any features and
regions (`MachinesAssumption`: an agent that dispatches kernels has a region for
kernel arguments, which the runtime guarantees and the tests take for granted).
`LeakInv` says what a test holds from where it is, whatever has failed: `Span` gives
the steps of the body before which each resource is held, `HeldInv` that a running
test holds exactly that, but for objects whose ignored destroy failed. `SurfaceInv`
follows the failures nobody looked at and the module: what lies behind
finalize_executable had one. `MemoryInv` says that the region handle a test holds is
one of the agent it has come to, although the variable outlives the iteration.
All three tests are covered, `aql_group_memory` included: these theorems say where
kernels may run, not that all capable agents are tested, which is false of it
(`kernel_tests_skip`).

### The drivers

For all targets, lists and outcomes. execute.sh splits its counters between the
group and the total in a way that changes at a change of group and at the end;
`CountInv` says that together they count the lines read, wherever the split is.
`VerdictInv` relates ctest's status to the results so far. `ReportInv` follows
the reports through the file: there is one for each stretch of lines with the same
group name, in their order, and the counters hold the stretch that is still open;
it needs of `TargetsAssumption` that no target has the name execute.sh starts with.

### Only model-checked

The constants' assumptions are the named ASSUMEs of the modules; TLC evaluates
them in every run. Not proved:

* liveness under fairness, and the fairness of `ForkJoin`;
* what the ring does after a full one was passed, which violates every claim, and
  bulk requests longer than the queue;
* that the 26 programs of the ordering tests are disciplined: TLC evaluates it;
* `Registry`: its run goes through the tables themselves, so there is nothing left
  to generalise.

## 5. Findings and observations

Violation runs, each with the text it contradicts in `PROJECT.json`:

1. `suite_execute`: `rc` is the status of a plain `wait`, always 0; execute.sh
   never reports a failure.
2. `kernel_tests_skip`: `aql_group_memory` skips the agents that *have* fine
   grained memory, and passes without running its kernel; nine other tests have
   the same comparison.
3. `signal_wait_ne`: the second waiter of the NE test is satisfied from the
   start; its answer can be overwritten by the first, and main waits for ever.

Observations that a change of constants or of one definition reproduces:

* `WaitReturns` without its condition that every test has a thread is violated:
  `pthread_create` returns a positive number on failure, `status < 0` never sees
  it (`concurrent_utils.c`), and `test_group_wait` does not return.
* `enqueue_dispatch_packet_at` stops waiting one slot too early (`queue_utils.c:67`,
  against the comment at line 63): in the scenario of a burst longer than the queue
  the packet at the read index is overwritten. An invariant `~crossed` shows it.
* `Names = {"signal_and_acq_rel_ordering"}` violates `OracleSound` of
  `SignalOrdering`: the test hands the token over with `hsa_signal_and_acquire`.
* `Variants = {"add_acq_rel"}` violates `OracleSound` of `WriteIndexOrdering`:
  the acquiring addition acts on the queue the other thread has not released.
* The gap, concurrent and multiple dispatch tests do not repeat a wait that resumes
  early (`test_queue_dispatch_concurrent.c:185`, against the comment at line 184):
  `ReusesAfterCompletion` without `~Lapsed(p)` is violated, signals and arguments being
  reused or destroyed under running kernels.
* `ExitReturns` without its condition is violated: `concurrent_utils.c:254` joins a
  `pthread_t` nobody has initialised when a creation failed.
* The four write-index ordering tests accept an agent with one queue (line 175), and
  their asserted compare-and-swap then fails: `~(outcome = "assert_failed")`.

Other things met while modelling, without a run of their own:

* `signal_or_acquire_release_ordering_transitive` and
  `signal_or_acq_rel_ordering_transitive` lose the release sequence to a
  relaxed store (put their names into `Names`); with
  `EarlyWakes = TRUE` every transitive test that calls `hsa_signal_wait_*` once
  fails as well, all but the store/load one.
* The xor and exchange atomicity tests can fail on no runtime, although their
  headers say that they verify atomicity (`test_signal_xor_atomic.c:51`): the values
  their check accepts are closed under both operations.
* `test_group_resize`, which no test calls, reports a smaller size and reallocates
  all the same (`concurrent_utils.c:163`).
* The worker's comment announces TEST_FINISHED where it sets TEST_STOP
  (`concurrent_utils.c:101`).
* `enqueue_dispatch_packets` with more packets than the queue holds
  starts each chunk again at `packet[0]`; no test calls it.
* Listed names without a test case pass without running (in `Registry`, an invariant
  that an exited test with status 0 has `executed > 0` is violated), although `README.md:93` says that all enabled
  tests can be run with the target `test`:
  `iterate_query_attributes`, `code_define_globaL_agent`,
  `hsa_memory_register_null_ptr`, `hsa_memory_register_zero_size`,
  `hsa_isa_get_info_null_value`, and three `hsa_ext_program_add_module` names.
* The other way round, test cases that no list names: 24 of `hsa_api`, 2 of
  `hsa_async`, 5 of `hsa_ext_api`, 8 of `hsa_finalization`,
  `queue_create_concurrent`, 7 of `hsa_signals`; `hsa_init_MAX` and
  `queue_write_index_load_store_atomic` are defined and never added. Image
  clear and copy add three cases twice; the sRGB and FLOAT DEPTH cases are never
  listed.
* `get_kernel_dispatch_agent` compares the feature with `==` and misses an agent
  with both features; `code_recursive_kernel_function` then goes on with an
  uninitialised agent, does not look at the result of loading its module and
  never destroys it, although line 180 says so; `aql_private_memory` leaks its code
  object (line 202; `Forgotten` in `NothingLeaks`).
* Thread 0 of the wait test of `and` is satisfied from the start (its value is
  -1, as the signal's), so that the first step of that test checks little.
* `dispatch_utils.c:75` clears the packet's header to 0, which is
  VENDOR_SPECIFIC and not INVALID; harmless with one producer per queue.
* `check_agent_info` ends a condition with `|| HSA_DEVICE_TYPE_DSP`, which is
  always true; the barrier tests read the 64-bit timestamp frequency into a
  `uint16_t`.
* `execute.sh` without an argument runs nothing and exits with 0; configuring a
  second time lists every test twice.
* `test_queue_inactivate` computes `valid` and `test_queue_multi_gap` computes
  `fail` without asserting it; `test_queue_write_index_add_atomic.c:134` reads
  the number of queues as a queue size (`create` in `AtomicityTests`); `test_signal_load_store_atomic` never
  runs its loads and its stores at the same time; `test_signal_and_atomic.c:233`
  calls the acquire variant in the release test; `test_reinitialize.c:98` reads
  an uninitialised agent.

## 6. What is not modelled

`test_group_kill`, `test_group_resize` and adding a test after the threads exist (no
test does any of them) and `test_group_thread_affinity` (empty). In the tests that
are modelled: the contents of kernel buffers and pixels. Components left out,
with the reason, are in `PROJECT.json`; the main ones are

* the API tests and the other single-threaded sequences of calls that compare a
  status with a constant: a model of them is a copy of the HSA specification
  next to a copy of the calls, and nothing in them takes more than one order;
* the bodies of the image tests, which compute pixels byte by byte;
* the kernels, and the tests whose point lies in them (barriers, signals set or
  awaited by kernels, memory atomics);
* the queue callback and asynchronous error tests, which need a thread of the
  runtime with a relaxed view of memory; `signal_wait_timeout`, which measures
  clock readings.

## 7. Plan

Built, in this order:

| Step | Module | Runs and bounds |
|---|---|---|
| 1 | `TestGroup`, `ForkJoin`, `TestGroupProofs` | 3 tests, 2 rounds |
| 2 | `AqlQueue` | 3 producers, 4 slots; 3 regions, 8 slots; early waits, a full ring |
| 3 | `SignalOrdering`, `WriteIndexOrdering` | 2 x signals, 3 rounds; 4 queues |
| 4 | `AtomicityTests` | 4 threads, 2 rounds |
| 5 | `SuiteRun`, `SuiteRunProofs` | 2 targets, 2 configurations |
| 6 | `Registry` with its tables | all names and rows |
| 7 | `KernelTests` | 2 agents of 4 kinds, any failures |
| 8 | `SignalWait` | 4 threads, 4 bits |
| 9 | `WriteIndexProofs`, the refinement in `TestGroupProofs` | |
| 10 | `KernelTestsProofs`, `AqlQueueProofs`, `AtomicityProofs` | |
| 11 | `SignalWaitProofs`, `IdealRun`, `SignalOrderingProofs` | 26 programs, any number of signals and rounds |

What could come next: the queue callback tests, for which the runtime's own
thread would have to be modelled.
