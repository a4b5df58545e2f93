--------------------------- MODULE AtomicityTests ---------------------------
(***************************************************************************)
(* The atomicity tests: src/src/core/signals/test_signal_{add, subtract,   *)
(* and, or, xor, exchange, cas}_atomic.c and                               *)
(* src/src/core/queue/test_queue_write_index_{add, cas}_atomic.c.  In      *)
(* rounds of the concurrent harness four threads apply read-modify-write   *)
(* operations to one value; after each round the main function compares    *)
(* the value, or what the threads got back, with what atomic operations    *)
(* leave, and resets it.                                                   *)
(*                                                                         *)
(* Such a test is an oracle with two duties.  It must accept every run of  *)
(* a runtime whose operations are atomic, and it ought to reject a run in  *)
(* which an update was lost.  The model runs each test on an atomic        *)
(* runtime and on a lossy one, where an operation is a load and a later    *)
(* store (external, like the runtime itself).  All operations act on one   *)
(* location and the main function reads it after the harness's wait, so    *)
(* their memory orders, in which the variants of a test differ, make no    *)
(* difference here.                                                        *)
(***************************************************************************)
EXTENDS Integers, Sequences, FiniteSets

CONSTANTS
    Operations,   \* the operations whose tests are run
    Orders,       \* the memory orders whose variants are run
    OpCount,      \* OP_COUNT: operations per thread and round
    Rounds,       \* TEST_COUNT, OP_COUNT: rounds of the harness
    Groups,       \* 16-bit groups of a signal value, 4 in the large model
    TerminationValue,   \* termination_value of the write-index cas test
    Torn,         \* the threads whose operations a lossy runtime tears apart
    QueuesMax,    \* what agents report as HSA_AGENT_INFO_QUEUES_MAX
    QueueSizes    \* the sizes with which hsa_queue_create succeeds

ASSUME CountsAssumption ==
    /\ OpCount \in Nat \ {0} /\ Rounds \in Nat \ {0} /\ Groups \in Nat \ {0}
    /\ TerminationValue \in Nat /\ QueuesMax \subseteq Nat /\ QueueSizes \subseteq Nat

Threads == 0..3      \* num, thread_index; GROUP_SIZE is 4

(* GROUP_SIZE * OP_COUNT, the operations of a round *)
AllOps == Cardinality(Threads) * OpCount

ASSUME TornAssumption == Torn \subseteq Threads

(* A signal value of the bit tests is the set of its one bits; four bits   *)
(* stand for the four nibbles of a 16-bit group.                           *)
Bits == 0..(4 * Groups - 1)
NO_BITS == {}
ALL_BITS == Bits
ALT_BITS_1 == {b \in Bits : b % 2 = 0}
ALT_BITS_2 == {b \in Bits : b % 2 = 1}

(* A test: the operation, the memory order of its variant, the value the   *)
(* signal is created with and reset to, and the number of rounds.  The     *)
(* queue tests repeat their rounds with all four orders in turn.           *)
Test(op, order, initial, rounds) ==
    [op |-> op, order |-> order, initial |-> initial, rounds |-> rounds]

test_signal_add_atomic_acquire == Test("add", "acquire", 0, Rounds)
test_signal_add_atomic_release == Test("add", "release", 0, Rounds)
test_signal_add_atomic_relaxed == Test("add", "relaxed", 0, Rounds)
test_signal_add_atomic_acq_rel == Test("add", "acq_rel", 0, Rounds)
test_signal_subtract_atomic_acquire == Test("subtract", "acquire", AllOps, Rounds)
test_signal_subtract_atomic_release == Test("subtract", "release", AllOps, Rounds)
test_signal_subtract_atomic_relaxed == Test("subtract", "relaxed", AllOps, Rounds)
test_signal_subtract_atomic_acq_rel == Test("subtract", "acq_rel", AllOps, Rounds)
test_signal_and_atomic_acquire == Test("and", "acquire", ALL_BITS, Rounds)
test_signal_and_atomic_release == Test("and", "release", ALL_BITS, Rounds)
test_signal_and_atomic_relaxed == Test("and", "relaxed", ALL_BITS, Rounds)
test_signal_and_atomic_acq_rel == Test("and", "acq_rel", ALL_BITS, Rounds)
test_signal_or_atomic_acquire == Test("or", "acquire", NO_BITS, Rounds)
test_signal_or_atomic_release == Test("or", "release", NO_BITS, Rounds)
test_signal_or_atomic_relaxed == Test("or", "relaxed", NO_BITS, Rounds)
test_signal_or_atomic_acq_rel == Test("or", "acq_rel", NO_BITS, Rounds)
test_signal_xor_atomic_acquire == Test("xor", "acquire", NO_BITS, 1)
test_signal_xor_atomic_release == Test("xor", "release", NO_BITS, 1)
test_signal_xor_atomic_relaxed == Test("xor", "relaxed", NO_BITS, 1)
test_signal_xor_atomic_acq_rel == Test("xor", "acq_rel", NO_BITS, 1)
test_signal_exchange_atomic_acquire == Test("exchange", "acquire", NO_BITS, 1)
test_signal_exchange_atomic_release == Test("exchange", "release", NO_BITS, 1)
test_signal_exchange_atomic_relaxed == Test("exchange", "relaxed", NO_BITS, 1)
test_signal_exchange_atomic_acq_rel == Test("exchange", "acq_rel", NO_BITS, 1)
test_signal_cas_atomic_acquire == Test("cas", "acquire", 0, Rounds)
test_signal_cas_atomic_release == Test("cas", "release", 0, Rounds)
test_signal_cas_atomic_relaxed == Test("cas", "relaxed", 0, Rounds)
test_signal_cas_atomic_acq_rel == Test("cas", "acq_rel", 0, Rounds)
test_queue_write_index_add_atomic == Test("write_index_add", "all", 0, Rounds)
test_queue_write_index_cas_atomic == Test("write_index_cas", "all", 0, Rounds)

Tests ==
    {test_signal_add_atomic_acquire, test_signal_add_atomic_release,
     test_signal_add_atomic_relaxed, test_signal_add_atomic_acq_rel,
     test_signal_subtract_atomic_acquire, test_signal_subtract_atomic_release,
     test_signal_subtract_atomic_relaxed, test_signal_subtract_atomic_acq_rel,
     test_signal_and_atomic_acquire, test_signal_and_atomic_release,
     test_signal_and_atomic_relaxed, test_signal_and_atomic_acq_rel,
     test_signal_or_atomic_acquire, test_signal_or_atomic_release,
     test_signal_or_atomic_relaxed, test_signal_or_atomic_acq_rel,
     test_signal_xor_atomic_acquire, test_signal_xor_atomic_release,
     test_signal_xor_atomic_relaxed, test_signal_xor_atomic_acq_rel,
     test_signal_exchange_atomic_acquire, test_signal_exchange_atomic_release,
     test_signal_exchange_atomic_relaxed, test_signal_exchange_atomic_acq_rel,
     test_signal_cas_atomic_acquire, test_signal_cas_atomic_release,
     test_signal_cas_atomic_relaxed, test_signal_cas_atomic_acq_rel,
     test_queue_write_index_add_atomic, test_queue_write_index_cas_atomic}

ASSUME TestsAssumption ==
    /\ Operations \subseteq {p.op : p \in Tests}
    /\ Orders \subseteq {p.order : p \in Tests}

VARIABLES
    test,      \* the test that runs, one of Tests
    runtime,   \* "atomic" or "lossy"
    main,      \* "create", "loop", "wait", "end"; "refused": the queue could
               \* not be created, "failed": another ASSERT failed
    ii,        \* the main function's rounds
    value,     \* the signal, or the queue's write index
    pc,        \* the next operation of each thread
    loaded,    \* lossy runtime: <<v>> between the load of v and the store
    retval,    \* cas test: what each thread's operation returned, as <<v>>
    lost       \* history: an operation stored a result of a value long gone

vars == <<test, runtime, main, ii, value, pc, loaded, retval, lost>>

-----------------------------------------------------------------------------
(* What the threads do: the sequence of the operands of their operations.  *)

(* Shifting a value by a group.  signal_value is signed: a shift to the    *)
(* right copies its sign, bit 4 * Groups - 1, into the group that is freed.*)
ShiftLeft(m) == {b \in Bits : b - 4 \in m}

(* Mutant of ShiftRight: a shift of unsigned values. *)
ShiftRightLogical(m) == {b \in Bits : b + 4 \in m}

ShiftRight(m) ==
    {b \in Bits : b + 4 \in m}
        \cup (IF 4 * Groups - 1 \in m THEN {b \in Bits : b + 4 \notin Bits} ELSE {})

(* The masks of the and test: threads 0, 1 and 2 start with a nibble of    *)
(* the highest group cleared and shift to the right, thread 3 (whose       *)
(* nibble holds the sign) starts with the lowest group and shifts to the   *)
(* left, filling up with ones.                                             *)
AndMasks(t) ==
    LET mask[n \in 1..Groups] ==
          IF n = 1 THEN ALL_BITS \ {IF t = 3 THEN 3 ELSE 4 * (Groups - 1) + t}
          ELSE IF t = 3 THEN ShiftLeft(mask[n - 1]) \cup 0..3
          ELSE ShiftRight(mask[n - 1])
    IN  mask

(* The masks of the or test: one nibble, shifted to the left. *)
OrMasks(t) ==
    LET mask[n \in 1..Groups] == IF n = 1 THEN {t} ELSE ShiftLeft(mask[n - 1])
    IN  mask

(* The xor and exchange tests have one pattern per thread, and one loop    *)
(* per order; without a break in the switch each variant runs its own loop *)
(* and all that follow it.                                                 *)

Pattern(t) == <<NO_BITS, ALL_BITS, ALT_BITS_1, ALT_BITS_2>>[t + 1]
Loops == CASE test.order = "acquire" -> 4 [] test.order = "acq_rel" -> 3
           [] test.order = "release" -> 2 [] test.order = "relaxed" -> 1

(* The add and subtract tests count in steps of one. *)
Ones == [n \in 1..OpCount |-> 1]

(* The write index goes up to TerminationValue in turns, thread t from t   *)
(* on in steps of four.                                                    *)
Turns(t) == Cardinality({v \in 0..(TerminationValue - 1) : v % 4 = t})

Operands(t) ==
    CASE test.op \in {"add", "subtract", "write_index_add"} -> Ones
      [] test.op = "and" -> AndMasks(t)
      [] test.op = "or" -> OrMasks(t)
      [] test.op \in {"xor", "exchange"} -> [n \in 1..(Loops * OpCount) |-> Pattern(t)]
      [] test.op = "cas" -> <<t + 1>>
      [] test.op = "write_index_cas" -> [n \in 1..Turns(t) |-> t + 4 * (n - 1)]

Finished(t) == pc[t] > Len(Operands(t))
Operand(t) == Operands(t)[pc[t]]

(* The operations of the runtime: the result that v and operand a give. *)
Result(v, a) ==
    CASE test.op \in {"add", "write_index_add"} -> v + a
      [] test.op = "subtract" -> v - a
      [] test.op = "and" -> v \cap a
      [] test.op = "or" -> v \cup a
      [] test.op = "xor" -> (v \ a) \cup (a \ v)
      [] test.op = "exchange" -> a
      [] test.op = "cas" -> IF v = 0 THEN a ELSE v
      [] test.op = "write_index_cas" -> IF v = a THEN a + 1 ELSE v

(* A compare-and-swap that finds another value stores nothing. *)
Stores(v, a) == (test.op = "cas" => v = 0) /\ (test.op = "write_index_cas" => v = a)

(* Mutant of Retries: the old value is compared with the new one. *)
Retries_new(v, a) == test.op = "write_index_cas" /\ v # a + 1

(* Only the write-index test repeats its compare-and-swap until it works. *)
Retries(v, a) == test.op = "write_index_cas" /\ v # a

-----------------------------------------------------------------------------
(* What the main function expects. *)
Winners == {t \in Threads : retval[t] = <<0>>}

RoundAccepted ==
    CASE test.op \in {"add", "write_index_add"} -> value = AllOps
      [] test.op = "subtract" -> value = 0
      [] test.op = "and" -> value = NO_BITS
      [] test.op = "or" -> value = ALL_BITS
      [] test.op \in {"xor", "exchange"} -> value \in {Pattern(t) : t \in Threads}
      [] test.op = "cas" -> Cardinality(Winners) = 1 /\ \A t \in Winners : value = t + 1
      [] test.op = "write_index_cas" -> value = TerminationValue

Init ==
    /\ test \in {p \in Tests : p.op \in Operations /\ p.order \in Orders}
    /\ runtime \in {"atomic", "lossy"}
    /\ main = "create" /\ ii = 0
    /\ value = test.initial
    /\ pc = [t \in Threads |-> 1]
    /\ loaded = [t \in Threads |-> <<>>]
    /\ retval = [t \in Threads |-> <<>>]    \* 1000 in the code
    /\ lost = FALSE

(* A signal is created as asked.  The queue tests skip an agent that has no *)
(* queue.  The cas test then asks for a queue of the agent's largest size, *)
(* the add test for one whose size is the agent's number of queues.        *)
QueueTest == test.op \in {"write_index_add", "write_index_cas"}

create ==
    /\ main = "create"
    /\ \/ ~QueueTest /\ main' = "loop"
       \/ QueueTest /\ \E queue_max \in QueuesMax :
            main' = IF queue_max < 1 THEN "end"
                    ELSE IF test.op = "write_index_add" /\ queue_max \notin QueueSizes
                      THEN "refused"
                      ELSE "loop"
    /\ UNCHANGED <<test, runtime, ii, value, pc, loaded, retval, lost>>

(* A round: start and wait for all threads, check, reset.  The subtract    *)
(* test also checks the value before it starts.  Some tests reset before   *)
(* they check what they loaded, some after; a failed check ends the test.  *)
start_round ==
    /\ main = "loop" /\ ii < test.rounds
    /\ main' = IF test.op = "subtract" /\ value # test.initial THEN "failed" ELSE "wait"
    /\ pc' = [t \in Threads |-> 1]
    /\ UNCHANGED <<test, runtime, ii, value, loaded, retval, lost>>

(* Mutant of check_round: the value is not reset. *)
check_round_unreset ==
    /\ main = "wait" /\ \A t \in Threads : Finished(t)
    /\ main' = IF RoundAccepted THEN "loop" ELSE "failed"
    /\ ii' = ii + 1
    /\ UNCHANGED <<test, runtime, value, pc, loaded, retval, lost>>

check_round ==
    /\ main = "wait" /\ \A t \in Threads : Finished(t)
    /\ main' = IF RoundAccepted THEN "loop" ELSE "failed"
    /\ value' = test.initial
    /\ ii' = ii + 1
    /\ UNCHANGED <<test, runtime, pc, loaded, retval, lost>>

finish ==
    /\ main = "loop" /\ ii = test.rounds
    /\ main' = "end"
    /\ UNCHANGED <<test, runtime, ii, value, pc, loaded, retval, lost>>

-----------------------------------------------------------------------------
(* The threads. *)
Running(t) == main = "wait" /\ ~Finished(t)
Tears(t) == runtime = "lossy" /\ t \in Torn

Advance(t, v) ==
    /\ pc' = [pc EXCEPT ![t] = IF Retries(v, Operand(t)) THEN pc[t] ELSE pc[t] + 1]
    /\ retval' = IF test.op = "cas" THEN [retval EXCEPT ![t] = <<v>>] ELSE retval

operate(t) ==
    /\ Running(t) /\ ~Tears(t)
    /\ value' = Result(value, Operand(t))
    /\ Advance(t, value)
    /\ UNCHANGED <<test, runtime, main, ii, loaded, lost>>

load_part(t) ==
    /\ Running(t) /\ Tears(t) /\ loaded[t] = <<>>
    /\ IF Stores(value, Operand(t))
         THEN loaded' = [loaded EXCEPT ![t] = <<value>>] /\ UNCHANGED <<pc, retval>>
         ELSE Advance(t, value) /\ UNCHANGED loaded
    /\ UNCHANGED <<test, runtime, main, ii, value, lost>>

store_part(t) ==
    /\ Running(t) /\ Tears(t) /\ loaded[t] # <<>>
    /\ value' = Result(loaded[t][1], Operand(t))
    /\ lost' = (lost \/ loaded[t] # <<value>>)
    /\ Advance(t, loaded[t][1])
    /\ loaded' = [loaded EXCEPT ![t] = <<>>]
    /\ UNCHANGED <<test, runtime, main, ii>>

ThreadStep(t) == operate(t) \/ load_part(t) \/ store_part(t)

Stopped == main \in {"end", "refused", "failed"} /\ UNCHANGED vars

Next ==
    \/ create \/ start_round \/ check_round \/ finish
    \/ \E t \in Threads : ThreadStep(t)
    \/ Stopped

(* Threads and main function keep running; a compare-and-swap that spins   *)
(* leaves the turn to the others.                                          *)
Fairness ==
    /\ WF_vars(create \/ start_round \/ check_round \/ finish)
    /\ \A t \in Threads : WF_vars(ThreadStep(t))

Spec == Init /\ [][Next]_vars /\ Fairness

-----------------------------------------------------------------------------
BitTest == test.op \in {"and", "or", "xor", "exchange"}

TypeOK ==
    /\ test \in Tests /\ runtime \in {"atomic", "lossy"}
    /\ main \in {"create", "loop", "wait", "end", "refused", "failed"} /\ ii \in 0..test.rounds
    /\ IF BitTest THEN value \in SUBSET Bits ELSE value \in 0..(4 * OpCount + TerminationValue)
    /\ \A t \in Threads : pc[t] \in 1..(Len(Operands(t)) + 1) /\ Len(loaded[t]) <= 1
    /\ lost \in BOOLEAN

(* Soundness: no check of an atomicity test (RoundAccepted, or the value   *)
(* before a round) fails on a runtime whose operations are atomic, in any  *)
(* interleaving and in any round, the resets of the value between two      *)
(* rounds included.  A queue that is refused (test_queue_write_index_add_  *)
(* atomic.c:140) says nothing about atomicity and is not claimed.          *)
OracleSound == runtime = "atomic" => main # "failed"

(* Sensitivity: a run of the test that passes had no lost update: every    *)
(* interference between two operations leaves a value the check rejects.   *)
DetectsLostUpdates == main = "end" => ~lost

(* ... which the tests that count, that choose one winner or that give     *)
(* every thread bits of its own achieve.  The xor and exchange tests do    *)
(* not: their four patterns are closed under both operations.              *)
Sensitive == {"add", "subtract", "cas", "and", "or", "write_index_add", "write_index_cas"}
SensitiveTestsDetect == test.op \in Sensitive => DetectsLostUpdates

(* Every test comes to its verdict: the turn of the write-index test is    *)
(* always somebody's.                                                      *)
Terminates == <>(main \in {"end", "refused", "failed"})
=============================================================================
