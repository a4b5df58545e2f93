----------------------------- MODULE SignalWait -----------------------------
(***************************************************************************)
(* The tests of hsa_signal_wait_acquire and hsa_signal_wait_relaxed.       *)
(*                                                                         *)
(*   - wake-up tests: NUM_THREADS threads wait for different values of one *)
(*     signal, main changes it step by step (store, add, and, or, xor,     *)
(*     subtract, cas, exchange) and checks after each step that exactly    *)
(*     the threads up to that step are awake;                              *)
(*   - condition tests: two threads wait with one of the conditions and    *)
(*     answer in a response signal, for which main waits;                  *)
(*   - satisfied tests: main waits for a condition that holds already.     *)
(*                                                                         *)
(* A wait ends when its condition holds; a runtime may also let it end     *)
(* early.  Everything about the runtime is taken from how the tests use it.*)
(* The test group that runs some of the threads is TestGroup; here it is   *)
(* what ForkJoin promises.                                                 *)
(***************************************************************************)
EXTENDS Integers, Sequences, FiniteSets

CONSTANTS
    Tests,          \* the tests to run, each one alone
    NUM_THREADS,    \* 32 in config.h
    IntBits,        \* the width of an int, 32
    ValueBits,      \* the width of an hsa_signal_value_t, 64
    IntHalf,        \* an int is one of -IntHalf .. IntHalf - 1
    ValueHalf,      \* and a signal value one of -ValueHalf .. ValueHalf - 1
    SubtractStart   \* 512, the initial value of the subtract test

ASSUME WidthAssumption ==
    /\ IntBits \in Nat \ {0} /\ ValueBits \in Nat /\ ValueBits >= IntBits
    /\ IntHalf = 2^(IntBits - 1) /\ ValueHalf = 2^(ValueBits - 1)
ASSUME RangeAssumption ==
    /\ NUM_THREADS \in 1..IntBits
    /\ IntHalf \in Nat /\ ValueHalf \in Nat /\ IntHalf <= ValueHalf
    /\ NUM_THREADS < IntHalf
    /\ SubtractStart \in NUM_THREADS..IntHalf - 1

WakeTests == {"add", "and", "or", "subtract", "xor", "cas", "exchange", "store"}
ConditionTests == {"eq", "ne", "lt", "gte_equal", "gte_greater", "expectancy"}
SatisfiedTests == {"sat_eq", "sat_ne", "sat_lt", "sat_gte_equal", "sat_gte_greater"}

ASSUME TestsAssumption == Tests \subseteq WakeTests \cup ConditionTests \cup SatisfiedTests

VARIABLES
    test,
    value,              \* the value of each signal
    pc,                 \* of the waiting threads: "waiting", "resumed", "ended"
    flag,               \* the threads that have recorded that they are awake
    main,               \* "change", "join", "script", "returned", "failed"
    ii,                 \* main's step
    early               \* some wait ended although its condition did not hold

vars == <<test, value, pc, flag, main, ii, early>>

-----------------------------------------------------------------------------
(* Two's complement.  The tests that count (add, subtract, cas, exchange,  *)
(* store) have numbers for values, the others the sets of the bits that    *)
(* are 1.                                                                  *)
BitTests == {"and", "or", "xor"}

Wrap(v, half) == ((v + half) % (2 * half)) - half
SignExtend(bits) ==
    IF IntBits - 1 \in bits THEN bits \cup (IntBits..ValueBits - 1) ELSE bits

(* Mutants of ToInt: the int is unsigned, and it has two bits less. *)
ToInt_unsigned(op, v) ==
    IF op \in BitTests THEN v \cap (0..IntBits - 1) ELSE v % (2 * IntHalf)
ToInt_narrow(op, v) ==
    IF op \in BitTests THEN SignExtend(v \cap (0..IntBits - 1)) ELSE Wrap(v, IntHalf \div 4)

(* What is left of a value that was stored in an int. *)
ToInt(op, v) ==
    IF op \in BitTests THEN SignExtend(v \cap (0..IntBits - 1)) ELSE Wrap(v, IntHalf)

ToValue(v) == Wrap(v, ValueHalf)

(* 1 << n, an int: the last one is the sign bit. *)
Bit(n) == SignExtend({n})
OrOfBits(n) == UNION {Bit(k) : k \in 0..n}

(* ((uint64_t) -1) << n. *)
BitsFrom(n) == n..ValueBits - 1

initial_val(op) ==
    CASE op \in {"add", "cas", "store"} -> 0
      [] op \in {"or", "xor"} -> {}
      [] op = "and" -> BitsFrom(0)
      [] op = "exchange" -> -1
      [] op = "subtract" -> SubtractStart

(* The value thread t waits for; param.num is an int. *)
wakeup_val(op, t) ==
    CASE op \in {"add", "cas", "store"} -> ToInt(op, t + 1)
      [] op = "and" -> ToInt(op, BitsFrom(t))
      [] op \in {"or", "xor"} -> ToInt(op, OrOfBits(t))
      [] op = "subtract" -> ToInt(op, SubtractStart - (t + 1))
      [] op = "exchange" -> ToInt(op, t)

(* The operand of the operation that wakes thread t. *)
set_val(op, t) ==
    CASE op \in {"add", "subtract"} -> 1
      [] op \in {"cas", "store"} -> t + 1
      [] op = "and" -> BitsFrom(t)
      [] op \in {"or", "xor"} -> Bit(t)
      [] op = "exchange" -> t

(* The value the operation is expected to replace, where it returns one. *)
expect_val(op, t) == IF op = "cas" THEN t ELSE t - 1

(* hsa_signal_<op>: the value after it. *)
signal_func(op, v, t) ==
    LET operand == set_val(op, t)
    IN  CASE op = "add" -> ToValue(v + operand)
          [] op = "subtract" -> ToValue(v - operand)
          [] op = "and" -> v \cap operand
          [] op = "or" -> v \cup operand
          [] op = "xor" -> (v \ operand) \cup (operand \ v)
          [] op = "cas" -> IF v = expect_val(op, t) THEN operand ELSE v
          [] OTHER -> operand

-----------------------------------------------------------------------------
(* Mutant of Condition: the second wait of the last test is for 2. *)
Condition_overlapping ==
    [eq |-> <<"EQ", 1, 1, 2, 2>>, ne |-> <<"NE", 0, 1, 1, 2>>,
     lt |-> <<"LT", 0, -1, -1, -2>>,
     gte_equal |-> <<"GTE", 1, 1, 2, 2>>, gte_greater |-> <<"GTE", 1, 2, 2, 4>>,
     expectancy |-> <<"EQ", 1, 1, 1, 1>>]

(* The condition tests: condition, the values waited for and set. *)
Condition ==
    [eq |-> <<"EQ", 1, 1, 2, 2>>, ne |-> <<"NE", 0, 1, 1, 2>>,
     lt |-> <<"LT", 0, -1, -1, -2>>,
     gte_equal |-> <<"GTE", 1, 1, 2, 2>>, gte_greater |-> <<"GTE", 1, 2, 3, 4>>,
     expectancy |-> <<"EQ", 1, 1, 1, 1>>]

(* The satisfied tests: condition, the value set and the one compared with. *)
Satisfied ==
    [sat_eq |-> <<"EQ", 1, 1>>, sat_ne |-> <<"NE", 1, 2>>, sat_lt |-> <<"LT", 1, 2>>,
     sat_gte_equal |-> <<"GTE", 2, 2>>, sat_gte_greater |-> <<"GTE", 2, 1>>]

(* hsa_signal_condition_t. *)
Holds(condition, v, compare_value) ==
    CASE condition = "EQ" -> v = compare_value
      [] condition = "NE" -> v # compare_value
      [] condition = "LT" -> v < compare_value
      [] condition = "GTE" -> v >= compare_value

(* The signals.  Only the test of the wait states has two of each. *)
Signals == {"signal", "signal_1", "response", "response_1"}
SignalOf(t) == IF test = "expectancy" /\ t = 1 THEN "signal_1" ELSE "signal"
ResponseOf(t) == IF test = "expectancy" /\ t = 1 THEN "response_1" ELSE "response"

Threads == CASE test \in WakeTests -> 0..NUM_THREADS - 1
             [] test \in ConditionTests -> {0, 1}
             [] OTHER -> {}

(* What thread t waits for. *)
Awaited(t) ==
    IF test \in WakeTests THEN Holds("EQ", value["signal"], wakeup_val(test, t))
    ELSE Holds(Condition[test][1], value[SignalOf(t)], Condition[test][2 + 2 * t])

(* main's calls in the tests without a loop: <<"store", signal, value>> or *)
(* <<"wait", signal, condition, value>>.                                   *)
Script ==
    LET c == Condition[test]
        s == Satisfied[test]
    IN  CASE test = "expectancy" ->
               <<<<"store", "signal", c[3]>>, <<"store", "signal_1", c[5]>>,
                 <<"wait", "response", "EQ", c[3]>>, <<"wait", "response_1", "EQ", c[5]>>>>
          [] test \in ConditionTests \ {"expectancy"} ->
               <<<<"store", "signal", c[3]>>, <<"wait", "response", "EQ", c[3]>>,
                 <<"store", "signal", c[5]>>, <<"wait", "response", "EQ", c[5]>>>>
          [] test \in SatisfiedTests ->
               <<<<"store", "signal", s[2]>>, <<"store", "signal_1", s[2]>>,
                 <<"wait", "signal", s[1], s[3]>>, <<"wait", "signal_1", s[1], s[3]>>>>

-----------------------------------------------------------------------------
Init ==
    /\ test \in Tests
    /\ value = [s \in Signals |-> IF test \in WakeTests THEN initial_val(test) ELSE 0]
    /\ pc = [t \in Threads |-> "waiting"]
    /\ flag = {}
    /\ main = IF test \in WakeTests THEN "change" ELSE "script"
    /\ ii = 0
    /\ early = FALSE

(* hsa_signal_wait_*: thread t sees its condition hold. *)
resume(t) ==
    /\ pc[t] = "waiting" /\ Awaited(t)
    /\ pc' = [pc EXCEPT ![t] = "resumed"]
    /\ UNCHANGED <<test, value, flag, main, ii, early>>

(* The runtime lets thread t go on before its condition holds. *)
resume_early(t) ==
    /\ pc[t] = "waiting" /\ ~Awaited(t)
    /\ pc' = [pc EXCEPT ![t] = "resumed"]
    /\ early' = TRUE
    /\ UNCHANGED <<test, value, flag, main, ii>>

(* The rest of the thread: it records that it is awake (its flag, or one   *)
(* more in num_waked_thread) or stores its response, and ends.             *)
finish(t) ==
    /\ pc[t] = "resumed"
    /\ pc' = [pc EXCEPT ![t] = "ended"]
    /\ IF test \in WakeTests
       THEN flag' = flag \cup {t} /\ UNCHANGED value
       ELSE /\ value' = [value EXCEPT ![ResponseOf(t)] = Condition[test][3 + 2 * t]]
            /\ UNCHANGED flag
    /\ UNCHANGED <<test, main, ii, early>>

(* main of a wake-up test changes the signal; cas and exchange return the  *)
(* value they replaced, which main compares.                               *)
change_signal ==
    /\ main = "change"
    /\ value' = [value EXCEPT !["signal"] = signal_func(test, @, ii)]
    /\ main' = IF test \in {"cas", "exchange"} /\ value["signal"] # expect_val(test, ii)
               THEN "failed" ELSE "join"
    /\ UNCHANGED <<test, pc, flag, ii, early>>

(* main joins thread ii, or polls its status, and checks who is awake; the *)
(* store test counts the threads, the others compare their flags.          *)
join_and_check ==
    /\ main = "join" /\ pc[ii] = "ended"
    /\ LET awake == IF test = "store" THEN Cardinality(flag) = ii + 1 ELSE flag = 0..ii
       IN  main' = IF ~awake THEN "failed"
                   ELSE IF ii + 1 = NUM_THREADS THEN "returned" ELSE "change"
    /\ ii' = ii + 1
    /\ UNCHANGED <<test, value, pc, flag, early>>

(* main's next call in a test without a loop: a store, or a wait that ends *)
(* because its condition holds or, early, although it does not.            *)
script_store ==
    /\ main = "script" /\ ii < Len(Script) /\ Script[ii + 1][1] = "store"
    /\ value' = [value EXCEPT ![Script[ii + 1][2]] = Script[ii + 1][3]]
    /\ ii' = ii + 1
    /\ UNCHANGED <<test, pc, flag, main, early>>

script_wait ==
    /\ main = "script" /\ ii < Len(Script) /\ Script[ii + 1][1] = "wait"
    /\ Holds(Script[ii + 1][3], value[Script[ii + 1][2]], Script[ii + 1][4])
    /\ ii' = ii + 1
    /\ UNCHANGED <<test, value, pc, flag, main, early>>

script_wait_early ==
    /\ main = "script" /\ ii < Len(Script) /\ Script[ii + 1][1] = "wait"
    /\ ~Holds(Script[ii + 1][3], value[Script[ii + 1][2]], Script[ii + 1][4])
    /\ ii' = ii + 1 /\ early' = TRUE
    /\ UNCHANGED <<test, value, pc, flag, main>>

(* test_group_wait and test_group_exit, where there is a group. *)
script_end ==
    /\ main = "script" /\ ii = Len(Script)
    /\ \A t \in Threads : pc[t] = "ended"
    /\ main' = "returned"
    /\ UNCHANGED <<test, value, pc, flag, ii, early>>

Next ==
    \/ \E t \in Threads : resume(t) \/ resume_early(t) \/ finish(t)
    \/ change_signal \/ join_and_check
    \/ script_store \/ script_wait \/ script_wait_early \/ script_end

(* Threads are scheduled, and a wait whose condition goes on holding ends; *)
(* one whose condition held for a moment need not.                         *)
Fairness ==
    /\ \A t \in 0..NUM_THREADS - 1 : WF_vars(t \in Threads /\ (resume(t) \/ finish(t)))
    /\ WF_vars(change_signal) /\ WF_vars(join_and_check)
    /\ WF_vars(script_store) /\ WF_vars(script_wait) /\ WF_vars(script_end)

Spec == Init /\ [][Next]_vars /\ Fairness

-----------------------------------------------------------------------------
TypeOK ==
    /\ value \in [Signals -> IF test \in BitTests THEN SUBSET (0..ValueBits - 1)
                             ELSE -ValueHalf..ValueHalf - 1]
    /\ pc \in [Threads -> {"waiting", "resumed", "ended"}]
    /\ flag \subseteq Threads
    /\ main \in {"change", "join", "script", "returned", "failed"}
    /\ ii \in 0..NUM_THREADS + 4

(* A check of the wake-up tests fails only on a runtime that lets a wait   *)
(* end early: no change main makes meets the condition of a later thread,  *)
(* the sign bit of or and xor and the truncation of the value to an int    *)
(* (test_signal_wait_utils.c:51) included.                                 *)
OracleSound == main = "failed" => early

(* In a condition test the second thread answers only after main has seen  *)
(* the first answer; the two share one response signal and an early second *)
(* answer would be overwritten, or overwrite the first                     *)
(* (test_signal_wait_conditions.c:85).                                     *)
AnswersInOrder ==
    (test \in ConditionTests \ {"expectancy"} /\ ~early /\ pc[1] = "ended") => pc[0] = "ended" /\ ii >= 2

(* On a runtime whose waits end when, and only when, their condition holds *)
(* every test returns.                                                     *)
Returns == <>(main \in {"returned", "failed"} \/ early)
=============================================================================
