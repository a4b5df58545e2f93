-------------------------- MODULE SignalWaitProofs --------------------------
(***************************************************************************)
(* The tests of the wait functions, for any number of threads an int has   *)
(* bits for and any widths of the two types: a wake-up test fails only on  *)
(* a runtime whose waits end early, and the answers of a condition test    *)
(* come in order.                                                          *)
(*                                                                         *)
(* For the wake-up tests the argument is the value of the signal after n   *)
(* changes, in closed form, and the threads it can wake.                   *)
(***************************************************************************)
EXTENDS SignalWait, FiniteSetTheorems, TLAPS

(* The value of the signal after n changes. *)
ValueAfter(op, n) ==
    CASE op \in {"add", "cas", "store"} -> n
      [] op = "subtract" -> SubtractStart - n
      [] op = "exchange" -> n - 1
      [] op = "and" -> BitsFrom(IF n = 0 THEN 0 ELSE n - 1)
      [] op \in {"or", "xor"} -> OrOfBits(n - 1)

-----------------------------------------------------------------------------
(* What is in the range of a type is kept by a conversion to it. *)
LEMMA WrapKeeps ==
    ASSUME NEW half \in Nat, NEW v \in Int, v >= -half, v < half
    PROVE  Wrap(v, half) = v
<1> DEFINE m == 2 * half
           w == v + half
<1>1. m \in Nat /\ w \in Nat /\ w < m /\ m > 0
    OBVIOUS
<1>2. w % m = w
    <2> HIDE DEF m, w
    <2> QED BY <1>1
<1> QED BY <1>2 DEF Wrap

(* The mask of bit n is that bit alone, but for the sign bit, which brings *)
(* the upper bits of the value along.                                      *)
LEMMA BitIs ==
    ASSUME NEW n \in 0..IntBits - 1
    PROVE  /\ n \in Bit(n)
           /\ \A b \in Bit(n) : b = n \/ (b \in IntBits..ValueBits - 1 /\ n = IntBits - 1)
           /\ \A b \in Bit(n) : b \in Nat /\ (b < IntBits => b = n)
BY WidthAssumption DEF Bit, SignExtend

(* One more mask. *)
LEMMA OrOneMore ==
    ASSUME NEW n \in Nat
    PROVE  OrOfBits(n) = OrOfBits(n - 1) \cup Bit(n)
<1>1. 0..n = 0..(n - 1) \cup {n}
    OBVIOUS
<1>2. {Bit(k) : k \in 0..n} = {Bit(k) : k \in 0..(n - 1)} \cup {Bit(n)}
    BY <1>1
<1> QED BY <1>2 DEF OrOfBits

(* The masks below bit n do not meet it. *)
LEMMA OrBelow ==
    ASSUME NEW n \in 0..IntBits
    PROVE  /\ \A b \in OrOfBits(n - 1) : b \in Nat /\ (b < IntBits => b < n)
           /\ n < IntBits => OrOfBits(n - 1) \cap Bit(n) = {}
<1>1. IntBits \in Nat
    BY WidthAssumption
<1>2. ASSUME NEW b \in OrOfBits(n - 1)
      PROVE  b \in Nat /\ (b < IntBits => b < n) /\ (n < IntBits => b \notin Bit(n))
    <2>1. PICK k \in 0..(n - 1) : b \in Bit(k)
        BY DEF OrOfBits
    <2>2. k \in 0..IntBits - 1 /\ k < n
        BY <1>1
    <2>3. b \in Nat /\ (b < IntBits => b = k)
        BY <2>1, <2>2, BitIs
    <2>4. CASE n < IntBits
        <3>1. k # IntBits - 1 /\ n \in 0..IntBits - 1
            BY <1>1, <2>2, <2>4
        <3>2. b = k
            BY <2>1, <2>2, <3>1, BitIs
        <3>3. b \notin Bit(n)
            <4>1. b < IntBits /\ b # n
                BY <1>1, <2>2, <3>2
            <4> QED BY <3>1, <4>1, BitIs
        <3> QED BY <2>2, <2>3, <3>3
    <2>5. CASE ~(n < IntBits)
        BY <2>2, <2>3, <2>5
    <2> QED BY <2>4, <2>5
<1> QED BY <1>2

(* What was stored in an int and is small enough comes out unchanged; of a *)
(* set of bits at least the lower ones do.                                 *)
LEMMA ToIntKeeps ==
    /\ \A op : \A v \in Int : op \notin BitTests /\ v >= -IntHalf /\ v < IntHalf => ToInt(op, v) = v
    /\ \A op \in BitTests : \A v : \A b \in v : b \in 0..IntBits - 1 => b \in ToInt(op, v)
<1>1. IntHalf \in Nat
    BY RangeAssumption
<1> QED BY <1>1, WrapKeeps DEF ToInt, SignExtend

(* The first value is the initial one. *)
LEMMA ValueAtFirst == \A op \in WakeTests : initial_val(op) = ValueAfter(op, 0)
<1>1. OrOfBits(0 - 1) = {}
    BY DEF OrOfBits
<1> TAKE op \in WakeTests
<1>2. CASE op \in {"add", "cas", "store", "exchange", "and"}
    BY <1>2 DEF initial_val, ValueAfter
<1>3. CASE op = "subtract"
    BY <1>3, RangeAssumption DEF initial_val, ValueAfter
<1>4. CASE op \in {"or", "xor"}
    BY <1>1, <1>4 DEF initial_val, ValueAfter
<1> QED BY <1>2, <1>3, <1>4 DEF WakeTests

(* Change n + 1 turns the value after n changes into the one after n + 1,  *)
(* and cas and exchange return what they expect.                           *)
LEMMA ValueChanges ==
    ASSUME NEW op \in WakeTests, NEW n \in 0..NUM_THREADS - 1
    PROVE  /\ signal_func(op, ValueAfter(op, n), n) = ValueAfter(op, n + 1)
           /\ op \in {"cas", "exchange"} => ValueAfter(op, n) = expect_val(op, n)
<1>1. /\ NUM_THREADS \in Nat /\ IntBits \in Nat /\ NUM_THREADS <= IntBits
      /\ n \in Nat /\ n < NUM_THREADS /\ n + 1 # 0 /\ (n + 1) - 1 = n
      /\ ValueBits \in Nat /\ ValueBits >= IntBits
    BY RangeAssumption, WidthAssumption
<1>2. /\ ValueHalf \in Nat /\ n + 1 < ValueHalf
      /\ SubtractStart \in Nat /\ SubtractStart < ValueHalf /\ SubtractStart >= n + 1
    BY <1>1, RangeAssumption
<1>3. CASE op = "add"
    <2>1. Wrap(n + 1, ValueHalf) = n + 1
        BY <1>1, <1>2, WrapKeeps
    <2> QED BY <1>3, <2>1 DEF signal_func, ValueAfter, set_val, ToValue
<1>4. CASE op = "subtract"
    <2>1. /\ (SubtractStart - n) - 1 \in Int /\ (SubtractStart - n) - 1 >= -ValueHalf
          /\ (SubtractStart - n) - 1 < ValueHalf
          /\ (SubtractStart - n) - 1 = SubtractStart - (n + 1)
        BY <1>1, <1>2
    <2>2. Wrap((SubtractStart - n) - 1, ValueHalf) = (SubtractStart - n) - 1
        BY <1>2, <2>1, WrapKeeps
    <2> QED BY <1>4, <2>1, <2>2 DEF signal_func, ValueAfter, set_val, ToValue
<1>5. CASE op \in {"cas", "store"}
    BY <1>1, <1>5 DEF signal_func, ValueAfter, set_val, expect_val
<1>6. CASE op = "exchange"
    BY <1>1, <1>6 DEF signal_func, ValueAfter, set_val, expect_val
<1>7. CASE op = "and"
    <2>1. BitsFrom(IF n = 0 THEN 0 ELSE n - 1) \cap BitsFrom(n) = BitsFrom(n)
        BY <1>1 DEF BitsFrom
    <2>2. ValueAfter(op, n + 1) = BitsFrom(n)
        BY <1>1, <1>7 DEF ValueAfter
    <2>3. signal_func(op, ValueAfter(op, n), n) = ValueAfter(op, n) \cap BitsFrom(n)
        BY <1>7 DEF signal_func, set_val
    <2>4. ValueAfter(op, n) = BitsFrom(IF n = 0 THEN 0 ELSE n - 1)
        BY <1>7 DEF ValueAfter
    <2> QED BY <1>7, <2>1, <2>2, <2>3, <2>4
<1>8. CASE op \in {"or", "xor"}
    <2>1. ValueAfter(op, n) = OrOfBits(n - 1) /\ ValueAfter(op, n + 1) = OrOfBits(n)
        BY <1>1, <1>8 DEF ValueAfter
    <2>2. OrOfBits(n) = OrOfBits(n - 1) \cup Bit(n)
        BY <1>1, OrOneMore
    <2>3. OrOfBits(n - 1) \cap Bit(n) = {}
        BY <1>1, OrBelow
    <2>4. CASE op = "or"
        BY <2>1, <2>2, <2>4 DEF signal_func, set_val
    <2>5. CASE op = "xor"
        <3>1. signal_func(op, OrOfBits(n - 1), n)
                = (OrOfBits(n - 1) \ Bit(n)) \cup (Bit(n) \ OrOfBits(n - 1))
            BY <2>5 DEF signal_func, set_val
        <3>2. (OrOfBits(n - 1) \ Bit(n)) \cup (Bit(n) \ OrOfBits(n - 1))
                = OrOfBits(n - 1) \cup Bit(n)
            BY <2>3
        <3> QED BY <2>1, <2>2, <2>5, <3>1, <3>2
    <2> QED BY <1>8, <2>4, <2>5
<1> QED BY <1>3, <1>4, <1>5, <1>6, <1>7, <1>8 DEF WakeTests

(* The value after n changes wakes none of the threads from n on, except   *)
(* the first one, which the initial value of the and test wakes.           *)
LEMMA WakesInOrder ==
    ASSUME NEW op \in WakeTests, NEW t \in 0..NUM_THREADS - 1, NEW n \in 0..NUM_THREADS,
           wakeup_val(op, t) = ValueAfter(op, n)
    PROVE  t < n \/ t = 0
<1>1. /\ NUM_THREADS \in Nat /\ IntBits \in Nat \ {0} /\ NUM_THREADS <= IntBits
      /\ t \in Nat /\ t < NUM_THREADS /\ n \in Nat /\ n <= NUM_THREADS
      /\ ValueBits \in Nat /\ ValueBits >= IntBits
      /\ t \in 0..IntBits - 1
    BY RangeAssumption, WidthAssumption
<1>2. /\ IntHalf \in Nat /\ t + 1 < IntHalf
      /\ SubtractStart \in Nat /\ SubtractStart < IntHalf /\ SubtractStart >= t + 1
    BY <1>1, RangeAssumption
<1>3. CASE op \in {"add", "cas", "store"}
    <2>1. op \notin BitTests
        BY <1>3 DEF BitTests
    <2>2. ToInt(op, t + 1) = t + 1
        BY <1>1, <1>2, <2>1, ToIntKeeps
    <2> QED BY <1>1, <1>3, <2>2 DEF wakeup_val, ValueAfter
<1>4. CASE op = "subtract"
    <2>1. op \notin BitTests
        BY <1>4 DEF BitTests
    <2>2. ToInt(op, SubtractStart - (t + 1)) = SubtractStart - (t + 1)
        BY <1>1, <1>2, <2>1, ToIntKeeps
    <2> QED BY <1>1, <1>2, <1>4, <2>2 DEF wakeup_val, ValueAfter
<1>5. CASE op = "exchange"
    <2>1. op \notin BitTests
        BY <1>5 DEF BitTests
    <2>2. ToInt(op, t) = t
        BY <1>1, <1>2, <2>1, ToIntKeeps
    <2> QED BY <1>1, <1>5, <2>2 DEF wakeup_val, ValueAfter
<1>6. CASE op = "and"
    <2> DEFINE m == IF n = 0 THEN 0 ELSE n - 1
    <2>1. ToInt(op, BitsFrom(t)) = BitsFrom(m)
        BY <1>6 DEF wakeup_val, ValueAfter
    <2>2. m \in BitsFrom(m) /\ m \in 0..IntBits - 1
        BY <1>1 DEF BitsFrom
    <2>3. m >= t
        <3>1. m \in SignExtend(BitsFrom(t) \cap (0..IntBits - 1))
            BY <1>6, <2>1, <2>2 DEF ToInt, BitTests
        <3>2. m \in BitsFrom(t)
            BY <1>1, <2>2, <3>1 DEF SignExtend
        <3> QED BY <1>1, <3>2 DEF BitsFrom
    <2> QED BY <1>1, <2>3
<1>7. CASE op \in {"or", "xor"}
    <2>1. ToInt(op, OrOfBits(t)) = OrOfBits(n - 1)
        BY <1>7 DEF wakeup_val, ValueAfter
    <2>2. t \in OrOfBits(t)
        BY <1>1, BitIs DEF OrOfBits
    <2>3. t \in ToInt(op, OrOfBits(t))
        <3>1. op \in BitTests
            BY <1>7 DEF BitTests
        <3> QED BY <1>1, <2>2, <3>1, ToIntKeeps
    <2>4. t < n
        BY <1>1, <2>1, <2>3, OrBelow
    <2> QED BY <2>4
<1> QED BY <1>3, <1>4, <1>5, <1>6, <1>7 DEF WakeTests

-----------------------------------------------------------------------------
(* The wake-up tests. *)
Changes == IF main = "join" THEN ii + 1 ELSE ii

(* On a runtime whose waits do not end early: the signal has the value of  *)
(* the changes made so far, no thread is awake whose change is still to    *)
(* come (but for the first one), those that were joined have ended, and    *)
(* exactly those that have ended have said so.                             *)
WakeInv ==
    (test \in WakeTests /\ ~early) =>
        /\ main \in {"change", "join", "returned"}
        /\ ii \in 0..NUM_THREADS
        /\ main \in {"change", "join"} => ii < NUM_THREADS
        /\ value["signal"] = ValueAfter(test, Changes)
        /\ \A t \in Threads : pc[t] # "waiting" => t < Changes \/ t = 0
        /\ \A t \in Threads : t < ii => pc[t] = "ended"
        /\ flag = {t \in Threads : pc[t] = "ended"}

(* What a test consists of. *)
ShapeInv ==
    /\ test \in WakeTests \cup ConditionTests \cup SatisfiedTests
    /\ early \in BOOLEAN
    /\ DOMAIN value = Signals /\ "signal" \in Signals /\ "response" \in Signals
    /\ pc \in [Threads -> {"waiting", "resumed", "ended"}]
    /\ test \notin WakeTests => main \in {"script", "returned"}

(* The threads of a test. *)
LEMMA ThreadsAre ==
    /\ test \in WakeTests => Threads = 0..NUM_THREADS - 1
    /\ test \in ConditionTests => Threads = {0, 1}
    /\ test \in SatisfiedTests => Threads = {}
    /\ WakeTests \cap ConditionTests = {} /\ WakeTests \cap SatisfiedTests = {}
    /\ ConditionTests \cap SatisfiedTests = {}
<1>1. /\ WakeTests \cap ConditionTests = {} /\ WakeTests \cap SatisfiedTests = {}
      /\ ConditionTests \cap SatisfiedTests = {}
    BY DEF WakeTests, ConditionTests, SatisfiedTests
<1> QED BY <1>1 DEF Threads

(* Every test starts in its shape, with the signal's first value. *)
LEMMA InitWake == Init => ShapeInv /\ WakeInv
<1> SUFFICES ASSUME Init PROVE ShapeInv /\ WakeInv
    OBVIOUS
<1>1. ShapeInv
    BY TestsAssumption DEF Init, ShapeInv, Signals
<1>2. ASSUME test \in WakeTests PROVE WakeInv
    <2>1. /\ main = "change" /\ ii = 0 /\ Changes = 0 /\ flag = {}
          /\ \A t \in Threads : pc[t] = "waiting"
          /\ value["signal"] = initial_val(test)
        BY <1>2 DEF Init, Changes, Signals
    <2>2. value["signal"] = ValueAfter(test, Changes)
        BY <1>2, <2>1, ValueAtFirst
    <2>3. 0 \in 0..NUM_THREADS /\ 0 < NUM_THREADS
        BY RangeAssumption
    <2>4. \A t \in Threads : ~(t < 0)
        BY <1>2, ThreadsAre, RangeAssumption
    <2> QED BY <2>1, <2>2, <2>3, <2>4 DEF WakeInv
<1> QED BY <1>1, <1>2 DEF WakeInv

(* The shape of a test does not change. *)
LEMMA NextShape == ShapeInv /\ [Next]_vars => ShapeInv'
<1> SUFFICES ASSUME ShapeInv, [Next]_vars PROVE ShapeInv'
    OBVIOUS
<1> USE DEF ShapeInv
<1>1. ASSUME NEW t \in Threads, resume(t) \/ resume_early(t) \/ finish(t) PROVE ShapeInv'
    <2>1. UNCHANGED <<test, main>> /\ Threads' = Threads
        BY <1>1 DEF resume, resume_early, finish, Threads
    <2>2. pc' \in [Threads -> {"waiting", "resumed", "ended"}] /\ early' \in BOOLEAN
        BY <1>1 DEF resume, resume_early, finish
    <2>3. DOMAIN value' = Signals
        BY <1>1 DEF resume, resume_early, finish
    <2> QED BY <2>1, <2>2, <2>3
<1>2. CASE change_signal
    BY <1>2 DEF change_signal, Threads
<1>3. CASE join_and_check
    BY <1>3 DEF join_and_check, Threads
<1>4. CASE script_store
    BY <1>4 DEF script_store, Threads
<1>5. CASE script_wait
    BY <1>5 DEF script_wait, Threads
<1>6. CASE script_wait_early
    BY <1>6 DEF script_wait_early, Threads
<1>7. CASE script_end
    BY <1>7 DEF script_end, Threads
<1>8. CASE UNCHANGED vars
    BY <1>8 DEF vars, Threads
<1> QED BY <1>1, <1>2, <1>3, <1>4, <1>5, <1>6, <1>7, <1>8 DEF Next

(* A thread that wakes is one whose change was made, and one that ends     *)
(* says so.                                                                *)
LEMMA ThreadWake ==
    ASSUME ShapeInv, WakeInv, test \in WakeTests, ~early',
           NEW s \in Threads, resume(s) \/ resume_early(s) \/ finish(s)
    PROVE  WakeInv'
<1>1. resume(s) \/ finish(s)
    BY DEF resume_early
<1>2. ~early /\ UNCHANGED <<test, main, ii>> /\ Changes' = Changes /\ Threads' = Threads
    BY <1>1 DEF resume, finish, Changes, Threads, ShapeInv
<1>3. /\ main \in {"change", "join", "returned"} /\ ii \in 0..NUM_THREADS
      /\ main \in {"change", "join"} => ii < NUM_THREADS
      /\ value["signal"] = ValueAfter(test, Changes)
      /\ \A t \in Threads : pc[t] # "waiting" => t < Changes \/ t = 0
      /\ \A t \in Threads : t < ii => pc[t] = "ended"
      /\ flag = {t \in Threads : pc[t] = "ended"}
    BY <1>2 DEF WakeInv
<1>4. Threads = 0..NUM_THREADS - 1 /\ NUM_THREADS \in Nat
    BY ThreadsAre, RangeAssumption
<1>5. Changes \in 0..NUM_THREADS
    BY <1>3, <1>4 DEF Changes
<1>6. CASE resume(s)
    <2>1. pc[s] = "waiting" /\ pc' = [pc EXCEPT ![s] = "resumed"] /\ UNCHANGED <<value, flag>>
        BY <1>6 DEF resume
    <2>2. wakeup_val(test, s) = ValueAfter(test, Changes)
        BY <1>3, <1>6 DEF resume, Awaited, Holds
    <2>3. s < Changes \/ s = 0
        BY <1>4, <1>5, <2>2, WakesInOrder
    <2>4. /\ \A t \in Threads : pc'[t] # "waiting" => t < Changes \/ t = 0
          /\ \A t \in Threads : t < ii => pc'[t] = "ended"
          /\ flag = {t \in Threads : pc'[t] = "ended"}
        BY <1>3, <2>1, <2>3 DEF ShapeInv
    <2> QED BY <1>2, <1>3, <2>1, <2>4 DEF WakeInv
<1>7. CASE finish(s)
    <2>1. /\ pc[s] = "resumed" /\ pc' = [pc EXCEPT ![s] = "ended"]
          /\ flag' = flag \cup {s} /\ UNCHANGED value
        BY <1>7 DEF finish
    <2>2. /\ \A t \in Threads : pc'[t] # "waiting" => t < Changes \/ t = 0
          /\ \A t \in Threads : t < ii => pc'[t] = "ended"
          /\ flag' = {t \in Threads : pc'[t] = "ended"}
        BY <1>3, <2>1 DEF ShapeInv
    <2> QED BY <1>2, <1>3, <2>1, <2>2 DEF WakeInv
<1> QED BY <1>1, <1>6, <1>7

(* The change main makes gives the signal its next value, and replaces the *)
(* value that is expected.                                                 *)
LEMMA ChangeWake ==
    ASSUME ShapeInv, WakeInv, test \in WakeTests, ~early', change_signal
    PROVE  WakeInv'
<1>1. /\ ~early /\ main = "change" /\ UNCHANGED <<test, pc, flag, ii>>
      /\ value' = [value EXCEPT !["signal"] = signal_func(test, @, ii)]
      /\ Threads' = Threads
    BY DEF change_signal, Threads
<1>2. /\ ii \in 0..NUM_THREADS /\ ii < NUM_THREADS
      /\ value["signal"] = ValueAfter(test, ii)
      /\ \A t \in Threads : pc[t] # "waiting" => t < ii \/ t = 0
      /\ \A t \in Threads : t < ii => pc[t] = "ended"
      /\ flag = {t \in Threads : pc[t] = "ended"}
    BY <1>1 DEF WakeInv, Changes
<1>3. NUM_THREADS \in Nat /\ ii \in 0..NUM_THREADS - 1
    BY <1>2, RangeAssumption
<1>4. /\ signal_func(test, ValueAfter(test, ii), ii) = ValueAfter(test, ii + 1)
      /\ test \in {"cas", "exchange"} => ValueAfter(test, ii) = expect_val(test, ii)
    BY <1>3, ValueChanges
<1>5. main' = "join"
    BY <1>2, <1>4 DEF change_signal
<1>6. Changes' = ii + 1
    BY <1>1, <1>5 DEF Changes
<1>7. value'["signal"] = ValueAfter(test, ii + 1)
    BY <1>1, <1>2, <1>4 DEF ShapeInv
<1>8. \A t \in Threads : pc[t] # "waiting" => t < ii + 1 \/ t = 0
    BY <1>2, <1>3, ThreadsAre
<1> QED BY <1>1, <1>2, <1>5, <1>6, <1>7, <1>8 DEF WakeInv

(* main finds exactly the threads awake that it expects. *)
LEMMA JoinWake ==
    ASSUME ShapeInv, WakeInv, test \in WakeTests, ~early', join_and_check
    PROVE  WakeInv'
<1>1. /\ ~early /\ main = "join" /\ pc[ii] = "ended" /\ UNCHANGED <<test, pc, flag, value>>
      /\ ii' = ii + 1 /\ Threads' = Threads
    BY DEF join_and_check, Threads
<1>2. /\ ii \in 0..NUM_THREADS /\ ii < NUM_THREADS
      /\ value["signal"] = ValueAfter(test, ii + 1)
      /\ \A t \in Threads : pc[t] # "waiting" => t < ii + 1 \/ t = 0
      /\ \A t \in Threads : t < ii => pc[t] = "ended"
      /\ flag = {t \in Threads : pc[t] = "ended"}
    BY <1>1 DEF WakeInv, Changes
<1>3. NUM_THREADS \in Nat /\ ii \in Nat /\ Threads = 0..NUM_THREADS - 1
    BY <1>2, ThreadsAre, RangeAssumption
<1>4. flag = 0..ii
    BY <1>1, <1>2, <1>3
<1>5. Cardinality(flag) = ii + 1
    <2>1. 0 \in Int /\ ii \in Int /\ ~(0 > ii) /\ (ii - 0) + 1 = ii + 1
        BY <1>3
    <2> QED BY ONLY <1>4, <2>1, FS_Interval
<1>6. main' = IF ii + 1 = NUM_THREADS THEN "returned" ELSE "change"
    BY <1>4, <1>5 DEF join_and_check
<1>7. Changes' = ii + 1
    BY <1>1, <1>6 DEF Changes
<1>8. \A t \in Threads : t < ii + 1 => pc[t] = "ended"
    BY <1>1, <1>2, <1>3
<1>9. ii' \in 0..NUM_THREADS /\ (main' = "change" => ii' < NUM_THREADS)
    BY <1>1, <1>2, <1>3, <1>6
<1> QED BY <1>1, <1>2, <1>6, <1>7, <1>8, <1>9 DEF WakeInv

(* Every step of a wake-up test keeps main and the threads in step. *)
LEMMA NextWake == ShapeInv /\ WakeInv /\ [Next]_vars => WakeInv'
<1> SUFFICES ASSUME ShapeInv, WakeInv, [Next]_vars, test' \in WakeTests, ~early' PROVE WakeInv'
    BY DEF WakeInv
<1>1. ASSUME NEW t \in Threads, resume(t) \/ resume_early(t) \/ finish(t) PROVE WakeInv'
    <2>1. test \in WakeTests
        BY <1>1 DEF resume, resume_early, finish
    <2> QED BY <1>1, <2>1, ThreadWake
<1>2. CASE change_signal
    <2>1. test \in WakeTests
        BY <1>2 DEF change_signal
    <2> QED BY <1>2, <2>1, ChangeWake
<1>3. CASE join_and_check
    <2>1. test \in WakeTests
        BY <1>3 DEF join_and_check
    <2> QED BY <1>3, <2>1, JoinWake
<1>4. CASE script_store \/ script_wait \/ script_wait_early \/ script_end
    <2>1. main = "script" /\ test \in WakeTests /\ ~early
        BY <1>4 DEF script_store, script_wait, script_wait_early, script_end, ShapeInv
    <2> QED BY <2>1 DEF WakeInv
<1>5. CASE UNCHANGED vars
    BY <1>5 DEF vars, WakeInv, Changes, Threads
<1> QED BY <1>1, <1>2, <1>3, <1>4, <1>5 DEF Next

(* A wake-up test fails only on a runtime that lets a wait end early, for  *)
(* any number of threads up to the width of an int: whatever the order in  *)
(* which the threads wake and say so.                                      *)
THEOREM OracleIsSound == Spec => []OracleSound
<1>1. ShapeInv /\ WakeInv => OracleSound
    BY DEF ShapeInv, WakeInv, OracleSound
<1> QED BY <1>1, InitWake, NextShape, NextWake, PTL DEF Spec

-----------------------------------------------------------------------------
(* The condition tests whose threads share their signals, without the one  *)
(* of NE, whose second condition holds from the start.                     *)
OrderedTests == ConditionTests \ {"expectancy", "ne"}

(* On a runtime whose waits do not end early: the signal has the value of  *)
(* main's last store, the second thread sleeps until the second store, and *)
(* that comes after the first answer, before which there is none.          *)
OrderInv ==
    (test \in OrderedTests /\ ~early) =>
        /\ ii \in 0..4
        /\ value["signal"] = IF ii = 0 THEN 0
                             ELSE IF ii < 3 THEN Condition[test][3] ELSE Condition[test][5]
        /\ pc[1] # "waiting" => ii >= 3
        /\ ii >= 2 => pc[0] = "ended"
        /\ pc[0] # "ended" => value["response"] = 0

(* The values of these tests: the second condition holds neither at first  *)
(* nor after the first store, and the two answers differ from each other   *)
(* and from the initial value of the response.                             *)
LEMMA ConditionsApart ==
    ASSUME NEW name \in OrderedTests
    PROVE  /\ Condition[name][3] # 0
           /\ ~Holds(Condition[name][1], 0, Condition[name][4])
           /\ ~Holds(Condition[name][1], Condition[name][3], Condition[name][4])
<1>1. CASE name = "eq"
    BY <1>1 DEF Condition, Holds
<1>2. CASE name = "lt"
    BY <1>2 DEF Condition, Holds
<1>3. CASE name = "gte_equal"
    BY <1>3 DEF Condition, Holds
<1>4. CASE name = "gte_greater"
    BY <1>4 DEF Condition, Holds
<1> QED BY <1>1, <1>2, <1>3, <1>4 DEF OrderedTests, ConditionTests

(* main's calls in these tests. *)
LEMMA ScriptIs ==
    ASSUME test \in OrderedTests
    PROVE  /\ Len(Script) = 4
           /\ Script[1][1] = "store" /\ Script[1][2] = "signal" /\ Script[1][3] = Condition[test][3]
           /\ Script[2][1] = "wait" /\ Script[2][2] = "response"
           /\ Script[2][3] = "EQ" /\ Script[2][4] = Condition[test][3]
           /\ Script[3][1] = "store" /\ Script[3][2] = "signal" /\ Script[3][3] = Condition[test][5]
           /\ Script[4][1] = "wait"
<1>1. test \in ConditionTests /\ test # "expectancy"
    BY DEF OrderedTests
<1> DEFINE c == Condition[test]
           one == <<"store", "signal", c[3]>>
           two == <<"wait", "response", "EQ", c[3]>>
           three == <<"store", "signal", c[5]>>
           four == <<"wait", "response", "EQ", c[5]>>
<1>2. Script = <<one, two, three, four>>
    BY <1>1, ThreadsAre DEF Script
<1>3. /\ one[1] = "store" /\ one[2] = "signal" /\ one[3] = c[3]
      /\ two[1] = "wait" /\ two[2] = "response" /\ two[3] = "EQ" /\ two[4] = c[3]
      /\ three[1] = "store" /\ three[2] = "signal" /\ three[3] = c[5] /\ four[1] = "wait"
    OBVIOUS
<1> HIDE DEF one, two, three, four
<1>4. /\ Len(Script) = 4 /\ Script[1] = one /\ Script[2] = two
      /\ Script[3] = three /\ Script[4] = four
    BY <1>2
<1> QED BY <1>3, <1>4

(* Nobody has answered in the beginning. *)
LEMMA InitOrder == Init => OrderInv
<1> SUFFICES ASSUME Init, test \in OrderedTests PROVE OrderInv
    BY DEF OrderInv
<1>1. test \in ConditionTests /\ test \notin WakeTests
    BY ThreadsAre DEF OrderedTests
<1>2. ii = 0 /\ value["signal"] = 0 /\ value["response"] = 0
    BY <1>1 DEF Init, Signals
<1>3. pc[1] = "waiting"
    BY <1>1, ThreadsAre DEF Init
<1> QED BY <1>2, <1>3 DEF OrderInv

(* The steps of the two threads. *)
LEMMA ThreadOrder ==
    ASSUME ShapeInv, OrderInv, test \in OrderedTests, ~early',
           NEW s \in Threads, resume(s) \/ resume_early(s) \/ finish(s)
    PROVE  OrderInv'
<1>1. resume(s) \/ finish(s)
    BY DEF resume_early
<1>2. ~early /\ UNCHANGED <<test, ii>>
    BY <1>1 DEF resume, finish, ShapeInv
<1>3. /\ ii \in 0..4
      /\ value["signal"] = IF ii = 0 THEN 0
                           ELSE IF ii < 3 THEN Condition[test][3] ELSE Condition[test][5]
      /\ pc[1] # "waiting" => ii >= 3
      /\ ii >= 2 => pc[0] = "ended"
      /\ pc[0] # "ended" => value["response"] = 0
    BY <1>2 DEF OrderInv
<1>4. test \in ConditionTests /\ test \notin WakeTests /\ test # "expectancy"
    BY ThreadsAre DEF OrderedTests
<1>5. Threads = {0, 1} /\ pc \in [{0, 1} -> {"waiting", "resumed", "ended"}] /\ s \in {0, 1}
    BY <1>4, ThreadsAre DEF ShapeInv
<1>6. CASE resume(s)
    <2>1. pc[s] = "waiting" /\ pc' = [pc EXCEPT ![s] = "resumed"] /\ UNCHANGED value
        BY <1>6 DEF resume
    <2>2. CASE s = 0
        <3>1. pc'[0] = "resumed" /\ pc'[1] = pc[1] /\ pc[0] # "ended"
            BY <1>5, <2>1, <2>2
        <3> QED BY <1>2, <1>3, <2>1, <3>1 DEF OrderInv
    <2>3. CASE s = 1
        <3>1. pc'[0] = pc[0] /\ pc'[1] = "resumed"
            BY <1>5, <2>1, <2>3
        <3>2. Holds(Condition[test][1], value["signal"], Condition[test][4])
            <4>1. Awaited(1) /\ 2 + 2 * 1 = 4
                BY <1>6, <2>3 DEF resume
            <4>2. SignalOf(1) = "signal"
                BY <1>4 DEF SignalOf
            <4> QED BY <1>4, <4>1, <4>2 DEF Awaited
        <3>3. ii >= 3
            BY <1>3, <3>2, ConditionsApart
        <3> QED BY <1>2, <1>3, <2>1, <3>1, <3>3 DEF OrderInv
    <2> QED BY <1>5, <2>2, <2>3
<1>7. CASE finish(s)
    <2>1. /\ pc[s] = "resumed" /\ pc' = [pc EXCEPT ![s] = "ended"]
          /\ value' = [value EXCEPT !["response"] = Condition[test][3 + 2 * s]]
        BY <1>4, <1>7 DEF finish, ResponseOf
    <2>2. value'["signal"] = value["signal"]
        BY <2>1 DEF ShapeInv
    <2>3. CASE s = 0
        <3>1. pc'[0] = "ended" /\ pc'[1] = pc[1]
            BY <1>5, <2>1, <2>3
        <3> QED BY <1>2, <1>3, <2>2, <3>1 DEF OrderInv
    <2>4. CASE s = 1
        <3>1. pc'[0] = pc[0] /\ pc[1] # "waiting"
            BY <1>5, <2>1, <2>4
        <3> QED BY <1>2, <1>3, <2>2, <3>1 DEF OrderInv
    <2> QED BY <1>5, <2>3, <2>4
<1> QED BY <1>1, <1>6, <1>7

(* main's calls: it goes on to the second store only when it has seen the  *)
(* first answer.                                                           *)
LEMMA ScriptOrder ==
    ASSUME ShapeInv, OrderInv, test \in OrderedTests, ~early',
           script_store \/ script_wait \/ script_wait_early
    PROVE  OrderInv'
<1>1. script_store \/ script_wait
    BY DEF script_wait_early
<1>2. ~early /\ UNCHANGED <<test, pc>> /\ ii' = ii + 1
    BY <1>1 DEF script_store, script_wait, ShapeInv
<1>3. /\ ii \in 0..4
      /\ value["signal"] = IF ii = 0 THEN 0
                           ELSE IF ii < 3 THEN Condition[test][3] ELSE Condition[test][5]
      /\ pc[1] # "waiting" => ii >= 3
      /\ ii >= 2 => pc[0] = "ended"
      /\ pc[0] # "ended" => value["response"] = 0
    BY <1>2 DEF OrderInv
<1>4. ii < 4
    BY <1>1, ScriptIs DEF script_store, script_wait
<1>5. CASE ii = 0
    <2>1. value' = [value EXCEPT !["signal"] = Condition[test][3]]
        BY <1>1, <1>5, ScriptIs DEF script_store, script_wait
    <2>2. value'["signal"] = Condition[test][3] /\ value'["response"] = value["response"]
        BY <2>1 DEF ShapeInv
    <2> QED BY <1>2, <1>3, <1>5, <2>2 DEF OrderInv
<1>6. CASE ii = 1
    <2>1. UNCHANGED value /\ Holds("EQ", value["response"], Condition[test][3])
        BY <1>1, <1>6, ScriptIs DEF script_store, script_wait
    <2>2. pc[0] = "ended"
        BY <1>3, <2>1, ConditionsApart DEF Holds
    <2> QED BY <1>2, <1>3, <1>6, <2>1, <2>2 DEF OrderInv
<1>7. CASE ii = 2
    <2>1. value' = [value EXCEPT !["signal"] = Condition[test][5]]
        BY <1>1, <1>7, ScriptIs DEF script_store, script_wait
    <2>2. value'["signal"] = Condition[test][5] /\ value'["response"] = value["response"]
        BY <2>1 DEF ShapeInv
    <2> QED BY <1>2, <1>3, <1>7, <2>2 DEF OrderInv
<1>8. CASE ii = 3
    <2>1. UNCHANGED value
        BY <1>1, <1>8, ScriptIs DEF script_store, script_wait
    <2> QED BY <1>2, <1>3, <1>8, <2>1 DEF OrderInv
<1> QED BY <1>3, <1>4, <1>5, <1>6, <1>7, <1>8

(* Every step of a condition test keeps the answers in order. *)
LEMMA NextOrder == ShapeInv /\ OrderInv /\ [Next]_vars => OrderInv'
<1> SUFFICES ASSUME ShapeInv, OrderInv, [Next]_vars, test' \in OrderedTests, ~early'
             PROVE  OrderInv'
    BY DEF OrderInv
<1>1. ASSUME NEW t \in Threads, resume(t) \/ resume_early(t) \/ finish(t) PROVE OrderInv'
    <2>1. test \in OrderedTests
        BY <1>1 DEF resume, resume_early, finish
    <2> QED BY <1>1, <2>1, ThreadOrder
<1>2. CASE change_signal \/ join_and_check
    <2>1. test \in OrderedTests /\ main \in {"change", "join"}
        BY <1>2 DEF change_signal, join_and_check
    <2>2. test \notin WakeTests
        BY <2>1, ThreadsAre DEF OrderedTests
    <2> QED BY <2>1, <2>2 DEF ShapeInv
<1>3. CASE script_store \/ script_wait \/ script_wait_early
    <2>1. test \in OrderedTests
        BY <1>3 DEF script_store, script_wait, script_wait_early
    <2> QED BY <1>3, <2>1, ScriptOrder
<1>4. CASE script_end
    BY <1>4 DEF script_end, OrderInv
<1>5. CASE UNCHANGED vars
    BY <1>5 DEF vars, OrderInv
<1> QED BY <1>1, <1>2, <1>3, <1>4, <1>5 DEF Next

(* The test that runs is one of the chosen ones. *)
LEMMA TestIsChosen ==
    /\ Init => test \in Tests
    /\ test \in Tests /\ [Next]_vars => test' \in Tests
<1>1. [Next]_vars => test' = test
    BY DEF Next, vars, resume, resume_early, finish, change_signal, join_and_check,
           script_store, script_wait, script_wait_early, script_end
<1> QED BY <1>1 DEF Init

(* Without the test of NE, whose second condition holds from the start,    *)
(* the second thread of a condition test answers only after main has seen  *)
(* the first answer, on every runtime whose waits do not end early.        *)
THEOREM AnswersComeInOrder ==
    ASSUME "ne" \notin Tests
    PROVE  Spec => []AnswersInOrder
<1>1. ShapeInv /\ OrderInv /\ test \in Tests => AnswersInOrder
    <2> SUFFICES ASSUME OrderInv, test \in ConditionTests \ {"expectancy"}, test \in Tests,
                        ~early, pc[1] = "ended"
                 PROVE  pc[0] = "ended" /\ ii >= 2
        BY DEF AnswersInOrder
    <2>1. test \in OrderedTests
        BY DEF OrderedTests
    <2> QED BY <2>1 DEF OrderInv
<1>2. Init => ShapeInv /\ OrderInv /\ test \in Tests
    BY InitWake, InitOrder, TestIsChosen
<1>3. ShapeInv /\ OrderInv /\ test \in Tests /\ [Next]_vars
        => (ShapeInv /\ OrderInv /\ test \in Tests)'
    BY NextShape, NextOrder, TestIsChosen
<1> QED BY <1>1, <1>2, <1>3, PTL DEF Spec
=============================================================================
