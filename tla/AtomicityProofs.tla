-------------------------- MODULE AtomicityProofs --------------------------
(***************************************************************************)
(* The atomicity tests for any number of operations, rounds, groups of     *)
(* bits and turns, and for any threads whose operations the lossy runtime  *)
(* tears apart: none fails on an atomic runtime, and those that can notice *)
(* a lost update do.                                                       *)
(*                                                                         *)
(* The argument is the same for all tests that notice: the operations done *)
(* so far determine what the value ought to be, every value seen is at     *)
(* most that, and it falls short exactly when an update was lost.  Each    *)
(* operation moves the ideal value on, so that what a torn operation has   *)
(* loaded is behind for ever once another operation comes between.         *)
(***************************************************************************)
EXTENDS AtomicityTests, FunctionTheorems, FiniteSetTheorems, WellFoundedInduction, TLAPS

(* The bit that operation n of thread t clears or sets. *)
AndBit(t, n) == IF t = 3 THEN 4 * n - 1 ELSE 4 * (Groups - n) + t
OrBit(t, n) == 4 * (n - 1) + t

(***************************************************************************)
(* The inductive invariant.                                                *)
(***************************************************************************)
Counting == test.op \in {"add", "subtract", "write_index_add"}
Marking == test.op \in {"and", "or"}
Patterned == test.op \in {"xor", "exchange"}

(* How many operations a value counts, and how many are done. *)
Counted(v) == IF test.op = "subtract" THEN AllOps - v ELSE v
Total == (pc[0] - 1) + (pc[1] - 1) + (pc[2] - 1) + (pc[3] - 1)

(* A value has counted at most the operations that are done, all of them   *)
(* unless one was lost; what a torn operation loaded is up to date only if *)
(* it is the value.                                                        *)
CountInv ==
    /\ value \in Int /\ Counted(value) <= Total
    /\ lost <=> Counted(value) # Total
    /\ \A t \in Threads : loaded[t] # <<>> =>
         /\ loaded[t][1] \in Int /\ Counted(loaded[t][1]) <= Total
         /\ Counted(loaded[t][1]) = Total => loaded[t][1] = value

(* The same with the bits that the operations mark. *)
Mark(t, n) == IF test.op = "and" THEN AndBit(t, n) ELSE OrBit(t, n)
Marks(v) == IF test.op = "and" THEN ALL_BITS \ v ELSE v
Marked == {b \in Bits : \E t \in Threads : \E n \in 1..Groups : n < pc[t] /\ b = Mark(t, n)}

MarkInv ==
    /\ value \in SUBSET Bits /\ Marks(value) \subseteq Marked
    /\ lost <=> Marks(value) # Marked
    /\ \A t \in Threads : loaded[t] # <<>> =>
         /\ loaded[t][1] \in SUBSET Bits /\ Marks(loaded[t][1]) \subseteq Marked
         /\ Marks(loaded[t][1]) = Marked => loaded[t][1] = value

(* The compare-and-swap of the signal test: the value is the last winner's,*)
(* and with a lost update there is more than one.  A winner got back Unset.*)
Unset == << 0 >>
Won(t) == pc[t] = 2 /\ retval[t] = Unset
CasInv ==
    /\ \A t \in Threads : value = 0 => pc[t] = 1
    /\ value # 0 => \E t \in Threads : Won(t) /\ value = t + 1
    /\ lost <=> \E s, t \in Threads : s # t /\ Won(s) /\ Won(t)
    /\ \A t \in Threads : loaded[t] # <<>> => loaded[t] = Unset

(* That of the write index: every thread waits for one of the next four    *)
(* values, and only the one whose value has come changes it.               *)
Turn(t) == t + 4 * (pc[t] - 1)
TurnInv ==
    /\ value \in 0..TerminationValue /\ ~lost
    /\ \A t \in Threads : value <= Turn(t) /\ Turn(t) < value + 4
    /\ \A t \in Threads : loaded[t] # <<>> => loaded[t] = <<value>> /\ value = Turn(t)

Patterns == {NO_BITS, ALL_BITS, ALT_BITS_1, ALT_BITS_2}
PatternInv ==
    /\ value \in Patterns
    /\ \A t \in Threads : loaded[t] # <<>> => loaded[t][1] \in Patterns

RoundInv ==
    /\ Counting => CountInv
    /\ Marking => MarkInv
    /\ Patterned => PatternInv
    /\ test.op = "cas" => CasInv
    /\ test.op = "write_index_cas" => TurnInv

TypeInv ==
    /\ test \in Tests /\ runtime \in {"atomic", "lossy"}
    /\ main \in {"create", "loop", "wait", "end", "refused", "failed"} /\ lost \in BOOLEAN
    /\ pc \in [Threads -> Nat] /\ DOMAIN retval = Threads
    /\ DOMAIN loaded = Threads
    /\ \A t \in Threads :
         /\ pc[t] \in 1..(Len(Operands(t)) + 1)
         /\ loaded[t] # <<>> => loaded[t] = <<loaded[t][1]>> /\ Running(t) /\ Tears(t)

VerdictInv ==
    /\ runtime = "atomic" => ~lost /\ main # "failed"
    /\ Patterned => main # "failed"
    /\ main \in {"create", "loop", "end"} => value = test.initial /\ (~Patterned => ~lost)

Inv == TypeInv /\ VerdictInv /\ (main = "wait" => RoundInv)

-----------------------------------------------------------------------------
(* Two functions that agree at 1, and at each later place if they agree at *)
(* the one before, agree everywhere.                                       *)
LEMMA SameToTheEnd ==
    ASSUME NEW N \in Nat \ {0}, NEW f, NEW g,
           f[1] = g[1],
           \A n \in 2..N : f[n - 1] = g[n - 1] => f[n] = g[n]
    PROVE  \A n \in 1..N : f[n] = g[n]
<1> SUFFICES ASSUME NEW x \in 1..N, f[x] # g[x] PROVE FALSE
    OBVIOUS
<1> DEFINE H == {n \in 1..N : f[n] # g[n]}
           R == {ss \in Nat \X Nat : ss[1] < ss[2]}
<1>1. IsWellFoundedOn(R, Nat)
    BY NatLessThanWellFounded DEF OpToRel
<1>2. H \subseteq Nat /\ H # {}
    OBVIOUS
<1>3. PICK y \in H : \A z \in H : ~(<<z, y>> \in R)
    <2> HIDE DEF H, R
    <2> QED BY <1>1, <1>2, WFMin
<1>4. y \in 2..N /\ y - 1 \in 1..N
    OBVIOUS
<1>5. y - 1 \in H
    BY <1>4
<1>6. <<y - 1, y>> \in R
    BY <1>4
<1> QED BY <1>3, <1>5, <1>6

(* The masks of the or test are single bits. *)
LEMMA OrMasksAre ==
    ASSUME NEW t \in Threads
    PROVE  OrMasks(t) = [n \in 1..Groups |-> {OrBit(t, n)}]
<1> DEFINE Body(f, n) == IF n = 1 THEN {t} ELSE ShiftLeft(f[n - 1])
           Is(f) == f = [n \in 1..Groups |-> Body(f, n)]
           g == [n \in 1..Groups |-> {OrBit(t, n)}]
<1>1. ASSUME NEW n \in 1..Groups
      PROVE  {OrBit(t, n)} = Body(g, n)
  <2>1. CASE n = 1 BY <2>1 DEF OrBit, Threads
  <2>2. CASE n # 1
     <3>1. g[n - 1] = {OrBit(t, n - 1)}
        BY <2>2, CountsAssumption
     <3>2. ShiftLeft({OrBit(t, n - 1)}) = {OrBit(t, n)}
        BY <2>2, CountsAssumption DEF OrBit, ShiftLeft, Bits, Threads
     <3> QED BY <2>2, <3>1, <3>2, Zenon
  <2> QED BY <2>1, <2>2
<1>2. Is(g)
  BY <1>1
<1>3. OrMasks(t) = CHOOSE f : Is(f)
  BY Zenon DEF OrMasks
<1>4. Is(OrMasks(t))
  <2> HIDE DEF Is, g
  <2> QED BY <1>2, <1>3, Zenon
<1>5. PICK f : f = OrMasks(t)
  OBVIOUS
<1>6. Is(f) BY <1>4, <1>5
<1>7. \A n \in 1..Groups : f[n] = g[n]
  <2>1. Groups \in Nat \ {0}
     BY CountsAssumption
  <2>2. f[1] = g[1]
     <3>1. 1 \in 1..Groups BY <2>1
     <3>2. f[1] = Body(f, 1) BY <1>6, <3>1
     <3>3. g[1] = Body(g, 1) BY <1>2, <3>1
     <3> HIDE DEF g
     <3> QED BY <3>2, <3>3
  <2>3. ASSUME NEW n \in 2..Groups, f[n - 1] = g[n - 1] PROVE f[n] = g[n]
     <3>1. n \in 1..Groups /\ n # 1 BY <2>1
     <3>2. f[n] = Body(f, n) BY <1>6, <3>1
     <3>3. g[n] = Body(g, n) BY <1>2, <3>1
     <3> HIDE DEF g
     <3> QED BY <2>3, <3>1, <3>2, <3>3
  <2> HIDE DEF Is, g
  <2> QED BY <2>1, <2>2, <2>3, SameToTheEnd
<1>8. f = [n \in 1..Groups |-> {OrBit(t, n)}]
  BY <1>6, <1>7
<1> QED BY <1>5, <1>8
(* Each mask of the and test clears a single bit. *)
LEMMA AndMasksAre ==
    ASSUME NEW t \in Threads
    PROVE  AndMasks(t) = [n \in 1..Groups |-> ALL_BITS \ {AndBit(t, n)}]
<1> DEFINE Body(f, n) ==
              IF n = 1 THEN ALL_BITS \ {IF t = 3 THEN 3 ELSE 4 * (Groups - 1) + t}
              ELSE IF t = 3 THEN ShiftLeft(f[n - 1]) \cup 0..3
              ELSE ShiftRight(f[n - 1])
           Is(f) == f = [n \in 1..Groups |-> Body(f, n)]
           g == [n \in 1..Groups |-> ALL_BITS \ {AndBit(t, n)}]
<1>1. ASSUME NEW n \in 1..Groups
      PROVE  ALL_BITS \ {AndBit(t, n)} = Body(g, n)
  <2>1. CASE n = 1 BY <2>1 DEF AndBit, Threads
  <2>2. CASE n # 1
     <3>1. g[n - 1] = ALL_BITS \ {AndBit(t, n - 1)}
        BY <2>2, CountsAssumption
     <3>2. CASE t = 3
        <4>1. ShiftLeft(ALL_BITS \ {AndBit(t, n - 1)}) \cup 0..3 = ALL_BITS \ {AndBit(t, n)}
           BY <2>2, <3>2, CountsAssumption DEF AndBit, ShiftLeft, Bits, ALL_BITS
        <4> QED BY <2>2, <3>1, <3>2, <4>1, Zenon
     <3>3. CASE t # 3
        <4>1. ShiftRight(ALL_BITS \ {AndBit(t, n - 1)}) = ALL_BITS \ {AndBit(t, n)}
           BY <2>2, <3>3, CountsAssumption DEF AndBit, ShiftRight, Bits, ALL_BITS, Threads
        <4> QED BY <2>2, <3>1, <3>3, <4>1, Zenon
     <3> QED BY <3>2, <3>3
  <2> QED BY <2>1, <2>2
<1>2. Is(g)
  BY <1>1
<1>3. AndMasks(t) = CHOOSE f : Is(f)
  BY Zenon DEF AndMasks
<1>4. Is(AndMasks(t))
  <2> HIDE DEF Is, g
  <2> QED BY <1>2, <1>3, Zenon
<1>5. PICK f : f = AndMasks(t)
  OBVIOUS
<1>6. Is(f) BY <1>4, <1>5
<1>7. \A n \in 1..Groups : f[n] = g[n]
  <2>1. Groups \in Nat \ {0}
     BY CountsAssumption
  <2>2. f[1] = g[1]
     <3>1. 1 \in 1..Groups BY <2>1
     <3>2. f[1] = Body(f, 1) BY <1>6, <3>1
     <3>3. g[1] = Body(g, 1) BY <1>2, <3>1
     <3> HIDE DEF g
     <3> QED BY <3>2, <3>3
  <2>3. ASSUME NEW n \in 2..Groups, f[n - 1] = g[n - 1] PROVE f[n] = g[n]
     <3>1. n \in 1..Groups /\ n # 1 BY <2>1
     <3>2. f[n] = Body(f, n) BY <1>6, <3>1
     <3>3. g[n] = Body(g, n) BY <1>2, <3>1
     <3> HIDE DEF g
     <3> QED BY <2>3, <3>1, <3>2, <3>3
  <2> HIDE DEF Is, g
  <2> QED BY <2>1, <2>2, <2>3, SameToTheEnd
<1>8. f = [n \in 1..Groups |-> ALL_BITS \ {AndBit(t, n)}]
  BY <1>6, <1>7
<1> QED BY <1>5, <1>8
-----------------------------------------------------------------------------
(***************************************************************************)
(* The tests and their operands.                                           *)
(***************************************************************************)
(* The kinds of tests, with the values their signals are created with. *)
LEMMA Kinds ==
    ASSUME test \in Tests
    PROVE  /\ Counting \/ Marking \/ Patterned \/ test.op \in {"cas", "write_index_cas"}
           /\ Counting => test.initial = IF test.op = "subtract" THEN AllOps ELSE 0
           /\ Marking => test.initial = IF test.op = "and" THEN ALL_BITS ELSE NO_BITS
           /\ Patterned => /\ test.initial = NO_BITS
                           /\ test.order \in {"acquire", "acq_rel", "release", "relaxed"}
           /\ test.op \in {"cas", "write_index_cas"} => test.initial = 0
BY SMTT(30) DEF Counting, Marking, Patterned, Tests, Test,
     test_signal_add_atomic_acquire, test_signal_add_atomic_release,
     test_signal_add_atomic_relaxed, test_signal_add_atomic_acq_rel,
     test_signal_subtract_atomic_acquire, test_signal_subtract_atomic_release,
     test_signal_subtract_atomic_relaxed, test_signal_subtract_atomic_acq_rel,
     test_signal_and_atomic_acquire, test_signal_and_atomic_release,
     test_signal_and_atomic_relaxed, test_signal_and_atomic_acq_rel,
     test_signal_or_atomic_acquire, test_signal_or_atomic_release,
     test_signal_or_atomic_relaxed, test_signal_or_atomic_acq_rel,
     test_signal_xor_atomic_acquire, test_signal_xor_atomic_release,
     test_signal_xor_atomic_relaxed, test_signal_xor_atomic_acq_rel,
     test_signal_exchange_atomic_acquire, test_signal_exchange_atomic_release,
     test_signal_exchange_atomic_relaxed, test_signal_exchange_atomic_acq_rel,
     test_signal_cas_atomic_acquire, test_signal_cas_atomic_release,
     test_signal_cas_atomic_relaxed, test_signal_cas_atomic_acq_rel,
     test_queue_write_index_add_atomic, test_queue_write_index_cas_atomic

(* There are four threads. *)
LEMMA AllOpsIs == AllOps = 4 * OpCount
<1>1. Cardinality(0..3) = IF 0 > 3 THEN 0 ELSE 3 - 0 + 1
    BY ONLY 0 \in Int, 3 \in Int, FS_Interval
<1> QED BY <1>1 DEF AllOps, Threads

(* Thread t has a turn for each of t, t + 4, ... below TerminationValue. *)
LEMMA TurnsAre ==
    ASSUME NEW t \in Threads
    PROVE  /\ Turns(t) \in Nat
           /\ \A n \in Nat : n < Turns(t) <=> t + 4 * n < TerminationValue
<1> DEFINE S == {v \in 0..(TerminationValue - 1) : v % 4 = t}
           c == (TerminationValue + 3 - t) \div 4
           f == [n \in 1..c |-> t + 4 * (n - 1)]
<1>0. TerminationValue \in Nat /\ t \in 0..3
    BY CountsAssumption DEF Threads
<1>1. c \in Nat /\ 4 * c <= TerminationValue + 3 - t /\ TerminationValue + 3 - t < 4 * c + 4
    BY <1>0
<1> HIDE DEF c
<1>2. \A n \in 1..c : t + 4 * (n - 1) \in S
    BY <1>0, <1>1
<1>3. \A v \in S : \E n \in 1..c : v = t + 4 * (n - 1)
  <2> TAKE v \in S
  <2>1. v \in Nat /\ v < TerminationValue /\ v % 4 = t
      BY <1>0
  <2>2. PICK q \in Nat : v = 4 * q + t
      BY <1>0, <2>1
  <2>3. q + 1 \in 1..c
      BY <1>0, <1>1, <2>1, <2>2
  <2> QED BY <2>2, <2>3, <1>0
<1>4. f \in Bijection(1..c, S)
  <2>1. f \in [1..c -> S]
      BY <1>2
  <2>2. \A m, n \in 1..c : f[m] = f[n] => m = n
      BY <1>0, <1>1
  <2>3. \A v \in S : \E n \in 1..c : f[n] = v
      BY <1>3
  <2> HIDE DEF f, S
  <2> QED BY <2>1, <2>2, <2>3, Fun_IsBij
<1>5. Cardinality(1..c) = c /\ IsFiniteSet(1..c)
  <2>0. 1 \in Int /\ c \in Int
      BY <1>1
  <2>1. Cardinality(1..c) = (IF 1 > c THEN 0 ELSE c - 1 + 1) /\ IsFiniteSet(1..c)
      BY ONLY <2>0, FS_Interval
  <2> QED BY <1>1, <2>1
<1>6. Cardinality(S) = c
  <2> HIDE DEF S, f
  <2> QED BY <1>4, <1>5, FS_Bijection DEF ExistsBijection
<1>7. Turns(t) = c
    BY <1>6 DEF Turns
<1> QED BY <1>0, <1>1, <1>7


(* The operands of the counting tests. *)
LEMMA CountOperands ==
    ASSUME Counting, NEW t \in Threads
    PROVE  Len(Operands(t)) = OpCount /\ \A n \in 1..OpCount : Operands(t)[n] = 1
<1>1. Operands(t) = [n \in 1..OpCount |-> 1]
    BY DEF Counting, Operands, Ones
<1> QED BY <1>1, CountsAssumption

(* Those of the and and the or tests. *)
LEMMA MarkOperands ==
    ASSUME Marking, NEW t \in Threads
    PROVE  /\ Len(Operands(t)) = Groups
           /\ \A n \in 1..Groups :
                Operands(t)[n] = IF test.op = "and" THEN ALL_BITS \ {Mark(t, n)} ELSE {Mark(t, n)}
<1>1. CASE test.op = "and"
  <2>1. Operands(t) = [n \in 1..Groups |-> ALL_BITS \ {AndBit(t, n)}]
      BY <1>1, AndMasksAre DEF Operands
  <2> QED BY <1>1, <2>1, CountsAssumption DEF Mark
<1>2. CASE test.op = "or"
  <2>1. Operands(t) = [n \in 1..Groups |-> {OrBit(t, n)}]
      BY <1>2, OrMasksAre DEF Operands
  <2> QED BY <1>2, <2>1, CountsAssumption DEF Mark
<1> QED BY <1>1, <1>2 DEF Marking

(* Those of the xor and the exchange tests. *)
LEMMA PatternOperands ==
    ASSUME test \in Tests, Patterned, NEW t \in Threads
    PROVE  /\ Len(Operands(t)) \in Nat
           /\ \A n \in 1..Len(Operands(t)) : Operands(t)[n] \in Patterns
<1>1. Loops \in Nat
    BY Kinds DEF Loops
<1>2. Operands(t) = [n \in 1..(Loops * OpCount) |-> Pattern(t)]
    BY DEF Patterned, Operands
<1>3. Loops * OpCount \in Nat
    BY <1>1, CountsAssumption
<1>4. Pattern(t) \in Patterns
    BY DEF Pattern, Patterns, Threads
<1> QED BY <1>2, <1>3, <1>4

(* Those of the compare-and-swap tests. *)
LEMMA CasOperands ==
    ASSUME test.op = "cas", NEW t \in Threads
    PROVE  Len(Operands(t)) = 1 /\ Operands(t)[1] = t + 1
<1>1. Operands(t) = <<t + 1>>
    BY DEF Operands
<1> QED BY <1>1

(* ... where the write index is handed from thread to thread. *)
LEMMA TurnOperands ==
    ASSUME test.op = "write_index_cas", NEW t \in Threads
    PROVE  /\ Len(Operands(t)) = Turns(t)
           /\ \A n \in 1..Turns(t) : Operands(t)[n] = t + 4 * (n - 1)
<1>1. Operands(t) = [n \in 1..Turns(t) |-> t + 4 * (n - 1)]
    BY DEF Operands
<1> QED BY <1>1, TurnsAre

(* Every program has a length. *)
LEMMA Lengths ==
    ASSUME test \in Tests, NEW t \in Threads
    PROVE  Len(Operands(t)) \in Nat
BY Kinds, CountOperands, MarkOperands, PatternOperands, CasOperands, TurnOperands, TurnsAre,
   CountsAssumption

-----------------------------------------------------------------------------
(***************************************************************************)
(* What a thread's step does: it carries out an operation on v, the value  *)
(* or what it loaded before, loads the value, or finds it not to be what   *)
(* its compare-and-swap expects.                                           *)
(***************************************************************************)
SameLoads(t) == DOMAIN loaded' = Threads /\ \A s \in Threads \ {t} : loaded'[s] = loaded[s]
Acts(t, v) ==
    /\ v = value \/ loaded[t] = <<v>>
    /\ value' = Result(v, Operand(t)) /\ Advance(t, v)
    /\ loaded'[t] = <<>> /\ SameLoads(t)
    /\ lost' = (lost \/ v # value)
Loads(t) ==
    /\ Stores(value, Operand(t)) /\ loaded'[t] = <<value>> /\ SameLoads(t)
    /\ Tears(t) /\ UNCHANGED <<value, pc, retval, lost>>
Skips(t) ==
    /\ ~Stores(value, Operand(t)) /\ Advance(t, value) /\ loaded[t] = <<>>
    /\ UNCHANGED <<value, loaded, lost>>

(* Every step is one of the three, and on an atomic runtime loses nothing. *)
LEMMA StepIs ==
    ASSUME TypeInv, NEW t \in Threads, ThreadStep(t)
    PROVE  /\ UNCHANGED <<test, runtime, main, ii>>
           /\ main = "wait" /\ pc[t] \in 1..Len(Operands(t)) /\ Len(Operands(t)) \in Nat
           /\ (\E v : Acts(t, v)) \/ Loads(t) \/ Skips(t)
           /\ runtime = "atomic" => lost' = lost
<1>1. /\ UNCHANGED <<test, runtime, main, ii>> /\ Running(t)
      /\ pc[t] \in 1..(Len(Operands(t)) + 1) /\ DOMAIN loaded = Threads /\ lost \in BOOLEAN
      /\ loaded[t] # <<>> => loaded[t] = <<loaded[t][1]>> /\ Tears(t)
    BY DEF ThreadStep, operate, load_part, store_part, TypeInv
<1>2. main = "wait" /\ pc[t] \in 1..Len(Operands(t)) /\ Len(Operands(t)) \in Nat
    BY <1>1, Lengths DEF Running, Finished, TypeInv
<1>3. CASE operate(t)
  <2>1. loaded[t] = <<>>
      BY <1>1, <1>3 DEF operate
  <2>2. loaded'[t] = <<>> /\ SameLoads(t)
      BY <1>1, <1>3, <2>1 DEF operate, SameLoads
  <2>3. Acts(t, value) /\ lost' = lost
      BY <1>1, <1>3, <2>2 DEF operate, Acts
  <2> QED BY <1>1, <1>2, <2>3
<1>4. CASE load_part(t)
    BY <1>1, <1>2, <1>4 DEF load_part, Loads, Skips, SameLoads
<1>5. CASE store_part(t)
  <2>1. Acts(t, loaded[t][1])
      BY <1>1, <1>5 DEF store_part, Acts, SameLoads
  <2>2. runtime # "atomic"
      BY <1>5 DEF store_part, Tears
  <2> QED BY <1>1, <1>2, <2>1, <2>2
<1> QED BY <1>3, <1>4, <1>5 DEF ThreadStep

(* The step moves at most its own thread on. *)
LEMMA AdvanceIs ==
    ASSUME TypeInv, NEW t \in Threads, NEW v, Advance(t, v)
    PROVE  /\ pc' \in [Threads -> Nat] /\ DOMAIN retval' = Threads
           /\ \A s \in Threads \ {t} : pc'[s] = pc[s] /\ retval'[s] = retval[s]
           /\ pc'[t] = IF Retries(v, Operand(t)) THEN pc[t] ELSE pc[t] + 1
           /\ test.op = "cas" => retval'[t] = <<v>>
BY DEF TypeInv, Advance

(* The types, and that only a torn thread in the middle of an operation    *)
(* has loaded something.                                                   *)
LEMMA TypeStep ==
    ASSUME TypeInv, NEW t \in Threads, ThreadStep(t)
    PROVE  TypeInv'
<1>1. /\ UNCHANGED <<test, runtime, main, ii>>
      /\ main = "wait" /\ pc[t] \in 1..Len(Operands(t)) /\ Len(Operands(t)) \in Nat
    BY StepIs
<1>2. \A s \in Threads : /\ Operands(s)' = Operands(s) /\ Tears(s)' = Tears(s)
                         /\ Running(s)' <=> pc'[s] <= Len(Operands(s))
                         /\ Running(s) <=> pc[s] <= Len(Operands(s))
  <2> TAKE s \in Threads
  <2>1. Operands(s)' = Operands(s) /\ Tears(s)' = Tears(s)
      BY <1>1 DEF Operands, Loops, Tears
  <2>2. Len(Operands(s)) \in Nat
      BY Lengths DEF TypeInv
  <2>3. pc[s] \in Nat /\ pc'[s] \in Nat
      BY AdvanceIs, StepIs DEF TypeInv, Acts, Loads, Skips
  <2> QED BY <1>1, <2>1, <2>2, <2>3 DEF Running, Finished
<1>3. /\ test' \in Tests /\ runtime' \in {"atomic", "lossy"}
      /\ main' \in {"create", "loop", "wait", "end", "refused", "failed"}
    BY <1>1 DEF TypeInv
<1>4. ASSUME NEW v, Acts(t, v) PROVE TypeInv'
  <2>1. lost' \in BOOLEAN /\ Advance(t, v)
      BY <1>4 DEF Acts
  <2>2. \A s \in Threads : pc'[s] \in 1..(Len(Operands(s)) + 1)
      BY <1>1, <2>1, AdvanceIs, Lengths DEF TypeInv
  <2>3. ASSUME NEW s \in Threads, loaded'[s] # <<>>
        PROVE  loaded'[s] = <<loaded'[s][1]>> /\ Running(s)' /\ Tears(s)'
    <3>1. s # t /\ loaded'[s] = loaded[s]
        BY <1>4, <2>3 DEF Acts, SameLoads
    <3> QED BY <1>2, <2>1, <2>3, <3>1, AdvanceIs DEF TypeInv
  <2> QED BY <1>2, <1>3, <1>4, <2>1, <2>2, <2>3, AdvanceIs DEF TypeInv, Acts, SameLoads
<1>5. CASE Loads(t)
  <2>1. ASSUME NEW s \in Threads, loaded'[s] # <<>>
        PROVE  loaded'[s] = <<loaded'[s][1]>> /\ Running(s)' /\ Tears(s)'
    <3>1. CASE s = t
        BY <1>1, <1>2, <1>5, <3>1 DEF Loads
    <3>2. CASE s # t
        BY <1>2, <1>5, <2>1, <3>2 DEF Loads, SameLoads, TypeInv
    <3> QED BY <3>1, <3>2
  <2> QED BY <1>2, <1>3, <1>5, <2>1 DEF TypeInv, Loads, SameLoads
<1>6. CASE Skips(t)
  <2>1. \A s \in Threads : pc'[s] \in 1..(Len(Operands(s)) + 1)
      BY <1>1, <1>6, AdvanceIs, Lengths DEF TypeInv, Skips
  <2>2. loaded[t] = <<>>
      BY <1>6 DEF Skips
  <2> QED BY <1>2, <1>3, <1>6, <2>1, <2>2, AdvanceIs DEF TypeInv, Skips
<1> QED BY <1>4, <1>5, <1>6, StepIs

(* Counting. *)
LEMMA CountStep ==
    ASSUME TypeInv, Counting, CountInv, NEW t \in Threads, ThreadStep(t)
    PROVE  CountInv'
<1>1. /\ UNCHANGED <<test, runtime, main, ii>>
      /\ pc[t] \in 1..OpCount /\ Operand(t) = 1
    BY StepIs, CountOperands DEF Operand
<1>2. /\ AllOps \in Int /\ \A s \in Threads : pc[s] \in Nat
      /\ \A v : ~Retries(v, 1) /\ Stores(v, 1)
      /\ \A v \in Int : /\ Result(v, 1) \in Int
                        /\ Counted(Result(v, 1)) = Counted(v) + 1
                        /\ Counted(v) \in Int /\ Counted(v)' = Counted(v)
  <2>1. AllOps \in Int /\ \A s \in Threads : pc[s] \in Nat
      BY AllOpsIs, CountsAssumption DEF TypeInv
  <2>2. \A v : ~Retries(v, 1) /\ Stores(v, 1)
      BY DEF Counting, Retries, Stores
  <2>3. \A v : Result(v, 1) = IF test.op = "subtract" THEN v - 1 ELSE v + 1
      BY DEF Counting, Result
  <2>4. \A v \in Int : Counted(v) \in Int /\ Counted(v)' = Counted(v)
      BY <1>1, <2>1 DEF Counted
  <2>5. \A v \in Int : Result(v, 1) \in Int /\ Counted(Result(v, 1)) = Counted(v) + 1
      BY <2>1, <2>3 DEF Counted
  <2> QED BY <2>1, <2>2, <2>4, <2>5
<1>3. Total \in Int
    BY <1>2 DEF Total, Threads
<1>4. ASSUME NEW v, Acts(t, v) PROVE CountInv'
  <2>1. v \in Int /\ Counted(v) <= Total /\ (Counted(v) = Total => v = value)
      BY <1>4 DEF Acts, CountInv
  <2>2. Total' = Total + 1
    <3>1. pc'[t] = pc[t] + 1 /\ \A s \in Threads \ {t} : pc'[s] = pc[s]
        BY <1>1, <1>2, <1>4, AdvanceIs DEF Acts
    <3>2. 0 \in Threads /\ 1 \in Threads /\ 2 \in Threads /\ 3 \in Threads
        BY DEF Threads
    <3>3. /\ pc[0] \in Nat /\ pc[1] \in Nat /\ pc[2] \in Nat /\ pc[3] \in Nat
          /\ t = 0 \/ t = 1 \/ t = 2 \/ t = 3
        BY <1>2, <3>2 DEF Threads
    <3>4. CASE t = 0
        BY <3>1, <3>2, <3>3, <3>4 DEF Total
    <3>5. CASE t = 1
        BY <3>1, <3>2, <3>3, <3>5 DEF Total
    <3>6. CASE t = 2
        BY <3>1, <3>2, <3>3, <3>6 DEF Total
    <3>7. CASE t = 3
        BY <3>1, <3>2, <3>3, <3>7 DEF Total
    <3> QED BY <3>3, <3>4, <3>5, <3>6, <3>7
  <2>3. value' \in Int /\ Counted(value)' = Counted(v) + 1
      BY <1>1, <1>2, <1>4, <2>1 DEF Acts, Counted
  <2>4. lost' <=> Counted(v) # Total
      BY <1>4, <2>1 DEF Acts, CountInv
  <2>5. ASSUME NEW s \in Threads, loaded'[s] # <<>>
        PROVE  loaded'[s][1] \in Int /\ Counted(loaded[s][1])' < Total'
    <3>1. loaded'[s] = loaded[s] /\ loaded[s][1] \in Int /\ Counted(loaded[s][1]) <= Total
        BY <1>4, <2>5 DEF Acts, SameLoads, CountInv
    <3>2. Counted(loaded[s][1])' = Counted(loaded[s][1])
        BY <1>1, <3>1 DEF Counted
    <3> QED BY <1>2, <1>3, <2>2, <3>1, <3>2
  <2>6. Counted(v) \in Int
      BY <1>2, <2>1
  <2>7. (Counted(value) <= Total)' /\ (lost' <=> Counted(value)' # Total')
      BY <1>3, <2>1, <2>2, <2>3, <2>4, <2>6
  <2>8. \A s \in Threads : loaded'[s] # <<>> => Counted(loaded[s][1])' \in Int
      BY <1>1, <1>2, <2>5 DEF Counted
  <2> QED
    BY <1>3, <2>2, <2>3, <2>5, <2>7, <2>8 DEF CountInv
<1>5. CASE Loads(t)
  <2>1. Total' = Total /\ \A v : Counted(v)' = Counted(v)
      BY <1>1, <1>5 DEF Loads, Total, Counted
  <2> QED BY <1>1, <1>5, <2>1 DEF Loads, SameLoads, CountInv, Counted
<1>6. ~Skips(t)
    BY <1>1, <1>2 DEF Skips
<1> QED BY <1>4, <1>5, <1>6, StepIs

(* Every operation of a round has a bit of its own, and every bit an       *)
(* operation.                                                              *)
LEMMA MarksApart ==
    /\ \A t \in Threads, n \in 1..Groups : Mark(t, n) \in Bits
    /\ \A s, t \in Threads, m, n \in 1..Groups : Mark(s, m) = Mark(t, n) => s = t /\ m = n
    /\ \A b \in Bits : \E t \in Threads, n \in 1..Groups : b = Mark(t, n)
<1>0. Groups \in Nat \ {0}
    BY CountsAssumption
<1>1. ASSUME NEW t \in Threads, NEW n \in 1..Groups PROVE Mark(t, n) \in Bits
    BY <1>0 DEF Mark, AndBit, OrBit, Bits, Threads
<1>2. ASSUME NEW s \in Threads, NEW t \in Threads, NEW m \in 1..Groups, NEW n \in 1..Groups,
             Mark(s, m) = Mark(t, n)
      PROVE  s = t /\ m = n
    BY <1>0, <1>2 DEF Mark, AndBit, OrBit, Threads
<1>3. ASSUME NEW b \in Bits PROVE \E t \in Threads, n \in 1..Groups : b = Mark(t, n)
  <2>1. PICK q \in Nat, r \in 0..3 : b = 4 * q + r /\ q < Groups
    <3>1. b \in Nat /\ b < 4 * Groups
        BY <1>0 DEF Bits
    <3>2. b = 4 * (b \div 4) + (b % 4) /\ b \div 4 \in Nat /\ b % 4 \in 0..3
        BY <3>1
    <3> QED BY <1>0, <3>1, <3>2
  <2>2. r \in Threads /\ q + 1 \in 1..Groups /\ Groups - q \in 1..Groups
      BY <1>0, <2>1 DEF Threads
  <2>3. CASE test.op = "and" /\ r # 3
    <3>1. b = Mark(r, Groups - q)
        BY <1>0, <2>1, <2>3 DEF Mark, AndBit
    <3> QED BY <2>2, <3>1
  <2>4. CASE ~(test.op = "and" /\ r # 3)
    <3>1. b = Mark(r, q + 1)
        BY <1>0, <2>1, <2>4 DEF Mark, AndBit, OrBit
    <3> QED BY <2>2, <3>1
  <2> QED BY <2>3, <2>4
<1> QED BY <1>1, <1>2, <1>3

(* Marking. *)
LEMMA MarkStep ==
    ASSUME TypeInv, Marking, MarkInv, NEW t \in Threads, ThreadStep(t)
    PROVE  MarkInv'
<1> DEFINE b == Mark(t, pc[t])
<1>1. /\ UNCHANGED <<test, runtime, main, ii>>
      /\ pc[t] \in 1..Groups
      /\ Operand(t) = IF test.op = "and" THEN ALL_BITS \ {b} ELSE {b}
    BY StepIs, MarkOperands DEF Operand
<1>2. /\ \A s \in Threads : pc[s] \in Nat
      /\ \A v : ~Retries(v, Operand(t)) /\ Stores(v, Operand(t))
      /\ \A v \in SUBSET Bits : /\ Result(v, Operand(t)) \in SUBSET Bits
                                /\ Marks(Result(v, Operand(t))) = Marks(v) \cup {b}
  <2>1. \A s \in Threads : pc[s] \in Nat
      BY DEF TypeInv
  <2>2. \A v : ~Retries(v, Operand(t)) /\ Stores(v, Operand(t))
      BY DEF Marking, Retries, Stores
  <2>3. b \in Bits
      BY <1>1, MarksApart
  <2>4. \A v : Result(v, Operand(t)) =
                  IF test.op = "and" THEN v \cap Operand(t) ELSE v \cup Operand(t)
      BY DEF Marking, Result
  <2> HIDE DEF b
  <2>5. ASSUME NEW v \in SUBSET Bits
        PROVE  /\ Result(v, Operand(t)) \in SUBSET Bits
               /\ Marks(Result(v, Operand(t))) = Marks(v) \cup {b}
    <3>1. CASE test.op = "and"
        BY <1>1, <2>3, <2>4, <3>1 DEF Marks, ALL_BITS
    <3>2. CASE test.op # "and"
        BY <1>1, <2>3, <2>4, <3>2 DEF Marks
    <3> QED BY <3>1, <3>2
  <2> QED BY <2>1, <2>2, <2>5
<1>3. b \in Bits /\ b \notin Marked
  <2>1. b \in Bits
      BY <1>1, MarksApart
  <2>2. ASSUME NEW s \in Threads, NEW n \in 1..Groups, n < pc[s], b = Mark(s, n) PROVE FALSE
    <3>1. s = t /\ n = pc[t]
        BY <1>1, <2>2, MarksApart
    <3> QED BY <1>2, <2>2, <3>1
  <2> QED BY <2>1, <2>2 DEF Marked
<1>4. \A s, n : Mark(s, n) = IF test'.op = "and" THEN AndBit(s, n) ELSE OrBit(s, n)
    BY <1>1 DEF Mark
<1>5. ASSUME NEW v, Acts(t, v) PROVE MarkInv'
  <2>1. v \in SUBSET Bits /\ Marks(v) \subseteq Marked /\ (Marks(v) = Marked => v = value)
    <3>1. v = value \/ loaded[t] = <<v>>
        BY <1>5 DEF Acts
    <3>2. CASE v = value
        BY <3>2 DEF MarkInv
    <3>3. CASE loaded[t] = <<v>>
      <4>1. loaded[t] # <<>> /\ loaded[t][1] = v
          BY <3>3
      <4> QED BY <4>1 DEF MarkInv
    <3> QED BY <3>1, <3>2, <3>3
  <2>2. Marked' = Marked \cup {b}
    <3>1. pc'[t] = pc[t] + 1 /\ \A s \in Threads \ {t} : pc'[s] = pc[s]
        BY <1>2, <1>5, AdvanceIs DEF Acts
    <3>2. Marked' = {c \in Bits : \E s \in Threads : \E n \in 1..Groups :
                                     n < pc'[s] /\ c = Mark(s, n)}
        BY <1>4 DEF Marked, Mark
    <3> HIDE DEF b
    <3>3. \A s \in Threads, n \in 1..Groups : n < pc'[s] <=> n < pc[s] \/ (s = t /\ n = pc[t])
        BY <1>2, <3>1
    <3>4. b = Mark(t, pc[t])
        BY DEF b
    <3> QED BY <1>1, <1>3, <3>2, <3>3, <3>4 DEF Marked
  <2>3. value' \in SUBSET Bits /\ Marks(value)' = Marks(v) \cup {b}
    <3>1. Marks(value)' = Marks(Result(v, Operand(t)))
        BY <1>1, <1>5 DEF Acts, Marks
    <3> QED BY <1>2, <1>5, <2>1, <3>1 DEF Acts
  <2>4. lost' <=> Marks(v) # Marked
      BY <1>5, <2>1 DEF Acts, MarkInv
  <2>5. ASSUME NEW s \in Threads, loaded'[s] # <<>>
        PROVE  loaded'[s][1] \in SUBSET Bits /\ Marks(loaded[s][1])' \subseteq Marked
    <3>1. /\ loaded'[s] = loaded[s] /\ loaded[s][1] \in SUBSET Bits
          /\ Marks(loaded[s][1]) \subseteq Marked
        BY <1>5, <2>5 DEF Acts, SameLoads, MarkInv
    <3>2. Marks(loaded[s][1])' = Marks(loaded[s][1])
        BY <1>1, <3>1 DEF Marks
    <3> QED BY <3>1, <3>2
  <2> HIDE DEF b
  <2>6. (Marks(value) \subseteq Marked)' /\ (lost' <=> Marks(value)' # Marked')
      BY <1>3, <2>1, <2>2, <2>3, <2>4
  <2> QED BY <1>3, <2>2, <2>3, <2>5, <2>6 DEF MarkInv
<1>6. CASE Loads(t)
  <2>1. Marked' = Marked
      BY <1>1, <1>6 DEF Loads, Marked, Mark
  <2>2. Marks(value)' = Marks(value) /\ UNCHANGED <<value, lost>>
      BY <1>1, <1>6 DEF Loads, Marks
  <2>3. ASSUME NEW s \in Threads, loaded'[s] # <<>>
        PROVE  /\ loaded'[s][1] \in SUBSET Bits /\ Marks(loaded[s][1])' \subseteq Marked
               /\ Marks(loaded[s][1])' = Marked => loaded'[s][1] = value
    <3>1. /\ loaded'[s][1] \in SUBSET Bits /\ Marks(loaded'[s][1]) \subseteq Marked
          /\ Marks(loaded'[s][1]) = Marked => loaded'[s][1] = value
        BY <1>6, <2>3 DEF Loads, SameLoads, MarkInv
    <3>2. Marks(loaded[s][1])' = Marks(loaded'[s][1])
        BY <1>1 DEF Marks
    <3> QED BY <3>1, <3>2
  <2> QED BY <2>1, <2>2, <2>3 DEF MarkInv
<1>7. ~Skips(t)
    BY <1>2 DEF Skips
<1> QED BY <1>5, <1>6, <1>7, StepIs

(* The patterns: all four are values, and closed under both operations. *)
LEMMA Closed ==
    ASSUME Patterned, NEW v \in Patterns, NEW a \in Patterns
    PROVE  Result(v, a) \in Patterns
<1>1. ALT_BITS_1 \cup ALT_BITS_2 = ALL_BITS /\ ALT_BITS_1 \cap ALT_BITS_2 = {}
    BY CountsAssumption DEF ALT_BITS_1, ALT_BITS_2, ALL_BITS, Bits
<1>2. CASE test.op = "exchange"
    BY <1>2 DEF Result
<1>3. CASE test.op = "xor"
  <2>1. Result(v, a) = (v \ a) \cup (a \ v)
      BY <1>3 DEF Result
  <2> QED BY <1>1, <2>1 DEF Patterns, NO_BITS
<1> QED BY <1>2, <1>3 DEF Patterned

(* An operation on a pattern leaves a pattern, torn or not. *)
LEMMA PatternStep ==
    ASSUME TypeInv, Patterned, PatternInv, NEW t \in Threads, ThreadStep(t)
    PROVE  PatternInv'
<1>1. /\ UNCHANGED <<test, runtime, main, ii>> /\ Operand(t) \in Patterns
    BY StepIs, PatternOperands DEF Operand, TypeInv
<1>2. ASSUME NEW v, Acts(t, v) PROVE PatternInv'
  <2>1. value' \in Patterns
      BY <1>1, <1>2, Closed DEF Acts, PatternInv
  <2> QED BY <1>2, <2>1 DEF Acts, SameLoads, PatternInv, Patterns, NO_BITS, ALL_BITS,
             ALT_BITS_1, ALT_BITS_2, Bits
<1>3. CASE Loads(t)
    BY <1>3 DEF Loads, SameLoads, PatternInv, Patterns
<1>4. CASE Skips(t)
    BY <1>4 DEF Skips, PatternInv, Patterns
<1> QED BY <1>2, <1>3, <1>4, StepIs

(* The compare-and-swap of the signal test. *)
LEMMA CasStep ==
    ASSUME TypeInv, test.op = "cas", CasInv, NEW t \in Threads, ThreadStep(t)
    PROVE  CasInv'
<1>1. /\ UNCHANGED <<test, runtime, main, ii>> /\ pc[t] = 1 /\ Operand(t) = t + 1
  <2>1. UNCHANGED <<test, runtime, main, ii>> /\ pc[t] \in 1..Len(Operands(t))
      BY StepIs
  <2>2. Len(Operands(t)) = 1 /\ Operands(t)[1] = t + 1
      BY CasOperands
  <2>3. pc[t] = 1
      BY <2>1, <2>2
  <2> QED BY <2>1, <2>2, <2>3 DEF Operand
<1>2. /\ t \in Nat /\ \A v : ~Retries(v, t + 1) /\ (Stores(v, t + 1) <=> v = 0)
      /\ \A v : Result(v, t + 1) = IF v = 0 THEN t + 1 ELSE v
    BY DEF Retries, Stores, Result, Threads
<1>3. ASSUME NEW v, Advance(t, v), value' = Result(v, t + 1), v = value \/ v = 0,
             lost' = (lost \/ v # value),
             \A s \in Threads : loaded'[s] # <<>> => loaded'[s] = Unset
      PROVE  CasInv'
  <2>1. /\ pc'[t] = 2 /\ retval'[t] = <<v>>
        /\ \A s \in Threads \ {t} : pc'[s] = pc[s] /\ retval'[s] = retval[s]
      BY <1>1, <1>2, <1>3, AdvanceIs
  <2>2. ~Won(t) /\ \A s \in Threads \ {t} : Won(s)' <=> Won(s)
      BY <1>1, <2>1 DEF Won
  <2>3. Won(t)' <=> v = 0
      BY <2>1 DEF Won, Unset
  <2>4. CASE v # 0
    <3>1. v = value /\ value' = value /\ (lost' <=> lost) /\ value # 0
        BY <1>2, <1>3, <2>4 DEF CasInv, TypeInv
    <3> QED BY <1>3, <2>2, <2>3, <2>4, <3>1 DEF CasInv
  <2>5. CASE v = 0 /\ value = 0
    <3>1. value' = t + 1 /\ value' # 0 /\ \A s \in Threads : ~Won(s)
        BY <1>2, <1>3, <2>5 DEF CasInv, Won
    <3>2. ~lost'
        BY <1>3, <2>5, <3>1 DEF CasInv
    <3> QED BY <1>3, <2>2, <2>3, <2>5, <3>1, <3>2 DEF CasInv
  <2>6. CASE v = 0 /\ value # 0
    <3>0. value' = t + 1 /\ value' # 0
        BY <1>2, <1>3, <2>6
    <3>1. value' = t + 1 /\ value' # 0 /\ lost'
        BY <1>3, <2>6, <3>0, Zenon
    <3>2. PICK s \in Threads : Won(s)
        BY <2>6 DEF CasInv
    <3> QED BY <1>3, <2>2, <2>3, <2>6, <3>1, <3>2 DEF CasInv
  <2> QED BY <1>3, <2>4, <2>5, <2>6
<1>4. ASSUME NEW v, Acts(t, v) PROVE CasInv'
  <2>1. v = value \/ v = 0
    <3>1. v = value \/ loaded[t] = <<v>>
        BY <1>4 DEF Acts
    <3>2. <<v>> # <<>> /\ (loaded[t] # <<>> => loaded[t] = Unset)
        BY DEF CasInv
    <3>3. <<v>> = Unset => v = 0
        BY Zenon DEF Unset
    <3> QED BY <3>1, <3>2, <3>3, Zenon
  <2>2. \A s \in Threads : loaded'[s] # <<>> => loaded'[s] = Unset
      BY <1>4 DEF Acts, SameLoads, CasInv
  <2>3. Advance(t, v) /\ value' = Result(v, t + 1) /\ lost' = (lost \/ v # value)
      BY <1>1, <1>4 DEF Acts
  <2> QED BY <1>3, <2>1, <2>2, <2>3
<1>5. CASE Loads(t)
  <2>1. value = 0 /\ UNCHANGED <<value, pc, retval, lost>>
      BY <1>1, <1>2, <1>5 DEF Loads
  <2>2. loaded'[t] = Unset /\ \A s \in Threads \ {t} : loaded'[s] = loaded[s]
      BY <1>5, <2>1 DEF Loads, SameLoads, Unset
  <2>3. \A s \in Threads : loaded[s] # <<>> => loaded[s] = Unset
      BY DEF CasInv
  <2>4. \A s \in Threads : loaded'[s] # <<>> => loaded'[s] = Unset
      BY <2>2, <2>3, Zenon
  <2> QED BY <2>1, <2>4 DEF CasInv, Won
<1>6. CASE Skips(t)
  <2>1. value # 0 /\ value' = Result(value, t + 1) /\ lost' = (lost \/ value # value)
      BY <1>1, <1>2, <1>6 DEF Skips, TypeInv
  <2> QED BY <1>3, <1>6, <2>1 DEF Skips, CasInv
<1> QED BY <1>4, <1>5, <1>6, StepIs

(* The write index. *)
LEMMA TurnStep ==
    ASSUME TypeInv, test.op = "write_index_cas", TurnInv, NEW t \in Threads, ThreadStep(t)
    PROVE  TurnInv'
<1>1. /\ UNCHANGED <<test, runtime, main, ii>> /\ pc[t] \in 1..Turns(t)
      /\ Operand(t) = Turn(t) /\ Turn(t) < TerminationValue
  <2>1. /\ UNCHANGED <<test, runtime, main, ii>> /\ pc[t] \in 1..Turns(t)
        /\ Operand(t) = Turn(t)
      BY StepIs, TurnOperands DEF Operand, Turn
  <2>2. Turns(t) \in Nat /\ pc[t] - 1 \in Nat /\ pc[t] - 1 < Turns(t)
      BY <2>1, TurnsAre
  <2>3. t + 4 * (pc[t] - 1) < TerminationValue
      BY <2>2, TurnsAre
  <2> QED BY <2>1, <2>3 DEF Turn
<1>2. /\ \A v : (Retries(v, Turn(t)) <=> v # Turn(t)) /\ (Stores(v, Turn(t)) <=> v = Turn(t))
      /\ \A v : Result(v, Turn(t)) = IF v = Turn(t) THEN Turn(t) + 1 ELSE v
    BY DEF Retries, Stores, Result
<1>3. /\ value \in Nat /\ TerminationValue \in Nat /\ value <= TerminationValue
      /\ \A s \in Threads : s \in 0..3 /\ pc[s] \in Nat /\ Turn(s) \in Int
  <2>1. \A s \in Threads : s \in 0..3 /\ pc[s] \in Nat
      BY DEF TypeInv, Threads
  <2>2. value \in Nat /\ TerminationValue \in Nat /\ value <= TerminationValue
      BY CountsAssumption DEF TurnInv
  <2> QED BY <2>1, <2>2 DEF Turn
<1>4. ASSUME NEW v, Acts(t, v) PROVE TurnInv'
  <2>1. v = value /\ ~lost'
    <3>1. v = value \/ loaded[t] = <<v>>
        BY <1>4 DEF Acts
    <3>2. <<v>> # <<>> /\ (loaded[t] # <<>> => loaded[t] = <<value>>)
        BY DEF TurnInv
    <3>3. v = value
        BY <3>1, <3>2
    <3>4. lost' = (lost \/ v # value) /\ ~lost
        BY <1>4 DEF Acts, TurnInv
    <3> QED BY <3>3, <3>4
  <2>2. CASE value = Turn(t)
    <3>1. /\ value' = value + 1 /\ pc'[t] = pc[t] + 1
          /\ \A s \in Threads \ {t} : pc'[s] = pc[s]
        BY <1>1, <1>2, <1>4, <2>1, <2>2, AdvanceIs DEF Acts
    <3>2. Turn(t)' = value + 4 /\ \A s \in Threads \ {t} : Turn(s)' = Turn(s)
        BY <1>3, <2>2, <3>1 DEF Turn
    <3>3. ASSUME NEW s \in Threads \ {t} PROVE Turn(s) # value
        BY <1>3, <2>2 DEF Turn
    <3>4. \A s \in Threads : loaded'[s] = <<>>
        BY <1>4, <3>3 DEF Acts, SameLoads, TurnInv
    <3>5. value' \in 0..TerminationValue
        BY <1>1, <1>3, <2>2, <3>1
    <3>6. \A s \in Threads : value' <= Turn(s)' /\ Turn(s)' < value' + 4
        BY <1>3, <3>1, <3>2, <3>3 DEF TurnInv
    <3> QED BY <2>1, <3>4, <3>5, <3>6 DEF TurnInv
  <2>3. CASE value # Turn(t)
    <3>1. value' = value /\ pc'[t] = pc[t] /\ \A s \in Threads \ {t} : pc'[s] = pc[s]
        BY <1>1, <1>2, <1>4, <2>1, <2>3, AdvanceIs DEF Acts
    <3>2. \A s \in Threads : Turn(s)' = Turn(s)
        BY <3>1 DEF Turn
    <3> QED BY <1>4, <2>1, <3>1, <3>2 DEF TurnInv, Acts, SameLoads
  <2> QED BY <2>2, <2>3
<1>5. CASE Loads(t)
  <2>1. value = Turn(t) /\ UNCHANGED <<value, pc, lost>>
      BY <1>1, <1>2, <1>5 DEF Loads
  <2>2. \A s \in Threads : Turn(s)' = Turn(s)
      BY <2>1 DEF Turn
  <2> QED BY <1>5, <2>1, <2>2 DEF TurnInv, Loads, SameLoads
<1>6. CASE Skips(t)
  <2>1. value # Turn(t) /\ UNCHANGED <<value, loaded, lost>>
      BY <1>1, <1>2, <1>6 DEF Skips
  <2>2. \A s \in Threads : pc'[s] = pc[s]
      BY <1>1, <1>2, <1>6, <2>1, AdvanceIs DEF Skips
  <2>3. \A s \in Threads : Turn(s)' = Turn(s)
      BY <2>2 DEF Turn
  <2> QED BY <2>1, <2>3 DEF TurnInv
<1> QED BY <1>4, <1>5, <1>6, StepIs

-----------------------------------------------------------------------------
(***************************************************************************)
(* The main function.                                                      *)
(***************************************************************************)
(* Between two rounds nothing is loaded. *)
LEMMA AtRest ==
    ASSUME TypeInv, main # "wait" \/ \A t \in Threads : Finished(t)
    PROVE  \A t \in Threads : loaded[t] = <<>>
BY DEF TypeInv, Running

(* Creating the signal or the queue touches no value. *)
LEMMA Create ==
    ASSUME Inv, create
    PROVE  Inv'
<1>1. /\ main = "create" /\ main' \in {"end", "refused", "loop"} /\ TypeInv /\ VerdictInv
      /\ UNCHANGED <<test, runtime, value, pc, loaded, retval, lost>>
    BY DEF create, Inv
<1>2. \A t \in Threads : loaded[t] = <<>> /\ Operands(t)' = Operands(t)
    BY <1>1, AtRest DEF Operands, Loops
<1>3. TypeInv'
    BY <1>1, <1>2 DEF TypeInv
<1>4. VerdictInv'
    BY <1>1 DEF VerdictInv, Patterned
<1> QED BY <1>1, <1>3, <1>4 DEF Inv

(* A round starts with nothing done. *)
LEMMA StartRound ==
    ASSUME Inv, start_round
    PROVE  Inv'
<1>1. /\ main = "loop" /\ pc' = [t \in Threads |-> 1]
      /\ UNCHANGED <<test, runtime, ii, value, loaded, retval, lost>>
      /\ value = test.initial /\ (~Patterned => ~lost) /\ TypeInv /\ VerdictInv
    BY DEF start_round, Inv, VerdictInv
<1>2. main' = "wait"
    BY <1>1 DEF start_round
<1>3. \A t \in Threads : loaded[t] = <<>> /\ pc'[t] = 1
    BY <1>1, AtRest
<1>4. TypeInv'
  <2>1. \A t \in Threads : Operands(t)' = Operands(t) /\ Len(Operands(t)) \in Nat
      BY <1>1, Lengths DEF Operands, Loops, TypeInv
  <2> QED BY <1>1, <1>2, <1>3, <2>1 DEF TypeInv
<1>5. VerdictInv'
    BY <1>1, <1>2 DEF VerdictInv, Patterned
<1>6. ASSUME Counting PROVE CountInv'
  <2>1. Total' = 0
      BY <1>3 DEF Total, Threads
  <2>2. value \in Int /\ Counted(value)' = 0
      BY <1>1, <1>6, Kinds, AllOpsIs, CountsAssumption DEF Counted, TypeInv
  <2>3. ~lost
      BY <1>1, <1>6 DEF Counting, Patterned
  <2> QED BY <1>1, <1>3, <2>1, <2>2, <2>3 DEF CountInv
<1>7. ASSUME Marking PROVE MarkInv'
  <2>1. Marked' = {}
      BY <1>3 DEF Marked
  <2>2. value \in SUBSET Bits /\ Marks(value)' = {}
      BY <1>1, <1>7, Kinds DEF Marking, Marks, TypeInv, ALL_BITS, NO_BITS
  <2>3. ~lost
      BY <1>1, <1>7 DEF Marking, Patterned
  <2> QED BY <1>1, <1>3, <2>1, <2>2, <2>3 DEF MarkInv
<1>8. ASSUME Patterned PROVE PatternInv'
  <2>1. value = NO_BITS
      BY <1>1, <1>8, Kinds DEF TypeInv
  <2> QED BY <1>1, <1>3, <2>1 DEF PatternInv, Patterns, NO_BITS
<1>9. ASSUME test.op = "cas" PROVE CasInv'
  <2>1. value = 0 /\ ~lost
      BY <1>1, <1>9, Kinds DEF TypeInv, Patterned
  <2> QED BY <1>1, <1>3, <2>1 DEF CasInv, Won
<1>10. ASSUME test.op = "write_index_cas" PROVE TurnInv'
  <2>1. value = 0 /\ ~lost
      BY <1>1, <1>10, Kinds DEF TypeInv, Patterned
  <2>2. \A t \in Threads : Turn(t)' = t /\ t \in 0..3
      BY <1>3 DEF Turn, Threads
  <2> QED BY <1>1, <1>3, <2>1, <2>2, CountsAssumption DEF TurnInv
<1>11. RoundInv'
    BY <1>1, <1>6, <1>7, <1>8, <1>9, <1>10 DEF RoundInv, Counting, Marking, Patterned
<1> QED BY <1>4, <1>5, <1>11 DEF Inv

(* At the end of a round every thread is behind its last operation. *)
LEMMA AtTheEnd ==
    ASSUME TypeInv, \A t \in Threads : Finished(t), NEW t \in Threads
    PROVE  pc[t] = Len(Operands(t)) + 1
<1>1. Len(Operands(t)) \in Nat
    BY Lengths DEF TypeInv
<1>2. pc[t] \in 1..(Len(Operands(t)) + 1) /\ pc[t] > Len(Operands(t))
    BY DEF TypeInv, Finished
<1> QED BY <1>1, <1>2

(* A count that is complete is accepted, and no other. *)
LEMMA CountVerdict ==
    ASSUME TypeInv, Counting, CountInv, \A t \in Threads : Finished(t)
    PROVE  RoundAccepted <=> ~lost
<1>1. \A t \in Threads : pc[t] = OpCount + 1
    BY AtTheEnd, CountOperands
<1>2. Total = AllOps /\ AllOps \in Int
  <2>1. 0 \in Threads /\ 1 \in Threads /\ 2 \in Threads /\ 3 \in Threads
      BY DEF Threads
  <2> QED BY <1>1, <2>1, AllOpsIs, CountsAssumption DEF Total
<1>3. RoundAccepted <=> Counted(value) = AllOps
  <2>1. value \in Int
      BY DEF CountInv
  <2>2. CASE test.op = "subtract"
      BY <1>2, <2>1, <2>2 DEF RoundAccepted, Counted
  <2>3. CASE test.op \in {"add", "write_index_add"}
      BY <2>3 DEF RoundAccepted, Counted
  <2> QED BY <2>2, <2>3 DEF Counting
<1> QED BY <1>2, <1>3 DEF CountInv, TypeInv

(* All bits are marked at the end unless an update was lost. *)
LEMMA MarkVerdict ==
    ASSUME TypeInv, Marking, MarkInv, \A t \in Threads : Finished(t)
    PROVE  RoundAccepted <=> ~lost
<1>1. \A t \in Threads : pc[t] = Groups + 1
    BY AtTheEnd, MarkOperands
<1>2. Marked = Bits
    BY <1>1, MarksApart, CountsAssumption DEF Marked
<1>3. RoundAccepted <=> Marks(value) = Bits
    BY DEF RoundAccepted, Marking, Marks, MarkInv, ALL_BITS, NO_BITS
<1> QED BY <1>2, <1>3 DEF MarkInv, TypeInv

(* Exactly one winner, whose value stays, unless an update was lost. *)
LEMMA CasVerdict ==
    ASSUME TypeInv, test.op = "cas", CasInv, \A t \in Threads : Finished(t)
    PROVE  RoundAccepted <=> ~lost
<1>1. ASSUME NEW t \in Threads PROVE pc[t] = 2
  <2>1. Len(Operands(t)) = 1 /\ pc[t] = Len(Operands(t)) + 1
      BY AtTheEnd, CasOperands
  <2> QED BY <2>1
<1>2. Winners = {t \in Threads : Won(t)}
    BY <1>1 DEF Winners, Won, Unset
<1>3. PICK w \in Threads : w \in Winners /\ value = w + 1
  <2>1. 0 \in Threads
      BY DEF Threads
  <2> QED BY <1>1, <1>2, <2>1 DEF CasInv
<1>4. IsFiniteSet(Winners)
  <2>1. IsFiniteSet(0..3)
      BY ONLY 0 \in Int, 3 \in Int, FS_Interval
  <2> QED BY <2>1, FS_Subset DEF Winners, Threads
<1>5. RoundAccepted <=> Cardinality(Winners) = 1 /\ \A t \in Winners : value = t + 1
    BY DEF RoundAccepted
<1>6. Cardinality(Winners) = 1 <=> \E x : Winners = {x}
    BY <1>4, FS_Singleton
<1>7. lost <=> \E s, t \in Winners : s # t
    BY <1>2 DEF CasInv
<1>8. CASE lost
  <2>1. Cardinality(Winners) # 1
      BY <1>6, <1>7, <1>8
  <2> QED BY <1>5, <1>8, <2>1
<1>9. CASE ~lost
  <2>1. Winners = {w}
      BY <1>3, <1>7, <1>9
  <2>2. Cardinality(Winners) = 1
      BY <1>6, <2>1
  <2> QED BY <1>3, <1>5, <1>9, <2>1, <2>2
<1> QED BY <1>8, <1>9

(* The turns end at TerminationValue. *)
LEMMA TurnVerdict ==
    ASSUME TypeInv, test.op = "write_index_cas", TurnInv, \A t \in Threads : Finished(t)
    PROVE  RoundAccepted <=> ~lost
<1>1. \A t \in Threads : pc[t] = Turns(t) + 1 /\ Turns(t) \in Nat
    BY AtTheEnd, TurnOperands, TurnsAre
<1>2. value \in Nat /\ value <= TerminationValue /\ TerminationValue \in Nat
    BY CountsAssumption DEF TurnInv
<1>3. \A t \in Threads : ~(t + 4 * Turns(t) < TerminationValue)
    BY <1>1, TurnsAre
<1>4. PICK t \in 0..3, q \in Nat : value = 4 * q + t
  <2>1. value = 4 * (value \div 4) + (value % 4) /\ value \div 4 \in Nat /\ value % 4 \in 0..3
      BY <1>2
  <2> QED BY <2>1
<1>5. t \in Threads
    BY DEF Threads
<1>6. PICK k \in Nat : k = Turns(t)
    BY <1>1, <1>5
<1>7. value <= t + 4 * k /\ t + 4 * k < value + 4 /\ ~(t + 4 * k < TerminationValue)
  <2>1. Turn(t) = t + 4 * k
      BY <1>1, <1>5, <1>6 DEF Turn
  <2> QED BY <1>3, <1>5, <1>6, <2>1 DEF TurnInv
<1>8. value = TerminationValue
    BY <1>2, <1>4, <1>6, <1>7
<1> QED BY <1>8 DEF RoundAccepted, TurnInv

(* Any pattern is accepted. *)
LEMMA PatternVerdict ==
    ASSUME Patterned, PatternInv
    PROVE  RoundAccepted
<1>1. {Pattern(t) : t \in Threads} = Patterns
  <2>1. 0 \in Threads /\ 1 \in Threads /\ 2 \in Threads /\ 3 \in Threads
      BY DEF Threads
  <2>2. \A t \in Threads : Pattern(t) \in Patterns
      BY DEF Pattern, Patterns, Threads
  <2>3. /\ Pattern(0) = NO_BITS /\ Pattern(1) = ALL_BITS
        /\ Pattern(2) = ALT_BITS_1 /\ Pattern(3) = ALT_BITS_2
      BY DEF Pattern
  <2> QED BY <2>1, <2>2, <2>3 DEF Patterns
<1> QED BY <1>1 DEF RoundAccepted, Patterned, PatternInv

(* What the check of each test says about the round. *)
LEMMA Verdict ==
    ASSUME TypeInv, RoundInv, \A t \in Threads : Finished(t)
    PROVE  /\ Patterned => RoundAccepted
           /\ ~Patterned => (RoundAccepted <=> ~lost)
BY Kinds, CountVerdict, MarkVerdict, CasVerdict, TurnVerdict, PatternVerdict
   DEF RoundInv, TypeInv

(* After the check the signal is reset, and a lost update was noticed. *)
LEMMA CheckRound ==
    ASSUME Inv, check_round
    PROVE  Inv'
<1>1. /\ main = "wait" /\ \A t \in Threads : Finished(t)
      /\ main' = IF RoundAccepted THEN "loop" ELSE "failed"
      /\ value' = test.initial /\ UNCHANGED <<test, runtime, pc, loaded, retval, lost>>
      /\ TypeInv /\ VerdictInv /\ RoundInv
    BY DEF check_round, Inv
<1>2. \A t \in Threads : loaded[t] = <<>> /\ Operands(t)' = Operands(t)
    BY <1>1, AtRest DEF Operands, Loops
<1>3. TypeInv'
    BY <1>1, <1>2 DEF TypeInv
<1>4. (Patterned => RoundAccepted) /\ (~Patterned => (RoundAccepted <=> ~lost))
    BY <1>1, Verdict
<1>5. VerdictInv'
    BY <1>1, <1>4 DEF VerdictInv, Patterned
<1>6. main' # "wait"
    BY <1>1
<1> QED BY <1>3, <1>5, <1>6 DEF Inv

(* The end of the test, and a step that changes nothing. *)
LEMMA Finish ==
    ASSUME Inv, finish \/ UNCHANGED vars
    PROVE  Inv'
<1>1. CASE finish
  <2>1. /\ main = "loop" /\ main' = "end" /\ TypeInv /\ VerdictInv
        /\ UNCHANGED <<test, runtime, value, pc, loaded, retval, lost>>
      BY <1>1 DEF finish, Inv
  <2>2. \A t \in Threads : loaded[t] = <<>> /\ Operands(t)' = Operands(t)
      BY <2>1, AtRest DEF Operands, Loops
  <2>3. TypeInv'
      BY <2>1, <2>2 DEF TypeInv
  <2>4. VerdictInv'
      BY <2>1 DEF VerdictInv, Patterned
  <2> QED BY <2>1, <2>3, <2>4 DEF Inv
<1>2. CASE UNCHANGED vars
  <2>1. UNCHANGED <<test, runtime, main, ii, value, pc, loaded, retval, lost>>
      BY <1>2 DEF vars
  <2>2. TypeInv' <=> TypeInv
      BY <2>1 DEF TypeInv, Operands, Loops, Running, Finished, Tears
  <2>3. VerdictInv' <=> VerdictInv
      BY <2>1 DEF VerdictInv, Patterned
  <2>4. CountInv' <=> CountInv
      BY <2>1 DEF CountInv, Counted, Total
  <2>5. MarkInv' <=> MarkInv
      BY <2>1 DEF MarkInv, Marks, Marked, Mark
  <2>6. (PatternInv' <=> PatternInv) /\ (CasInv' <=> CasInv) /\ (TurnInv' <=> TurnInv)
      BY <2>1 DEF PatternInv, CasInv, TurnInv, Won, Turn
  <2>7. RoundInv' <=> RoundInv
      BY <2>1, <2>4, <2>5, <2>6 DEF RoundInv, Counting, Marking, Patterned
  <2> QED BY <2>1, <2>2, <2>3, <2>7 DEF Inv
<1> QED BY <1>1, <1>2

(* A thread's step keeps the part of the invariant that is about its test. *)
LEMMA ThreadInv ==
    ASSUME Inv, NEW t \in Threads, ThreadStep(t)
    PROVE  Inv'
<1>1. TypeInv /\ VerdictInv /\ UNCHANGED <<test, runtime, main, ii>> /\ main = "wait"
    BY StepIs DEF Inv
<1>2. RoundInv
    BY <1>1 DEF Inv
<1>3. TypeInv'
    BY <1>1, TypeStep
<1>4. VerdictInv'
    BY <1>1, StepIs DEF VerdictInv, Patterned
<1>5. /\ Counting' = Counting /\ Marking' = Marking /\ Patterned' = Patterned
    BY <1>1 DEF Counting, Marking, Patterned
<1>6. RoundInv'
    BY <1>1, <1>2, <1>5, CountStep, MarkStep, PatternStep, CasStep, TurnStep DEF RoundInv
<1> QED BY <1>3, <1>4, <1>6 DEF Inv

(* The first round begins as the others. *)
LEMMA InitInv == Init => Inv
<1> SUFFICES ASSUME Init PROVE Inv
    OBVIOUS
<1>1. /\ test \in Tests /\ runtime \in {"atomic", "lossy"} /\ main = "create"
      /\ value = test.initial /\ pc = [t \in Threads |-> 1]
      /\ loaded = [t \in Threads |-> <<>>] /\ retval = [t \in Threads |-> <<>>]
      /\ lost = FALSE
    BY DEF Init
<1>2. TypeInv
  <2>1. \A t \in Threads : pc[t] \in 1..(Len(Operands(t)) + 1) /\ loaded[t] = <<>>
      BY <1>1, Lengths
  <2>2. pc \in [Threads -> Nat] /\ DOMAIN retval = Threads /\ DOMAIN loaded = Threads
      BY <1>1
  <2> QED BY <1>1, <2>1, <2>2 DEF TypeInv
<1> QED BY <1>1, <1>2 DEF Inv, VerdictInv

(* Every step keeps the invariant. *)
LEMMA NextInv == Inv /\ [Next]_vars => Inv'
<1> SUFFICES ASSUME Inv, [Next]_vars PROVE Inv'
    OBVIOUS
<1> QED BY Create, StartRound, CheckRound, Finish, ThreadInv DEF Next, Stopped

(* The inductive invariant, for any number of operations, rounds, groups   *)
(* of bits and turns, whichever threads a lossy runtime tears.             *)
THEOREM RoundsInvariant == Spec => []Inv
BY InitInv, NextInv, PTL DEF Spec

(* No check of an atomicity test fails on a runtime whose operations are   *)
(* atomic.                                                                 *)
THEOREM AtomicRuntimesPass == Spec => []OracleSound
<1>1. Inv => OracleSound
    BY DEF Inv, VerdictInv, OracleSound
<1> QED BY <1>1, RoundsInvariant, PTL

(* Whatever a lossy runtime tears apart, a test that counts, chooses a     *)
(* winner or gives every thread its own bits passes only if no update was  *)
(* lost (RoundAccepted, the ASSERT after each round).                      *)
THEOREM LostUpdatesAreNoticed == Spec => []SensitiveTestsDetect
<1>1. Inv => SensitiveTestsDetect
    BY DEF Inv, VerdictInv, SensitiveTestsDetect, DetectsLostUpdates, Sensitive, Patterned
<1> QED BY <1>1, RoundsInvariant, PTL
=============================================================================
