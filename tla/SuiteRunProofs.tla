--------------------------- MODULE SuiteRunProofs ---------------------------
(***************************************************************************)
(* execute.sh's counters, proved for every set of targets and every        *)
(* number of configurations.                                               *)
(***************************************************************************)
EXTENDS SuiteRun, FiniteSetTheorems, WellFoundedInduction, TLAPS

(* The counters have their type, nothing is counted before a driver is     *)
(* started, and while execute.sh runs every line read is counted, as       *)
(* passed or as failed, in the totals or in the group, until the end moves *)
(* the last group to the totals.                                           *)
CountInv ==
    /\ LINE \in Nat \ {0}
    /\ GROUP \in Counters /\ TOTAL \in Counters
    /\ phase = "build" => driver = "none" /\ LINE = 1 /\ GROUP = Zero
                          /\ TOTAL = Zero /\ TEST_FAILURES = <<>>
    /\ phase = "end_of_file" => driver = "execute" /\ LINE = 1
    /\ driver = "execute" => TEST_FAILURES = <<>>
    /\ CountsEveryLine

(* Adding counters adds them one by one, and gives counters again. *)
LEMMA AddCounters ==
    \A c, d \in Counters :
        /\ Add(c, d) \in Counters
        /\ Add(c, d).total = c.total + d.total
        /\ Add(c, d).passed = c.passed + d.passed
        /\ Add(c, d).failed = c.failed + d.failed
BY DEF Add, Counters

(* A test is counted once, and one whose status is 0 as passed. *)
LEMMA CountIsOne ==
    \A rc \in {0, 1} :
        /\ Count(rc) \in Counters
        /\ Count(rc).total = 1
        /\ Count(rc).passed + Count(rc).failed = 1
        /\ rc = 0 => Count(rc).failed = 0
BY DEF Count, Counters

(* The empty counters are counters. *)
LEMMA ZeroIsZero ==
    /\ Zero \in Counters
    /\ Zero.total = 0 /\ Zero.passed = 0 /\ Zero.failed = 0
    /\ Add(Zero, Zero) = Zero
BY DEF Zero, Counters, Add

(* Nothing is counted in the beginning. *)
LEMMA InitCountInv == Init => CountInv
BY DEF Init, CountInv, CountsEveryLine, Zero, Counters

(* Every step of the script, of ctest and of cmake keeps the count. *)
LEMMA NextCountInv == CountInv /\ [Next]_vars => CountInv'
<1> SUFFICES ASSUME CountInv, [Next]_vars PROVE CountInv'
  OBVIOUS
<1> USE DEF CountInv
<1>1. CASE configure
  BY <1>1 DEF configure, CountsEveryLine
<1>2. CASE make_test
  BY <1>2 DEF make_test, CountsEveryLine
<1>3. ASSUME NEW argument \in {"test_lst", "missing", "none"}, execute(argument)
      PROVE  CountInv'
  <2>1. phase' \in {"read", "done", "end_of_file"} /\ driver' = "execute"
    BY <1>3 DEF execute
  <2>2. UNCHANGED <<LINE, GROUP, TOTAL, TEST_FAILURES>> /\ phase = "build"
    BY <1>3 DEF execute
  <2>3. CountsEveryLine'
    <3>1. Len(TEST_FAILURES') = 0 /\ LINE' = 1
      BY <2>2
    <3>2. TOTAL' = Zero /\ Add(TOTAL', GROUP') = Zero
      BY <2>2, ZeroIsZero
    <3> QED
      BY <3>1, <3>2, ZeroIsZero DEF CountsEveryLine
  <2> QED
    BY <2>1, <2>2, <2>3
<1>4. CASE ctest_run
  BY <1>4 DEF ctest_run, CountsEveryLine
<1>5. CASE ctest_end
  BY <1>5 DEF ctest_end, CountsEveryLine
<1>6. CASE read_line
  <2>1. UNCHANGED <<driver, LINE, TEST_FAILURES>> /\ phase' = "running" /\ phase = "read"
    BY <1>6 DEF read_line
  <2>2. CASE UNCHANGED <<TOTAL, GROUP>>
    BY <2>1, <2>2 DEF CountsEveryLine
  <2>3. CASE TOTAL' = Add(TOTAL, GROUP) /\ GROUP' = Zero
    <3>1. TOTAL' \in Counters /\ GROUP' \in Counters
      BY <2>3, AddCounters, ZeroIsZero
    <3>2. /\ Add(TOTAL', GROUP').total = Add(TOTAL, GROUP).total
          /\ Add(TOTAL', GROUP').passed = Add(TOTAL, GROUP).passed
          /\ Add(TOTAL', GROUP').failed = Add(TOTAL, GROUP).failed
      <4>1. /\ Add(TOTAL', GROUP').total = TOTAL'.total + 0
            /\ Add(TOTAL', GROUP').passed = TOTAL'.passed + 0
            /\ Add(TOTAL', GROUP').failed = TOTAL'.failed + 0
        BY <2>3, <3>1, AddCounters DEF Zero
      <4>2. TOTAL'.total \in Nat /\ TOTAL'.passed \in Nat /\ TOTAL'.failed \in Nat
        BY <3>1 DEF Counters
      <4> QED
        BY <2>3, <4>1, <4>2
    <3> QED
      BY <2>1, <3>1, <3>2 DEF CountsEveryLine
  <2> QED
    BY <1>6, <2>2, <2>3 DEF read_line
<1>7. CASE run_line
  <2>1. /\ driver = "execute" /\ phase = "running" /\ phase' = "read"
        /\ LINE' = LINE + 1 /\ UNCHANGED <<driver, TOTAL>>
        /\ GROUP' = Add(GROUP, Count(0)) /\ TEST_FAILURES' = TEST_FAILURES
    BY <1>7 DEF run_line, wait_rc
  <2>2. GROUP' \in Counters
    BY <2>1, AddCounters, CountIsOne
  <2>3. /\ Add(TOTAL', GROUP').total = Add(TOTAL, GROUP).total + 1
        /\ Add(TOTAL', GROUP').passed + Add(TOTAL', GROUP').failed
             = Add(TOTAL, GROUP).passed + Add(TOTAL, GROUP).failed + 1
        /\ Add(TOTAL', GROUP').failed = Add(TOTAL, GROUP).failed
    <3>1. /\ GROUP'.total = GROUP.total + 1
          /\ GROUP'.passed = GROUP.passed + Count(0).passed
          /\ GROUP'.failed = GROUP.failed + Count(0).failed
          /\ Count(0).failed = 0 /\ Count(0).passed = 1
      BY <2>1, AddCounters, CountIsOne DEF Count
    <3>2. /\ GROUP.total \in Nat /\ GROUP.passed \in Nat /\ GROUP.failed \in Nat
          /\ TOTAL.total \in Nat /\ TOTAL.passed \in Nat /\ TOTAL.failed \in Nat
      BY DEF Counters
    <3>3. /\ Add(TOTAL', GROUP').total = TOTAL.total + GROUP'.total
          /\ Add(TOTAL', GROUP').passed = TOTAL.passed + GROUP'.passed
          /\ Add(TOTAL', GROUP').failed = TOTAL.failed + GROUP'.failed
      BY <2>1, <2>2, AddCounters
    <3>4. /\ Add(TOTAL, GROUP).total = TOTAL.total + GROUP.total
          /\ Add(TOTAL, GROUP).passed = TOTAL.passed + GROUP.passed
          /\ Add(TOTAL, GROUP).failed = TOTAL.failed + GROUP.failed
      BY AddCounters
    <3>5. Add(TOTAL', GROUP').total = Add(TOTAL, GROUP).total + 1
      BY <3>1, <3>2, <3>3, <3>4
    <3>6. /\ Add(TOTAL', GROUP').passed = Add(TOTAL, GROUP).passed + 1
          /\ Add(TOTAL', GROUP').failed = Add(TOTAL, GROUP).failed
      BY <3>1, <3>2, <3>3, <3>4
    <3>7. Add(TOTAL, GROUP).passed \in Nat /\ Add(TOTAL, GROUP).failed \in Nat
      BY <3>2, <3>4
    <3> QED
      BY <3>5, <3>6, <3>7
  <2>4. /\ Add(TOTAL, GROUP).total = LINE - 1
        /\ Add(TOTAL, GROUP).passed + Add(TOTAL, GROUP).failed = Add(TOTAL, GROUP).total
        /\ Len(TEST_FAILURES) = Add(TOTAL, GROUP).failed
    BY <2>1 DEF CountsEveryLine
  <2>5. CountsEveryLine'
    BY <2>1, <2>3, <2>4 DEF CountsEveryLine
  <2> QED
    BY <2>1, <2>2, <2>5
<1>8. CASE hang
  BY <1>8 DEF hang, CountsEveryLine
<1>9. CASE finish
  <2>1. /\ driver = "execute" /\ phase \in {"read", "end_of_file"} /\ phase' = "done"
        /\ TOTAL' = Add(TOTAL, GROUP)
        /\ UNCHANGED <<driver, LINE, GROUP, TEST_FAILURES>>
    BY <1>9 DEF finish, AtEnd
  <2>2. TOTAL' \in Counters
    BY <2>1, AddCounters
  <2> QED
    BY <2>1, <2>2 DEF CountsEveryLine
<1>10. CASE UNCHANGED vars
  BY <1>10 DEF vars, CountsEveryLine
<1> QED
  BY <1>1, <1>2, <1>3, <1>4, <1>5, <1>6, <1>7, <1>8, <1>9, <1>10 DEF Next, Ended

(* No line of test.lst is lost or counted twice by execute.sh, whatever    *)
(* the targets, their lists and the outcomes of the tests are.             *)
THEOREM CountsAreComplete == Spec => []CountsEveryLine
<1>1. CountInv => CountsEveryLine
  BY DEF CountInv
<1> QED
  BY <1>1, InitCountInv, NextCountInv, PTL DEF Spec

(***************************************************************************)
(* ctest's verdict.                                                        *)
(***************************************************************************)
Broken == \E i \in DOMAIN results : results[i] \in {"fail", "crash", "hang"}

(* What a test did is one of the things a test can do, nothing ran before  *)
(* a driver was started, and ctest, which never hangs, has noted a failure *)
(* exactly when a test was broken; its status says so at the end.          *)
VerdictInv ==
    /\ LINE \in Nat \ {0}
    /\ results \in Seq({"none", "pass", "fail", "crash", "hang"})
    /\ phase = "build" => driver = "none" /\ results = <<>> /\ TEST_FAILURES = <<>>
    /\ driver = "ctest" =>
         /\ phase \in {"read", "done"}
         /\ TEST_FAILURES \in Seq({ctests[i] : i \in Nat})
         /\ TEST_FAILURES # <<>> <=> Broken
         /\ phase = "done" => status = IF TEST_FAILURES = <<>> THEN 0 ELSE 1

(* Nothing failed in the beginning. *)
LEMMA InitVerdictInv == Init => VerdictInv
BY DEF Init, VerdictInv

(* Each test ctest runs adds to the failures exactly when it is broken:    *)
(* the number of failed tests and the exit status of the executable pass   *)
(* its result on.                                                          *)
LEMMA NextVerdictInv == VerdictInv /\ [Next]_vars => VerdictInv'
<1> SUFFICES ASSUME VerdictInv, [Next]_vars PROVE VerdictInv'
  OBVIOUS
<1> USE DEF VerdictInv, Broken
<1>1. CASE configure
  BY <1>1 DEF configure
<1>2. CASE make_test
  BY <1>2 DEF make_test, buildVars
<1>3. ASSUME NEW argument \in {"test_lst", "missing", "none"}, execute(argument)
      PROVE  VerdictInv'
  BY <1>3 DEF execute
<1>4. CASE ctest_run
  <2>1. PICK result \in Outcomes(Lines[LINE]) :
              /\ results' = Append(results, result)
              /\ TEST_FAILURES' = IF RUN_TESTS(result) # 0
                                    THEN Append(TEST_FAILURES, Lines[LINE]) ELSE TEST_FAILURES
    BY <1>4 DEF ctest_run
  <2>2. result \in {"none", "pass", "fail", "crash", "hang"}
    BY BehavioursAssumption DEF Outcomes
  <2>3. RUN_TESTS(result) # 0 <=> result \in {"fail", "crash", "hang"}
    BY <2>2 DEF RUN_TESTS, number_failed
  <2>4. /\ driver = "ctest" /\ phase = "read" /\ LINE' = LINE + 1
        /\ UNCHANGED <<ctests, driver, phase, status>>
        /\ Lines[LINE] = ctests[LINE]
    BY <1>4 DEF ctest_run, buildVars, Lines
  <2>5. /\ results' \in Seq({"none", "pass", "fail", "crash", "hang"})
        /\ Len(results') = Len(results) + 1
        /\ \A i \in 1..Len(results) : results'[i] = results[i]
        /\ results'[Len(results) + 1] = result
    BY <2>1, <2>2
  <2>6. Broken' <=> Broken \/ result \in {"fail", "crash", "hang"}
    BY <2>5
  <2>7. CASE result \in {"fail", "crash", "hang"}
    <3>1. TEST_FAILURES' = Append(TEST_FAILURES, ctests[LINE])
      BY <2>1, <2>3, <2>4, <2>7
    <3>2. TEST_FAILURES' \in Seq({ctests[i] : i \in Nat}) /\ TEST_FAILURES' # <<>>
      BY <2>4, <3>1
    <3> QED BY <2>4, <2>5, <2>6, <2>7, <3>2
  <2>8. CASE result \notin {"fail", "crash", "hang"}
    BY <2>1, <2>3, <2>4, <2>5, <2>6, <2>8
  <2> QED BY <2>7, <2>8
<1>5. CASE ctest_end
  BY <1>5 DEF ctest_end, buildVars
<1>6. CASE read_line
  BY <1>6 DEF read_line
<1>7. CASE run_line
  <2>1. PICK result \in Outcomes(Lines[LINE]) : results' = Append(results, result)
    BY <1>7 DEF run_line
  <2>2. result \in {"none", "pass", "fail", "crash", "hang"}
    BY BehavioursAssumption DEF Outcomes
  <2> QED BY <1>7, <2>1, <2>2 DEF run_line
<1>8. CASE hang
  BY <1>8 DEF hang
<1>9. CASE finish
  BY <1>9 DEF finish, AtEnd
<1>10. CASE UNCHANGED vars
  BY <1>10 DEF vars
<1> QED
  BY <1>1, <1>2, <1>3, <1>4, <1>5, <1>6, <1>7, <1>8, <1>9, <1>10 DEF Next, Ended

(* make test fails exactly when some test failed, crashed or hung,         *)
(* whatever the targets and their lists are.                               *)
THEOREM CTestIsTruthful == Spec => []CTestTellsFailures
<1>1. VerdictInv => CTestTellsFailures
  BY DEF VerdictInv, CTestTellsFailures, Broken
<1> QED
  BY <1>1, InitVerdictInv, NextVerdictInv, PTL DEF Spec

(***************************************************************************)
(* test.lst.  Listed is a recursive function; that it exists, and that     *)
(* what it lists are lines, is shown for the shortest prefix of the        *)
(* targets for which it would fail.                                        *)
(***************************************************************************)
Line == STRING \X (STRING \ {"no_group"})

(* The lines of one target. *)
Block(i) == [n \in DOMAIN Targets[i].listed |-> <<Targets[i].listed[n], Targets[i].name>>]

(* f lists the first n targets. *)
IsListed(f, n) == f = [i \in 0..n |-> IF i = 0 THEN <<>> ELSE f[i - 1] \o Block(i)]

(* A nonempty set of numbers has a least one. *)
LEMMA LeastNumber ==
    ASSUME NEW H \in SUBSET Nat, H # {}
    PROVE  \E x \in H : \A y \in H : x <= y
<1> DEFINE R == {ss \in Nat \X Nat : ss[1] < ss[2]}
<1>1. IsWellFoundedOn(R, Nat)
    BY NatLessThanWellFounded DEF OpToRel
<1> HIDE DEF R
<1>2. PICK x \in H : \A y \in H : ~(<<y, x>> \in R)
    BY <1>1, WFMin
<1>3. ASSUME NEW y \in H PROVE x <= y
    <2>1. x \in Nat /\ y \in Nat /\ <<y, x>> \in Nat \X Nat
        OBVIOUS
    <2>2. ~(<<y, x>> \in R)
        BY <1>2
    <2> QED BY <2>1, <2>2 DEF R
<1> QED BY <1>3

(* A target's lines are lines. *)
LEMMA BlockIsLines == \A i \in 1..Len(Targets) : Block(i) \in Seq(Line)
<1> TAKE i \in 1..Len(Targets)
<1> DEFINE T == [name : STRING \ {"no_group"}, listed : Seq(STRING), added : SUBSET STRING]
<1>1. Targets[i] \in T
    <2>1. Targets \in Seq(T)
        BY TargetsAssumption
    <2> HIDE DEF T
    <2> QED BY <2>1
<1>2. Targets[i].listed \in Seq(STRING) /\ Targets[i].name \in STRING \ {"no_group"}
    BY <1>1
<1>3. DOMAIN Targets[i].listed = 1..Len(Targets[i].listed) /\ Len(Targets[i].listed) \in Nat
    BY <1>2
<1>4. \A n \in DOMAIN Targets[i].listed :
        <<Targets[i].listed[n], Targets[i].name>> \in Line
    BY <1>2 DEF Line
<1> QED BY <1>3, <1>4 DEF Block

(* There is a list of the first n targets, for every n. *)
LEMMA ListExists == \A n \in 0..Len(Targets) : \E f : IsListed(f, n)
<1> SUFFICES ASSUME NEW m \in 0..Len(Targets), ~ \E f : IsListed(f, m) PROVE FALSE
    OBVIOUS
<1> Len(Targets) \in Nat
    BY TargetsAssumption
<1> DEFINE H == {n \in 0..Len(Targets) : ~ \E f : IsListed(f, n)}
<1>1. PICK n \in H : \A k \in H : n <= k
    <2>1. H \in SUBSET Nat /\ H # {}
        OBVIOUS
    <2> HIDE DEF H
    <2> QED BY <2>1, LeastNumber
<1>2. n # 0
    <2>1. IsListed([i \in 0..0 |-> <<>>], 0)
        BY DEF IsListed
    <2> QED BY <2>1
<1>3. n \in 1..Len(Targets) /\ n - 1 \in 0..Len(Targets)
    BY <1>2
<1>4. PICK f : IsListed(f, n - 1)
    BY <1>1, <1>3
<1> DEFINE g == [i \in 0..n |-> IF i = n THEN f[n - 1] \o Block(n) ELSE f[i]]
<1>5. \A i \in 0..(n - 1) : f[i] = IF i = 0 THEN <<>> ELSE f[i - 1] \o Block(i)
    BY <1>4, Zenon DEF IsListed
<1>6. \A i \in 0..n : g[i] = IF i = 0 THEN <<>> ELSE g[i - 1] \o Block(i)
    <2> TAKE i \in 0..n
    <2>1. CASE i = n
        <3>1. n \in 0..n /\ n - 1 \in 0..n /\ n - 1 # n /\ n # 0
            BY <1>3
        <3>2. g[n] = f[n - 1] \o Block(n) /\ g[n - 1] = f[n - 1]
            BY <3>1
        <3> HIDE DEF g
        <3> QED BY <2>1, <3>1, <3>2
    <2>2. CASE i # n
        <3>1. i \in 0..(n - 1) /\ (i # 0 => i - 1 \in 0..n /\ i - 1 # n)
            BY <1>3, <2>2
        <3> QED BY <1>5, <3>1, <2>2
    <2> QED BY <2>1, <2>2
<1>7. IsListed(g, n)
    BY <1>6 DEF IsListed
<1> QED BY <1>7

(* The definition of Listed defines it. *)
LEMMA ListedIs == IsListed(Listed, Len(Targets))
<1>1. PICK f : IsListed(f, Len(Targets))
    BY ListExists, TargetsAssumption
<1> QED BY <1>1, Zenon DEF IsListed, Listed, Block

(* cmake lists lines. *)
LEMMA ListedIsLines == Listed[Len(Targets)] \in Seq(Line)
<1> SUFFICES ASSUME Listed[Len(Targets)] \notin Seq(Line) PROVE FALSE
    OBVIOUS
<1> Len(Targets) \in Nat
    BY TargetsAssumption
<1> DEFINE H == {n \in 0..Len(Targets) : Listed[n] \notin Seq(Line)}
<1>1. PICK n \in H : \A k \in H : n <= k
    <2>1. H \in SUBSET Nat /\ H # {}
        OBVIOUS
    <2> HIDE DEF H
    <2> QED BY <2>1, LeastNumber
<1>2. \A i \in 0..Len(Targets) : Listed[i] = IF i = 0 THEN <<>> ELSE Listed[i - 1] \o Block(i)
    BY ListedIs, Zenon DEF IsListed
<1>3. n # 0
    <2>1. Listed[0] = <<>>
        BY <1>2
    <2>2. Listed[0] \in Seq(Line)
        BY <2>1
    <2> QED BY <2>2
<1>4. n \in 1..Len(Targets) /\ n - 1 \in 0..Len(Targets) /\ n - 1 < n
    BY <1>3
<1>5. Listed[n - 1] \in Seq(Line)
    BY <1>1, <1>4
<1>6. Listed[n] = Listed[n - 1] \o Block(n)
    BY <1>2, <1>3, <1>4
<1>7. Listed[n - 1] \o Block(n) \in Seq(Line)
    BY <1>4, <1>5, BlockIsLines
<1> QED BY <1>6, <1>7

(***************************************************************************)
(* The groups of a list L of lines: where they start, where the one that   *)
(* starts at i ends, the place of a group among them, and the group that   *)
(* is open once n lines are read.                                          *)
(***************************************************************************)
Starts(L) == {i \in DOMAIN L : i = 1 \/ L[i][2] # L[i - 1][2]}
EndOf(L, i) == CHOOSE j \in DOMAIN L :
    j >= i /\ (j = Len(L) \/ j + 1 \in Starts(L)) /\ \A k \in (i + 1)..j : k \notin Starts(L)
Place(L, i) == Cardinality({k \in Starts(L) : k <= i})
Open(L, g, n) == g \in Starts(L) /\ g <= n /\ \A k \in (g + 1)..n : k \notin Starts(L)

(* The results R have the group that starts at i in its place. *)
Reported(L, R, i) ==
    R[Place(L, i)][1] = L[i][2] /\ R[Place(L, i)][2].total = EndOf(L, i) - i + 1

(* Groups start at lines. *)
LEMMA StartsAreLines ==
    ASSUME NEW L \in Seq(Line)
    PROVE  /\ Starts(L) \subseteq 1..Len(L) /\ Len(L) \in Nat
           /\ \A i \in Starts(L) : i \in Nat /\ i >= 1 /\ i <= Len(L)
BY DEF Starts

(* The starts up to a line are finitely many. *)
LEMMA StartsAreFinite ==
    ASSUME NEW L \in Seq(Line), NEW n \in Nat
    PROVE  /\ Starts(L) \subseteq 1..Len(L)
           /\ IsFiniteSet(Starts(L))
           /\ IsFiniteSet({k \in Starts(L) : k <= n})
           /\ Place(L, n) \in Nat
<1>1. Starts(L) \subseteq 1..Len(L) /\ Len(L) \in Nat
    BY DEF Starts
<1>2. IsFiniteSet(1..Len(L))
    <2>1. 1 \in Int /\ Len(L) \in Int
        BY <1>1
    <2> QED BY ONLY <2>1, FS_Interval
<1>3. IsFiniteSet(Starts(L))
    BY <1>1, <1>2, FS_Subset
<1>4. IsFiniteSet({k \in Starts(L) : k <= n})
    BY <1>3, FS_Subset
<1> QED BY <1>1, <1>3, <1>4, FS_CardinalityType DEF Place

(* The first line starts a group. *)
LEMMA FirstStarts ==
    ASSUME NEW L \in Seq(Line), Len(L) > 0
    PROVE  Open(L, 1, 1) /\ Place(L, 1) = 1
<1>1. 1 \in Starts(L)
    BY DEF Starts
<1>2. {k \in Starts(L) : k <= 1} = {1}
    BY <1>1, StartsAreLines
<1>3. Open(L, 1, 1)
    BY <1>1 DEF Open
<1>4. Place(L, 1) = 1
    BY <1>2, FS_Singleton DEF Place
<1> QED BY <1>3, <1>4

(* The open group stays open with a line that starts no other. *)
LEMMA StaysOpen ==
    ASSUME NEW L \in Seq(Line), NEW n \in Nat \ {0}, NEW g, Open(L, g, n),
           n + 1 \notin Starts(L)
    PROVE  Open(L, g, n + 1)
BY StartsAreLines DEF Open

(* A line that starts a group opens it, in the next place, and is the end  *)
(* of the one before.                                                      *)
LEMMA NextOpens ==
    ASSUME NEW L \in Seq(Line), NEW n \in Nat \ {0}, NEW g, Open(L, g, n),
           n + 1 \in Starts(L)
    PROVE  /\ Open(L, n + 1, n + 1)
           /\ Place(L, n + 1) = Place(L, g) + 1
           /\ g \in Nat /\ g < n + 1
<1>1. Open(L, n + 1, n + 1)
    BY DEF Open
<1>2. g \in Nat /\ g < n + 1 /\ g \in Starts(L)
    BY StartsAreLines DEF Open
<1>3. {k \in Starts(L) : k <= n + 1} = {k \in Starts(L) : k <= g} \cup {n + 1}
    BY <1>2, StartsAreLines DEF Open
<1>4. n + 1 \notin {k \in Starts(L) : k <= g} /\ IsFiniteSet({k \in Starts(L) : k <= g})
    BY <1>2, StartsAreFinite
<1> QED BY <1>1, <1>2, <1>3, <1>4, FS_AddElement DEF Place

(* The end of a group is the line before the next one starts, or the last. *)
LEMMA EndIs ==
    ASSUME NEW L \in Seq(Line), NEW n \in DOMAIN L, NEW g, Open(L, g, n),
           n = Len(L) \/ n + 1 \in Starts(L)
    PROVE  EndOf(L, g) = n
<1> DEFINE P(j) == /\ j \in DOMAIN L /\ j >= g /\ (j = Len(L) \/ j + 1 \in Starts(L))
                   /\ \A k \in (g + 1)..j : k \notin Starts(L)
<1>1. g \in 1..Len(L) /\ n \in 1..Len(L) /\ Len(L) \in Nat
    BY StartsAreLines DEF Open
<1>2. P(n)
    BY <1>1 DEF Open
<1>3. ASSUME NEW j, P(j) PROVE j = n
    <2>1. j \in 1..Len(L)
        BY <1>3
    <2>2. ~(j < n)
        <3> SUFFICES ASSUME j < n PROVE FALSE
            OBVIOUS
        <3>1. j + 1 \in Starts(L) /\ j + 1 \in (g + 1)..n
            BY <1>1, <1>3, <2>1
        <3> QED BY <3>1 DEF Open
    <2>3. ~(n < j)
        <3> SUFFICES ASSUME n < j PROVE FALSE
            OBVIOUS
        <3>1. n + 1 \in Starts(L) /\ n + 1 \in (g + 1)..j
            BY <1>1, <1>2, <2>1
        <3> QED BY <1>3, <3>1
    <2> QED BY <1>1, <2>1, <2>2, <2>3
<1>4. P(EndOf(L, g))
    BY <1>2 DEF EndOf
<1> HIDE DEF P
<1> QED BY <1>3, <1>4

(* Earlier groups have earlier places. *)
LEMMA PlacesInOrder ==
    ASSUME NEW L \in Seq(Line), NEW i \in Starts(L), NEW g \in Starts(L), i < g
    PROVE  Place(L, i) \in 1..(Place(L, g) - 1)
<1>1. i \in Nat /\ g \in Nat
    BY StartsAreLines
<1> DEFINE A == {k \in Starts(L) : k <= i}
           B == {k \in Starts(L) : k <= g}
<1>2. IsFiniteSet(A) /\ IsFiniteSet(B)
    BY <1>1, StartsAreFinite
<1>3. i \in A /\ A \cup {g} \subseteq B /\ g \notin A
    BY <1>1, StartsAreLines
<1>4. Place(L, i) = Cardinality(A) /\ Place(L, g) = Cardinality(B)
    BY DEF Place
<1> HIDE DEF A, B
<1>5. Cardinality(A \cup {g}) = Cardinality(A) + 1 /\ IsFiniteSet(A \cup {g})
    BY <1>2, <1>3, FS_AddElement
<1>6. Cardinality(A \cup {g}) <= Cardinality(B)
    BY <1>2, <1>3, FS_Subset
<1>7. Cardinality(A) # 0
    BY <1>2, <1>3, FS_EmptySet
<1>8. Cardinality(A) \in Nat /\ Cardinality(B) \in Nat
    BY <1>2, FS_CardinalityType
<1> QED BY <1>4, <1>5, <1>6, <1>7, <1>8

(* The last open group has the last place, and no group starts after it. *)
LEMMA LastPlace ==
    ASSUME NEW L \in Seq(Line), NEW g, Open(L, g, Len(L))
    PROVE  /\ Place(L, g) = Cardinality(Starts(L))
           /\ \A i \in Starts(L) : i <= g
<1>1. g \in 1..Len(L) /\ Len(L) \in Nat
    BY StartsAreLines DEF Open
<1>2. \A i \in Starts(L) : i <= g
    BY <1>1, StartsAreLines DEF Open
<1>3. {k \in Starts(L) : k <= g} = Starts(L)
    BY <1>2
<1> QED BY <1>2, <1>3 DEF Place

(* A line of results: the name of the group, which may still be the empty  *)
(* string, and its counters.                                               *)
GroupNames == STRING \cup {"no_group"}
Report == GroupNames \X Counters

(* How many lines execute.sh has read. *)
Read == IF phase = "running" THEN LINE ELSE LINE - 1

(* g is the open group: it has the name TEST_GROUP, GROUP counts its       *)
(* lines, and all groups before it are reported.                           *)
Current(g) ==
    /\ Open(test_lst, g, Read)
    /\ TEST_GROUP = test_lst[g][2] /\ TEST_GROUP = test_lst[Read][2]
    /\ GROUP.total = LINE - g
    /\ Len(reports) = Place(test_lst, g) - 1
    /\ \A i \in Starts(test_lst) : i < g => Reported(test_lst, reports, i)

(* test.lst holds lines; before the first is read no group is open; from   *)
(* then on one is, until the end reports it as well.                       *)
ReportInv ==
    /\ test_lst \in Seq(Line)
    /\ reports \in Seq(Report) /\ TEST_GROUP \in GroupNames
    /\ phase = "build" => reports = <<>> /\ TEST_GROUP = "no_group"
    /\ (driver = "execute" /\ phase \in {"read", "running"}) =>
         /\ LINE <= Len(test_lst) + 1
         /\ phase = "running" => LINE <= Len(test_lst)
         /\ IF Read = 0
              THEN reports = <<>> /\ TEST_GROUP = "no_group" /\ GROUP.total = 0
              ELSE \E g \in DOMAIN test_lst : Current(g)
    /\ (driver = "execute" /\ phase = "done" /\ LINE > 1) =>
         /\ Len(reports) = Cardinality(Starts(test_lst))
         /\ \A i \in Starts(test_lst) : Reported(test_lst, reports, i)

(* The reports of groups before the open one stay what they are when       *)
(* another is added.                                                       *)
LEMMA ReportsKept ==
    ASSUME NEW L \in Seq(Line), NEW R \in Seq(Report), NEW r \in Report,
           NEW g \in Starts(L), Len(R) = Place(L, g) - 1,
           \A i \in Starts(L) : i < g => Reported(L, R, i),
           r[1] = L[g][2], r[2].total = EndOf(L, g) - g + 1
    PROVE  /\ Len(Append(R, r)) = Place(L, g)
           /\ \A i \in Starts(L) : i <= g => Reported(L, Append(R, r), i)
<1>1. Place(L, g) \in Nat /\ g \in Nat
    BY StartsAreFinite, StartsAreLines
<1>2. Len(Append(R, r)) = Place(L, g) /\ Append(R, r)[Place(L, g)] = r
    BY <1>1
<1>3. ASSUME NEW i \in Starts(L), i < g
      PROVE  Reported(L, Append(R, r), i)
    <2>1. Place(L, i) \in 1..Len(R)
        BY <1>3, PlacesInOrder
    <2>2. Append(R, r)[Place(L, i)] = R[Place(L, i)]
        BY <2>1
    <2>3. Reported(L, R, i)
        BY <1>3
    <2> QED BY <2>2, <2>3 DEF Reported
<1>4. Reported(L, Append(R, r), g)
    BY <1>2 DEF Reported
<1>5. \A i \in Starts(L) : i \in Nat
    BY StartsAreLines
<1> QED BY <1>1, <1>2, <1>3, <1>4, <1>5

(* No group is open in the beginning. *)
LEMMA InitReportInv == Init => ReportInv
<1> SUFFICES ASSUME Init PROVE ReportInv
    OBVIOUS
<1>1. /\ test_lst = <<>> /\ reports = <<>> /\ TEST_GROUP = "no_group"
      /\ phase = "build" /\ driver = "none"
    BY DEF Init
<1>2. test_lst \in Seq(Line) /\ reports \in Seq(Report)
    BY <1>1
<1>3. TEST_GROUP \in GroupNames
    BY <1>1 DEF GroupNames
<1>4. driver # "execute"
    BY <1>1
<1> QED BY <1>1, <1>2, <1>3, <1>4 DEF ReportInv

(* The line that is read next belongs to the open group or closes it. *)
LEMMA ReadReportInv == CountInv /\ ReportInv /\ read_line => ReportInv'
<1> SUFFICES ASSUME CountInv, ReportInv, read_line PROVE ReportInv'
    OBVIOUS
<1> DEFINE L == test_lst
<1>1. /\ driver = "execute" /\ phase = "read" /\ phase' = "running" /\ driver' = "execute"
      /\ UNCHANGED <<test_lst, LINE>> /\ Lines = L /\ LINE <= Len(L)
      /\ TEST_GROUP' = L[LINE][2]
    BY DEF read_line, buildVars, Lines
<1>2. /\ L \in Seq(Line) /\ LINE \in Nat \ {0} /\ LINE \in DOMAIN L /\ GROUP \in Counters
      /\ reports \in Seq(Report) /\ TEST_GROUP \in GroupNames
    BY <1>1 DEF CountInv, ReportInv
<1>3. L[LINE] \in Line
    BY <1>2
<1>4. L[LINE][2] \in GroupNames /\ L[LINE][2] # "no_group"
    BY <1>3 DEF Line, GroupNames
<1>5. Read = LINE - 1 /\ Read' = LINE
    BY <1>1 DEF Read
<1>6. CASE Read = 0
    <2>1. LINE = 1 /\ reports = <<>> /\ TEST_GROUP = "no_group" /\ GROUP.total = 0
        BY <1>1, <1>2, <1>5, <1>6 DEF ReportInv
    <2>2. UNCHANGED <<reports, GROUP>>
        BY <1>1, <2>1 DEF read_line
    <2>3. Open(L, 1, 1) /\ Place(L, 1) = 1
        BY <1>1, <1>2, <2>1, FirstStarts
    <2>4. \A i \in Starts(L) : ~(i < 1)
        BY <1>2, StartsAreLines
    <2>5. Current(1)'
        BY <1>1, <1>2, <1>5, <2>1, <2>2, <2>3, <2>4 DEF Current
    <2> QED BY <1>1, <1>2, <1>4, <1>5, <2>1, <2>2, <2>5 DEF ReportInv
<1>7. CASE Read # 0
    <2>1. PICK g \in DOMAIN L : Current(g)
        BY <1>1, <1>7 DEF ReportInv
    <2>2. Read \in Nat \ {0} /\ Read + 1 = LINE /\ g \in Nat
        BY <1>2, <1>5, <1>7
    <2>3. TEST_GROUP # "no_group"
        <3>1. L[g] \in Line /\ TEST_GROUP = L[g][2]
            BY <1>2, <2>1 DEF Current
        <3> QED BY <3>1 DEF Line
    <2>4. LINE \in Starts(L) <=> L[LINE][2] # TEST_GROUP
        <3>1. LINE # 1 /\ Read = LINE - 1
            BY <1>2, <2>2
        <3>2. TEST_GROUP = L[LINE - 1][2]
            BY <2>1, <3>1 DEF Current
        <3> QED BY <1>2, <3>1, <3>2 DEF Starts
    <2>5. CASE LINE \notin Starts(L)
        <3>1. UNCHANGED <<reports, GROUP, TEST_GROUP>>
            BY <1>1, <2>4, <2>5 DEF read_line, NewGroup
        <3>2. Open(L, g, Read + 1)
            BY <1>2, <2>1, <2>2, <2>5, StaysOpen DEF Current
        <3>3. Open(L, g, LINE)
            BY <2>2, <3>2
        <3>4. Current(g)'
            BY <1>1, <1>5, <2>1, <3>1, <3>3 DEF Current
        <3> QED BY <1>1, <1>2, <1>4, <1>5, <2>1, <3>1, <3>4 DEF ReportInv
    <2>6. CASE LINE \in Starts(L)
        <3> DEFINE r == <<TEST_GROUP, GROUP>>
        <3>1. reports' = Append(reports, r) /\ GROUP' = Zero
            BY <1>1, <2>3, <2>4, <2>6 DEF read_line, NewGroup
        <3>2. Open(L, g, Read) /\ Read \in DOMAIN L /\ Read + 1 \in Starts(L)
            BY <1>1, <1>2, <2>1, <2>2, <2>6 DEF Current
        <3>3. EndOf(L, g) = Read
            BY <1>2, <3>2, EndIs
        <3>4. /\ Open(L, LINE, LINE) /\ Place(L, LINE) = Place(L, g) + 1 /\ g < LINE
            BY <1>2, <2>2, <3>2, NextOpens
        <3>5. /\ r \in Report /\ r[1] = L[g][2]
              /\ r[2].total = EndOf(L, g) - g + 1
            <4>1. GROUP.total = LINE - g /\ TEST_GROUP = L[g][2]
                BY <2>1 DEF Current
            <4>2. r \in Report
                BY <1>2 DEF Report
            <4>3. r[1] = TEST_GROUP /\ r[2].total = GROUP.total
                OBVIOUS
            <4>4. LINE - g = EndOf(L, g) - g + 1
                BY <1>2, <2>2, <3>3
            <4> HIDE DEF r
            <4> QED BY <4>1, <4>2, <4>3, <4>4
        <3>6. /\ g \in Starts(L) /\ Len(reports) = Place(L, g) - 1
              /\ \A i \in Starts(L) : i < g => Reported(L, reports, i)
            BY <2>1, <3>2 DEF Current, Open
        <3> HIDE DEF r, L
        <3>7. /\ Len(reports') = Place(L, g)
              /\ \A i \in Starts(L) : i <= g => Reported(L, reports', i)
            <4>1. L \in Seq(Line) /\ reports \in Seq(Report)
                BY <1>2
            <4> QED BY ONLY <4>1, <3>1, <3>5, <3>6, ReportsKept
        <3>8. \A i \in Starts(L) : i < LINE => i <= g
            <4>1. \A i \in Starts(L) : i \in Nat
                BY <1>2, StartsAreLines
            <4>2. \A k \in (g + 1)..Read : k \notin Starts(L)
                BY <3>2 DEF Open
            <4> QED BY <2>2, <4>1, <4>2
        <3>9. Place(L, g) \in Nat
            BY <1>2, <2>2, StartsAreFinite
        <3>10. reports' \in Seq(Report)
            BY <1>2, <3>1, <3>5
        <3>11. Len(reports') = Place(L, LINE) - 1
            BY <3>4, <3>7, <3>9
        <3>12. \A i \in Starts(L) : i < LINE => Reported(L, reports', i)
            BY <3>7, <3>8
        <3>13. GROUP'.total = LINE - LINE
            BY <1>2, <3>1, ZeroIsZero
        <3>14. Current(LINE)'
            BY <1>1, <1>5, <3>4, <3>11, <3>12, <3>13 DEF Current, L
        <3> QED BY <1>1, <1>2, <1>4, <1>5, <3>10, <3>14 DEF ReportInv, L
    <2> QED BY <2>5, <2>6
<1> QED BY <1>6, <1>7

(* The test that is run counts for the open group. *)
LEMMA RunReportInv == CountInv /\ ReportInv /\ run_line => ReportInv'
<1> SUFFICES ASSUME CountInv, ReportInv, run_line PROVE ReportInv'
    OBVIOUS
<1>1. /\ driver = "execute" /\ phase = "running" /\ phase' = "read" /\ driver' = "execute"
      /\ UNCHANGED <<test_lst, reports, TEST_GROUP>> /\ LINE' = LINE + 1
      /\ GROUP' = Add(GROUP, Count(0))
    BY DEF run_line, buildVars, wait_rc
<1>2. LINE \in Nat \ {0} /\ GROUP \in Counters
    BY DEF CountInv
<1>3. Read = LINE /\ Read' = LINE
    BY <1>1, <1>2 DEF Read
<1>4. PICK g \in DOMAIN test_lst : Current(g)
    BY <1>1, <1>2, <1>3 DEF ReportInv
<1>5. GROUP'.total = GROUP.total + 1
    BY <1>1, <1>2, AddCounters, CountIsOne
<1>6. test_lst \in Seq(Line) /\ LINE <= Len(test_lst)
    BY <1>1 DEF ReportInv
<1>7. g \in Nat /\ GROUP.total = LINE - g
    BY <1>4, <1>6 DEF Current
<1>8. GROUP'.total = LINE' - g
    BY <1>1, <1>2, <1>5, <1>7
<1>9. Current(g)'
    BY <1>1, <1>3, <1>4, <1>8 DEF Current
<1> QED BY <1>1, <1>2, <1>3, <1>4, <1>6, <1>9 DEF ReportInv

(* The end reports the last group. *)
LEMMA FinishReportInv == CountInv /\ ReportInv /\ finish => ReportInv'
<1> SUFFICES ASSUME CountInv, ReportInv, finish PROVE ReportInv'
    OBVIOUS
<1> DEFINE L == test_lst
           r == <<TEST_GROUP, GROUP>>
<1>1. /\ driver = "execute" /\ phase' = "done" /\ driver' = "execute" /\ Lines = L
      /\ UNCHANGED <<test_lst, LINE, TEST_GROUP, GROUP>> /\ reports' = Append(reports, r)
      /\ phase \in {"read", "end_of_file"} /\ (phase = "read" => LINE > Len(L))
    BY DEF finish, buildVars, Lines, AtEnd
<1>2. /\ L \in Seq(Line) /\ LINE \in Nat \ {0} /\ GROUP \in Counters
      /\ reports \in Seq(Report) /\ TEST_GROUP \in GroupNames
    BY DEF CountInv, ReportInv
<1>3. r \in Report /\ reports' \in Seq(Report)
    <2>1. r \in Report
        BY <1>2 DEF Report
    <2> QED BY <1>1, <1>2, <2>1
<1>4. CASE LINE = 1
    BY <1>1, <1>2, <1>3, <1>4 DEF ReportInv
<1>5. CASE LINE # 1
    <2>1. phase = "read" /\ LINE = Len(L) + 1 /\ Read = Len(L) /\ Len(L) \in Nat \ {0}
        <3>1. phase = "read"
            BY <1>1, <1>5 DEF CountInv
        <3>2. LINE <= Len(L) + 1 /\ Len(L) \in Nat
            BY <1>1, <1>2, <3>1 DEF ReportInv
        <3>3. Read = LINE - 1
            BY <3>1 DEF Read
        <3> QED BY <1>1, <1>2, <1>5, <3>1, <3>2, <3>3
    <2>2. PICK g \in DOMAIN L : Current(g)
        BY <1>1, <2>1 DEF ReportInv
    <2>3. Open(L, g, Len(L)) /\ g \in Nat /\ Len(L) \in DOMAIN L
        BY <1>2, <2>1, <2>2 DEF Current
    <2>4. EndOf(L, g) = Len(L)
        BY <1>2, <2>3, EndIs
    <2>5. /\ r[1] = L[g][2] /\ r[2].total = EndOf(L, g) - g + 1
        <3>1. GROUP.total = LINE - g /\ TEST_GROUP = L[g][2]
            BY <2>2 DEF Current
        <3> QED BY <1>2, <2>1, <2>3, <2>4, <3>1
    <2>6. /\ g \in Starts(L) /\ Len(reports) = Place(L, g) - 1
          /\ \A i \in Starts(L) : i < g => Reported(L, reports, i)
        BY <2>2, <2>3 DEF Current, Open
    <2> HIDE DEF r, L
    <2>7. /\ Len(reports') = Place(L, g)
          /\ \A i \in Starts(L) : i <= g => Reported(L, reports', i)
        <3>1. L \in Seq(Line) /\ reports \in Seq(Report)
            BY <1>2
        <3>2. r \in Report /\ reports' = Append(reports, r)
            BY <1>1, <1>3
        <3> QED BY ONLY <3>1, <3>2, <2>5, <2>6, ReportsKept
    <2>8. Place(L, g) = Cardinality(Starts(L)) /\ \A i \in Starts(L) : i <= g
        BY <1>2, <2>3, LastPlace
    <2>9. /\ Len(reports') = Cardinality(Starts(L))
          /\ \A i \in Starts(L) : Reported(L, reports', i)
        BY <2>7, <2>8
    <2> QED BY <1>1, <1>2, <1>3, <2>9 DEF ReportInv, L
<1> QED BY <1>4, <1>5

(* Every step keeps the reports in step with the list. *)
LEMMA NextReportInv == CountInv /\ ReportInv /\ [Next]_vars => ReportInv'
<1> SUFFICES ASSUME CountInv, ReportInv, [Next]_vars PROVE ReportInv'
    OBVIOUS
<1>1. CASE configure
    <2>1. test_lst' \in Seq(Line)
        BY <1>1, ListedIsLines DEF configure, ReportInv
    <2>2. phase = "build" /\ driver = "none"
        BY <1>1 DEF configure, CountInv
    <2> QED BY <1>1, <2>1, <2>2 DEF configure, ReportInv
<1>2. CASE make_test
    BY <1>2 DEF make_test, buildVars, ReportInv
<1>3. ASSUME NEW argument \in {"test_lst", "missing", "none"}, execute(argument)
      PROVE  ReportInv'
    <2>1. /\ phase = "build" /\ phase' \in {"read", "done", "end_of_file"}
          /\ UNCHANGED <<test_lst, LINE, TEST_GROUP, GROUP, reports>>
        BY <1>3 DEF execute, buildVars
    <2>2. /\ LINE = 1 /\ GROUP.total = 0 /\ reports = <<>> /\ TEST_GROUP = "no_group"
          /\ test_lst \in Seq(Line)
        BY <2>1, ZeroIsZero DEF CountInv, ReportInv
    <2>3. Read' = 0
        BY <2>1, <2>2 DEF Read
    <2> QED BY <2>1, <2>2, <2>3 DEF ReportInv
<1>4. CASE ctest_run
    BY <1>4 DEF ctest_run, buildVars, ReportInv
<1>5. CASE ctest_end
    BY <1>5 DEF ctest_end, buildVars, ReportInv
<1>6. CASE read_line
    BY <1>6, ReadReportInv
<1>7. CASE run_line
    BY <1>7, RunReportInv
<1>8. CASE hang
    BY <1>8 DEF hang, buildVars, ReportInv
<1>9. CASE finish
    BY <1>9, FinishReportInv
<1>10. CASE UNCHANGED vars
    BY <1>10 DEF vars, ReportInv, Read, Current
<1> QED
    BY <1>1, <1>2, <1>3, <1>4, <1>5, <1>6, <1>7, <1>8, <1>9, <1>10 DEF Next, Ended

(* execute.sh prints one result line for each run of consecutive lines of  *)
(* a target, in order, with that target's name and the number of its       *)
(* lines, whatever the targets and their lists are and however often cmake *)
(* was run before.                                                         *)
THEOREM ReportsAreTheGroups == Spec => []ReportsFollowTheList
<1>1. ReportInv => ReportsFollowTheList
    <2> SUFFICES ASSUME ReportInv, driver = "execute", phase = "done", LINE > 1
                 PROVE  /\ Len(reports) = Cardinality(GroupStarts)
                        /\ \A i \in GroupStarts :
                             LET r == reports[Cardinality({k \in GroupStarts : k <= i})]
                             IN  r[1] = Lines[i][2] /\ r[2].total = GroupEnd(i) - i + 1
        BY DEF ReportsFollowTheList
    <2>1. Lines = test_lst
        BY DEF Lines
    <2>2. GroupStarts = Starts(test_lst)
        BY <2>1 DEF GroupStarts, Starts
    <2>3. \A i : GroupEnd(i) = EndOf(test_lst, i)
        BY <2>1, <2>2, Zenon DEF GroupEnd, EndOf
    <2> QED BY <2>1, <2>2, <2>3 DEF ReportInv, Reported, Place
<1> QED
    BY <1>1, InitCountInv, NextCountInv, InitReportInv, NextReportInv, PTL DEF Spec
=============================================================================
