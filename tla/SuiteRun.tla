------------------------------ MODULE SuiteRun ------------------------------
(***************************************************************************)
(* Running the whole suite.  Configuring the build (cmake/test.cmake)      *)
(* registers the tests of every target with ctest and appends them to      *)
(* test.lst.  They are then run either by ctest, which calls               *)
(* script/run.sh for each, or by script/execute.sh, which goes through     *)
(* test.lst, counts per group and in total and exits with 1 if it saw a    *)
(* failure.  Both select one test case of a target's executable with       *)
(* CK_RUN_CASE; the executable is the main function the macros of          *)
(* utils/framework.h make of the target's ADD_TEST lines.                  *)
(*                                                                         *)
(* The check library and ctest are external: check runs the cases of the   *)
(* selected name and counts the failed ones; with fork (run.sh) it turns a *)
(* crash or a test that hangs into a failure, without (execute.sh sets     *)
(* CK_FORK=no) a crash ends the executable and a hang stays one.  The      *)
(* counters GROUP_ERROR and GROUP_NA and their totals are never changed    *)
(* from 0 and are left out, as is what is printed besides the results.     *)
(***************************************************************************)
EXTENDS Integers, Sequences, FiniteSets

CONSTANTS
    Targets,        \* the executables, in the order CMakeLists.txt includes them:
                    \* [name, listed: TEST_LIST, added: the ADD_TEST names]
    Behaviours,     \* what a test may do when it runs
    MaxConfigures   \* bound on the runs of cmake

ASSUME TargetsAssumption ==
    Targets \in Seq([name : STRING \ {"no_group"}, listed : Seq(STRING), added : SUBSET STRING])
ASSUME BehavioursAssumption == Behaviours \subseteq {"pass", "fail", "crash", "hang"}
ASSUME ConfiguresAssumption == MaxConfigures \in Nat \ {0}

VARIABLES
    test_lst,       \* the lines <<test, target>> of test.lst
    ctests,         \* the tests ctest knows
    configures,
    driver,         \* "none", "ctest" or "execute"
    phase,          \* "build", "read", "running", "end_of_file", "hung", "done"
    LINE,           \* the line, or the test, that comes next
    TEST_GROUP,     \* "no_group": the empty string
    GROUP, TOTAL,   \* the counters [passed, failed, total]
    TEST_FAILURES,
    reports,        \* the result lines printed: <<group, counters>>
    results,        \* history: what each line's test did, "none" if it did not run
    status          \* the exit status, 1 for any other than 0

vars == <<test_lst, ctests, configures, driver, phase, LINE, TEST_GROUP,
          GROUP, TOTAL, TEST_FAILURES, reports, results, status>>
buildVars == <<test_lst, ctests, configures>>

Zero == [passed |-> 0, failed |-> 0, total |-> 0]
Add(c, d) == [k \in DOMAIN c |-> c[k] + d[k]]

Init ==
    /\ test_lst = <<>> /\ ctests = <<>> /\ configures = 0
    /\ driver = "none" /\ phase = "build" /\ LINE = 1
    /\ TEST_GROUP = "no_group" /\ GROUP = Zero /\ TOTAL = Zero
    /\ TEST_FAILURES = <<>> /\ reports = <<>> /\ results = <<>> /\ status = 0

-----------------------------------------------------------------------------
(* cmake: the list of every target, in order.  ctest's tests are written   *)
(* anew, test.lst is appended to.                                          *)
Listed[i \in 0..Len(Targets)] ==
    IF i = 0 THEN <<>>
    ELSE Listed[i - 1] \o [n \in DOMAIN Targets[i].listed |->
                             <<Targets[i].listed[n], Targets[i].name>>]

configure ==
    /\ phase = "build" /\ configures < MaxConfigures
    /\ configures' = configures + 1
    /\ ctests' = Listed[Len(Targets)]
    /\ test_lst' = test_lst \o Listed[Len(Targets)]
    /\ UNCHANGED <<driver, phase, LINE, TEST_GROUP, GROUP, TOTAL, TEST_FAILURES,
                   reports, results, status>>

(* make test, or execute.sh: with test.lst, with the name of a file that   *)
(* does not exist, or without a name, which passes the test of line 57     *)
(* and leaves the loop nothing to read.                                    *)
make_test ==
    /\ phase = "build" /\ configures > 0
    /\ driver' = "ctest" /\ phase' = "read"
    /\ UNCHANGED <<buildVars, LINE, TEST_GROUP, GROUP, TOTAL, TEST_FAILURES,
                   reports, results, status>>

execute(argument) ==
    /\ phase = "build" /\ configures > 0
    /\ driver' = "execute"
    /\ phase' = CASE argument = "test_lst" -> "read"
                  [] argument = "missing" -> "done"
                  [] argument = "none" -> "end_of_file"
    /\ status' = IF argument = "missing" THEN 1 ELSE 0
    /\ UNCHANGED <<buildVars, LINE, TEST_GROUP, GROUP, TOTAL, TEST_FAILURES,
                   reports, results>>

Lines == IF driver = "ctest" THEN ctests ELSE test_lst

-----------------------------------------------------------------------------
(* The executable: what it does with CK_RUN_CASE = test, and its exit      *)
(* status.  No test case of that name means no test and no failure.        *)
Runs(line) == \E i \in DOMAIN Targets :
                 Targets[i].name = line[2] /\ line[1] \in Targets[i].added

(* What check makes of a test: the number of failed tests, 0 or 1. *)
number_failed(result) == IF result \in {"none", "pass"} THEN 0 ELSE 1

(* Mutant of RUN_TESTS: failure means that nothing passed. *)
RUN_TESTS_swapped(result) == IF number_failed(result) # 0 THEN 0 ELSE 1

RUN_TESTS(result) == IF number_failed(result) = 0 THEN 0 ELSE 1

Outcomes(line) == IF Runs(line) THEN Behaviours ELSE {"none"}

-----------------------------------------------------------------------------
(* Mutant of ctest_run: run.sh without a timeout. *)
ctest_run_untimed ==
    /\ driver = "ctest" /\ phase = "read" /\ LINE <= Len(Lines)
    /\ \E result \in Outcomes(Lines[LINE]) :
         /\ results' = Append(results, result)
         /\ phase' = IF result = "hang" THEN "hung" ELSE "read"
         /\ TEST_FAILURES' = IF RUN_TESTS(result) # 0
                               THEN Append(TEST_FAILURES, Lines[LINE]) ELSE TEST_FAILURES
    /\ LINE' = LINE + 1
    /\ UNCHANGED <<buildVars, driver, TEST_GROUP, GROUP, TOTAL, reports, status>>

(* ctest: run.sh's exit status is that of the executable. *)
ctest_run ==
    /\ driver = "ctest" /\ phase = "read" /\ LINE <= Len(Lines)
    /\ \E result \in Outcomes(Lines[LINE]) :
         /\ results' = Append(results, result)
         /\ TEST_FAILURES' = IF RUN_TESTS(result) # 0
                               THEN Append(TEST_FAILURES, Lines[LINE]) ELSE TEST_FAILURES
    /\ LINE' = LINE + 1
    /\ UNCHANGED <<buildVars, driver, phase, TEST_GROUP, GROUP, TOTAL, reports, status>>

ctest_end ==
    /\ driver = "ctest" /\ phase = "read" /\ LINE > Len(Lines)
    /\ phase' = "done" /\ status' = IF TEST_FAILURES = <<>> THEN 0 ELSE 1
    /\ UNCHANGED <<buildVars, driver, LINE, TEST_GROUP, GROUP, TOTAL, TEST_FAILURES,
                   reports, results>>

-----------------------------------------------------------------------------
(* execute.sh.  A line of another group first closes the one before: its   *)
(* results are printed and added to the totals.                            *)
NewGroup == Lines[LINE][2] # TEST_GROUP

(* Mutant of read_line: the counters of the group are not reset. *)
read_line_unreset ==
    /\ driver = "execute" /\ phase = "read" /\ LINE <= Len(Lines)
    /\ TEST_GROUP' = Lines[LINE][2]
    /\ IF NewGroup /\ TEST_GROUP # "no_group"
         THEN /\ reports' = Append(reports, <<TEST_GROUP, GROUP>>)
              /\ TOTAL' = Add(TOTAL, GROUP)
         ELSE UNCHANGED <<reports, TOTAL>>
    /\ phase' = "running"
    /\ UNCHANGED <<buildVars, driver, LINE, GROUP, TEST_FAILURES, results, status>>

read_line ==
    /\ driver = "execute" /\ phase = "read" /\ LINE <= Len(Lines)
    /\ TEST_GROUP' = Lines[LINE][2]
    /\ IF NewGroup /\ TEST_GROUP # "no_group"
         THEN /\ reports' = Append(reports, <<TEST_GROUP, GROUP>>)
              /\ TOTAL' = Add(TOTAL, GROUP)
              /\ GROUP' = Zero
         ELSE UNCHANGED <<reports, TOTAL, GROUP>>
    /\ phase' = "running"
    /\ UNCHANGED <<buildVars, driver, LINE, TEST_FAILURES, results, status>>

(* The executable is started in the background; wait without an argument   *)
(* waits for all children and returns 0, whatever their exit status was.   *)
wait_rc(result) == 0

Count(rc) == [passed |-> IF rc = 0 THEN 1 ELSE 0, failed |-> IF rc = 0 THEN 0 ELSE 1, total |-> 1]

run_line ==
    /\ driver = "execute" /\ phase = "running"
    /\ \E result \in Outcomes(Lines[LINE]) \ {"hang"} :
         /\ results' = Append(results, result)
         /\ GROUP' = Add(GROUP, Count(wait_rc(result)))
         /\ TEST_FAILURES' = IF wait_rc(result) # 0
                               THEN Append(TEST_FAILURES, Lines[LINE]) ELSE TEST_FAILURES
    /\ LINE' = LINE + 1 /\ phase' = "read"
    /\ UNCHANGED <<buildVars, driver, TEST_GROUP, TOTAL, reports, status>>

(* Without fork check has no timeout, and neither has wait. *)
hang ==
    /\ driver = "execute" /\ phase = "running"
    /\ "hang" \in Outcomes(Lines[LINE])
    /\ phase' = "hung" /\ results' = Append(results, "hang")
    /\ UNCHANGED <<buildVars, driver, LINE, TEST_GROUP, GROUP, TOTAL, TEST_FAILURES,
                   reports, status>>

AtEnd == phase = "end_of_file" \/ (phase = "read" /\ LINE > Len(Lines))

(* Mutant of finish: the last group is not added to the totals. *)
finish_unadded ==
    /\ driver = "execute" /\ AtEnd
    /\ reports' = Append(reports, <<TEST_GROUP, GROUP>>)
    /\ status' = IF TEST_FAILURES = <<>> THEN 0 ELSE 1
    /\ phase' = "done"
    /\ UNCHANGED <<buildVars, driver, LINE, TEST_GROUP, GROUP, TOTAL, TEST_FAILURES, results>>

finish ==
    /\ driver = "execute" /\ AtEnd
    /\ TOTAL' = Add(TOTAL, GROUP)
    /\ reports' = Append(reports, <<TEST_GROUP, GROUP>>)
    /\ status' = IF TEST_FAILURES = <<>> THEN 0 ELSE 1
    /\ phase' = "done"
    /\ UNCHANGED <<buildVars, driver, LINE, TEST_GROUP, GROUP, TEST_FAILURES, results>>

Ended == phase \in {"done", "hung"} /\ UNCHANGED vars

Next ==
    \/ configure \/ make_test
    \/ \E argument \in {"test_lst", "missing", "none"} : execute(argument)
    \/ ctest_run \/ ctest_end
    \/ read_line \/ run_line \/ hang \/ finish
    \/ Ended

(* A driver that was started goes on; a test that hangs is in a state of   *)
(* its own.                                                                *)
Fairness == WF_vars(ctest_run \/ ctest_end \/ read_line \/ run_line \/ hang \/ finish)

Spec == Init /\ [][Next]_vars /\ Fairness

-----------------------------------------------------------------------------
Counters == [passed : Nat, failed : Nat, total : Nat]

TypeOK ==
    /\ configures \in 0..MaxConfigures
    /\ driver \in {"none", "ctest", "execute"} /\ status \in {0, 1}
    /\ phase \in {"build", "read", "running", "end_of_file", "hung", "done"}
    /\ LINE \in 1..(Len(Lines) + 1)
    /\ GROUP \in Counters /\ TOTAL \in Counters
    /\ Len(results) \in {LINE - 1, LINE}

(* The runs of consecutive lines of one target, as the indices they start  *)
(* at: the groups execute.sh has to report.                                *)
GroupStarts == {i \in DOMAIN Lines : i = 1 \/ Lines[i][2] # Lines[i - 1][2]}
GroupEnd(i) == CHOOSE j \in DOMAIN Lines :
    j >= i /\ (j = Len(Lines) \/ j + 1 \in GroupStarts) /\ \A k \in (i + 1)..j : k \notin GroupStarts

(* Nothing is lost or counted twice where one group ends and the next      *)
(* begins (execute.sh:104-131, 150-155): between two lines, group and      *)
(* totals together count every line read so far, each as passed or as      *)
(* failed, and a failure is listed exactly when it is counted; at the end  *)
(* the totals alone do.                                                    *)
CountsEveryLine ==
    LET seen == IF phase = "done" THEN TOTAL ELSE Add(TOTAL, GROUP)
    IN  driver = "execute" =>
          /\ seen.total = LINE - 1
          /\ seen.passed + seen.failed = seen.total
          /\ Len(TEST_FAILURES) = seen.failed

(* The printed results are those of the groups of test.lst: one line per   *)
(* run of consecutive lines of a target, in order, with its length, also   *)
(* when cmake was run twice and every target comes up twice.               *)
ReportsFollowTheList ==
    (driver = "execute" /\ phase = "done" /\ LINE > 1) =>
        /\ Len(reports) = Cardinality(GroupStarts)
        /\ \A i \in GroupStarts :
             LET r == reports[Cardinality({k \in GroupStarts : k <= i})]
             IN  r[1] = Lines[i][2] /\ r[2].total = GroupEnd(i) - i + 1

(* make test reports a failure exactly when some test failed, crashed or   *)
(* hung: the statuses of check, of the executable (RUN_TESTS) and of       *)
(* run.sh pass it on.                                                      *)
CTestTellsFailures ==
    (driver = "ctest" /\ phase = "done") =>
        (status = 1 <=> \E i \in DOMAIN results : results[i] \in {"fail", "crash", "hang"})

(* The same for execute.sh. *)
ExecuteTellsFailures ==
    (driver = "execute" /\ phase = "done" /\ LINE > 1) =>
        (status = 1 <=> \E i \in DOMAIN results : results[i] \in {"fail", "crash"})

(* A driver that was started ends, unless execute.sh waits for a test      *)
(* that hangs.                                                             *)
Ends == driver # "none" ~> (phase = "done" \/ (driver = "execute" /\ phase = "hung"))
=============================================================================
