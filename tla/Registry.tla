------------------------------ MODULE Registry ------------------------------
(***************************************************************************)
(* From the tables of tests to the tests that run.  cmake goes through the *)
(* targets in the order of CMakeLists.txt; each file sets or extends       *)
(* TEST_LIST, and cmake/test.cmake registers what the list then holds with *)
(* ctest and empties it.  A registered test starts its target with         *)
(* CK_RUN_CASE, and main runs the test cases it has added under that name. *)
(*                                                                         *)
(* SuiteRun has the two drivers and their counters for a few tests; here   *)
(* are all executables, with their tables name by name, one test at a time.*)
(* The name of a test is <<name>> or, for an image test, <<prefix, channel *)
(* type, channel order, geometry>>.                                        *)
(***************************************************************************)
EXTENDS Integers, Sequences, FiniteSets, Functions, CoreTests, ImageData

Clear == INSTANCE ImageClear
Copy == INSTANCE ImageCopy
ImportExport == INSTANCE ImageImportExport

VARIABLES
    configured,     \* how many targets cmake has gone through
    TEST_LIST,
    ctests,         \* the registered tests: <<target, name>>
    phase,          \* "configure", "error", "ready", "main", "exited"
    running,        \* the registered test whose target runs
    waiting,        \* test cases it still has to run
    executed,       \* test cases it has run
    number_failed,
    status          \* the exit status of the target

vars == <<configured, TEST_LIST, ctests, phase, running, waiting, executed,
          number_failed, status>>
mainVars == <<running, waiting, executed, number_failed, status>>

(* The targets, in the order they are included. *)
Targets == <<"hsa_api", "hsa_agent", "hsa_aql", "hsa_async", "hsa_code", "hsa_init",
             "hsa_memory", "hsa_memory_atomics", "hsa_queue", "hsa_signals",
             "hsa_ext_api", "hsa_finalization",
             "hsa_image_clear", "hsa_image_copy", "hsa_image_import_export">>

(* What the names of an image target's tests begin with. *)
Prefix == [hsa_image_clear |-> "image_clear", hsa_image_copy |-> "image_copy",
           hsa_image_import_export |-> "image_import_export"]
ImageTargets == DOMAIN Prefix

Init ==
    /\ configured = 0 /\ TEST_LIST = <<>> /\ ctests = {} /\ phase = "configure"
    /\ running = <<>> /\ waiting = 0 /\ executed = 0 /\ number_failed = 0 /\ status = 0

-----------------------------------------------------------------------------
(* The executables: what their macros define and what their main adds. *)
Defines(target, format) ==
    <<format[2], format[3]>> \in
        CASE target = "hsa_image_clear" -> Clear!Defined[format[1]]
          [] target = "hsa_image_copy" -> Copy!Defined[format[1]]
          [] target = "hsa_image_import_export" -> ImportExport!Defined[format[1]]

Cases(target, name) ==
    LET format == SubSeq(name, 2, 4)
    IN  IF target \notin ImageTargets
          THEN Cardinality({n \in DOMAIN CoreAdded[target] : name = <<CoreAdded[target][n]>>})
        ELSE IF name[1] # Prefix[target] THEN 0
        ELSE CASE target = "hsa_image_clear" -> Clear!cases(format)
               [] target = "hsa_image_copy" -> Copy!cases(format)
               [] target = "hsa_image_import_export" -> ImportExport!cases(format)

(* The cmake files of the image tests build the list in three loops; the   *)
(* one of import_export does not empty it first.                           *)
image_TEST_LIST(target) ==
    (IF target = "hsa_image_import_export" THEN TEST_LIST ELSE <<>>)
        \o [n \in DOMAIN Formats |-> <<Prefix[target]>> \o Formats[n]]

ListOf(target) ==
    IF target \in ImageTargets THEN image_TEST_LIST(target)
    ELSE [n \in DOMAIN CoreListed[target] |-> <<CoreListed[target][n]>>]

-----------------------------------------------------------------------------
(* test.cmake adds the tests of a list; the name of a test that exists     *)
(* already, in whatever list it was, is an error.                          *)
add_tests(target, list) ==
    /\ ctests' = ctests \cup {<<target, name>> : name \in Range(list)}
    /\ phase' = IF \/ ~IsInjective(list)
                   \/ \E c \in ctests : c[2] \in Range(list) THEN "error"
                ELSE IF configured + 1 = Len(Targets) THEN "ready" ELSE "configure"
    /\ configured' = configured + 1

(* Mutant of add_target: test.cmake leaves TEST_LIST as it is. *)
add_target_unreset ==
    /\ phase = "configure" /\ configured < Len(Targets)
    /\ LET target == Targets[configured + 1]
       IN  add_tests(target, ListOf(target)) /\ TEST_LIST' = ListOf(target)
    /\ UNCHANGED mainVars

(* include (<target>): the target's file sets the list, test.cmake adds    *)
(* the tests and empties it.                                               *)
add_target ==
    /\ phase = "configure" /\ configured < Len(Targets)
    /\ LET target == Targets[configured + 1] IN add_tests(target, ListOf(target))
    /\ TEST_LIST' = <<>>
    /\ UNCHANGED mainVars

(* ctest starts a test: run.sh starts the target with CK_RUN_CASE, and     *)
(* main adds its test cases.                                               *)
start(c) ==
    /\ phase = "ready"
    /\ running' = c /\ waiting' = Cases(c[1], c[2])
    /\ executed' = 0 /\ number_failed' = 0 /\ status' = 0
    /\ phase' = "main"
    /\ UNCHANGED <<configured, TEST_LIST, ctests>>

(* The next test case of the name passes or fails. *)
run_case ==
    /\ phase = "main" /\ waiting > 0
    /\ \E failed \in {0, 1} : number_failed' = number_failed + failed
    /\ waiting' = waiting - 1 /\ executed' = executed + 1
    /\ UNCHANGED <<configured, TEST_LIST, ctests, phase, running, status>>

(* RUN_TESTS. *)
exit_main ==
    /\ phase = "main" /\ waiting = 0
    /\ status' = IF number_failed = 0 THEN 0 ELSE 1
    /\ phase' = "exited"
    /\ UNCHANGED <<configured, TEST_LIST, ctests, running, waiting, executed, number_failed>>

(* ctest goes on to another test. *)
next_test ==
    /\ phase = "exited" /\ phase' = "ready"
    /\ running' = <<>> /\ executed' = 0 /\ number_failed' = 0 /\ status' = 0
    /\ UNCHANGED <<configured, TEST_LIST, ctests, waiting>>

Next ==
    \/ add_target
    \/ \E c \in ctests : start(c)
    \/ run_case \/ exit_main \/ next_test

Spec == Init /\ [][Next]_vars

-----------------------------------------------------------------------------
(* cmake gets through all targets: among the names of the fifteen lists,   *)
(* set by hand or built from the image formats, no two are equal, and no   *)
(* list runs over into the next one, although the file of import_export    *)
(* relies on test.cmake (line 22) to have emptied it.                      *)
ConfiguresEveryTarget == phase # "error"

(* A test that is registered for an image executable runs there, once, and *)
(* a second time exactly when main adds it twice (hsa_image_clear.c:746 and*)
(* hsa_image_copy.c:746), and it is one the executable's macros define.    *)
ImageTestsRun ==
    (phase = "exited" /\ running[1] \in ImageTargets) =>
        /\ executed = IF /\ running[1] # "hsa_image_import_export"
                         /\ SubSeq(running[2], 2, 4) \in Clear!ADD_first THEN 2 ELSE 1
        /\ Defines(running[1], SubSeq(running[2], 2, 4))

(* No test of the other twelve executables is run a second time for one    *)
(* registration: main adds no name twice (framework.h:71), as it does in   *)
(* two of the image executables.  A name that main does not add at all     *)
(* runs nothing and counts as passed (framework.h:81).                     *)
CoreTestsRunOnce == (phase = "exited" /\ running[1] \notin ImageTargets) => executed <= 1

Registered(target, f) == <<target, <<Prefix[target]>> \o f>> \in ctests

(* The three image executables are run for the same formats, although      *)
(* their tables differ: a format that clear and copy have a test for, and  *)
(* no test registered, is one of the sRGB orders that cmake leaves out or  *)
(* a depth order of FLOAT, which valid_image does not know.                *)
FormatsAgree ==
    phase = "ready" =>
        \A f \in AllTypes \X AllOrders \X AllGeometries :
            LET registered == Registered("hsa_image_clear", f)
                added == Clear!cases(f) > 0
            IN  /\ registered = Registered("hsa_image_copy", f)
                /\ registered = Registered("hsa_image_import_export", f)
                /\ added = (Copy!cases(f) > 0)
                /\ registered => added
                /\ (added /\ ~registered) <=>
                     \/ f[1] = "UNORM_INT8" /\ <<f[2], f[3]>> \in SrgbRows
                     \/ f[1] = "FLOAT" /\ <<f[2], f[3]>> \in DepthRows \cup StencilRows
=============================================================================
