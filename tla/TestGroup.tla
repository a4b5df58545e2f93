------------------------------ MODULE TestGroup ------------------------------
(***************************************************************************)
(* The concurrent test harness of src/src/utils/concurrent_utils.c: a test *)
(* group holds a list of test functions, one worker thread per function, a *)
(* mutex, one condition variable shared by the workers and the caller, and *)
(* the flags run_flag and exit_flag.  A caller creates a group, adds       *)
(* tests, creates the threads, runs any number of rounds (start, wait) and *)
(* exits; this is how every concurrent test of the suite is driven.        *)
(*                                                                         *)
(* pthread_mutex_* and pthread_cond_* are modelled by what POSIX promises: *)
(* a wait releases the mutex atomically, may wake up spuriously and        *)
(* reacquires the mutex before it returns.  A critical section is two      *)
(* steps: acquiring the mutex, and the body up to its release.             *)
(***************************************************************************)
EXTENDS Integers, FiniteSets

CONSTANTS
    MaxTests,         \* bound on the size of a group
    MaxRounds,        \* bound on the rounds a caller starts
    CreateMayFail     \* TRUE: pthread_create may fail (EAGAIN)

ASSUME MaxTestsAssumption == MaxTests \in Nat \ {0}
ASSUME MaxRoundsAssumption == MaxRounds \in Nat
ASSUME CreateAssumption == CreateMayFail \in BOOLEAN

Tests == 1..MaxTests      \* test_list[ii] and the thread that runs it
Caller == 0
Procs == Tests \cup {Caller}
Nobody == -1

TEST_STATUS == {"TEST_NOT_STARTED", "TEST_RUNNING", "TEST_STOP",
                "TEST_FINISHED", "TEST_ERROR"}
Unset == "unset"          \* memory of test_list that test_group_add did not fill

Parts == {"group", "test_list", "thread_list", "sync"}

VARIABLES
    group_size, num_test, n_threads, run_flag, exit_flag, num_running_t,
    status,       \* test_list[ii].status
    alive,        \* the parts of the group that are allocated and initialised
    test_mutex,   \* the process that holds the mutex, or Nobody
    pc,           \* where each worker and the caller are
    run_flag_l,   \* the workers' local flag
    ii,           \* the caller's loop index: threads created, polled or joined
    round,        \* history: the rounds started so far
    began,        \* history: how often each test function was entered
    ran           \* history: how often each test was counted as finished

group  == <<group_size, num_test, n_threads>>
flags  == <<run_flag, exit_flag, num_running_t>>
worker_vars == <<status, run_flag_l>>
history == <<round, began, ran>>
vars == <<group, flags, worker_vars, alive, test_mutex, pc, ii, history>>

(* Labels of the worker and of the caller; "wait" (in pthread_cond_wait)   *)
(* and "wake" (woken, reacquiring the mutex) are common to both.  A        *)
(* process that crashes takes its threads with it ("killed").              *)
WorkerPC == {"none", "lock", "test", "wait", "wake", "decide", "fun",
             "dec", "stop", "done", "killed"}
CallerPC == {"none", "setup", "creating", "idle", "start_lock", "start",
             "wait_test", "wait", "wake", "polling", "exit", "joining",
             "exited", "end", "crashed"}

Init ==
    /\ group_size = 0 /\ num_test = 0 /\ n_threads = 0
    /\ run_flag = 0 /\ exit_flag = 0 /\ num_running_t = 0
    /\ status = [t \in Tests |-> Unset]
    /\ alive = {}
    /\ test_mutex = Nobody
    /\ pc = [p \in Procs |-> "none"]
    /\ run_flag_l = [t \in Tests |-> 0]
    /\ ii = 0
    /\ round = 0
    /\ began = [t \in Tests |-> 0]
    /\ ran = [t \in Tests |-> 0]

Goto(p, l) == pc' = [pc EXCEPT ![p] = l]

(* pthread_cond_broadcast by p, which then continues at l. *)
BroadcastAndGoto(p, l) ==
    pc' = [q \in Procs |-> CASE q = p -> l
                             [] q # p /\ pc[q] = "wait" -> "wake"
                             [] OTHER -> pc[q]]

Acquire(p) == test_mutex = Nobody /\ test_mutex' = p
Release(p) == test_mutex = p /\ test_mutex' = Nobody

(***************************************************************************)
(* Building a group.                                                       *)
(***************************************************************************)
test_group_create(size) ==
    /\ pc[Caller] = "none"
    /\ Goto(Caller, "setup")
    /\ group_size' = size
    /\ alive' = {"group", "test_list"}
    /\ UNCHANGED <<num_test, n_threads, flags, worker_vars, test_mutex, ii, history>>

(* A request that does not fit is refused with a message and the caller,   *)
(* which gets no return value, carries on.                                 *)
test_group_add(num_copy) ==
    /\ pc[Caller] = "setup"
    /\ group_size >= num_copy + num_test
    /\ num_test' = num_test + num_copy
    /\ status' = [t \in Tests |-> IF t \in (num_test + 1)..(num_test + num_copy)
                                   THEN "TEST_NOT_STARTED" ELSE status[t]]
    /\ UNCHANGED <<group_size, n_threads, flags, run_flag_l, alive, test_mutex,
                   pc, ii, history>>

add_refused(num_copy) ==
    /\ pc[Caller] = "setup"
    /\ group_size < num_copy + num_test
    /\ UNCHANGED vars

(* test_group_thread_create initialises the mutex and the condition ...    *)
test_group_thread_create ==
    /\ pc[Caller] = "setup"
    /\ Goto(Caller, "creating")
    /\ n_threads' = num_test
    /\ ii' = 0
    /\ alive' = alive \cup {"sync", "thread_list"}
    /\ UNCHANGED <<group_size, num_test, flags, worker_vars, test_mutex, history>>

(* ... and then creates the threads one by one; the first ones run while   *)
(* the others are being created.  pthread_create reports a failure with a  *)
(* positive errno value, which the test status < 0 never sees.             *)
create_worker ==
    /\ pc[Caller] = "creating"
    /\ ii < n_threads
    /\ Goto(ii + 1, "lock")
    /\ ii' = ii + 1
    /\ UNCHANGED <<group, flags, worker_vars, alive, test_mutex, history>>

create_worker_fails ==
    /\ pc[Caller] = "creating"
    /\ ii < n_threads
    /\ CreateMayFail
    /\ ii' = ii + 1
    /\ UNCHANGED <<group, flags, worker_vars, alive, test_mutex, pc, history>>

thread_create_return ==
    /\ pc[Caller] = "creating"
    /\ ii = n_threads
    /\ Goto(Caller, "idle")
    /\ UNCHANGED <<group, flags, worker_vars, alive, test_mutex, ii, history>>

(***************************************************************************)
(* Running rounds.                                                         *)
(***************************************************************************)
(* Mutant of test_group_start: a round may be started over a running one. *)
test_group_start_unchecked ==
    /\ pc[Caller] = "idle"
    /\ round < MaxRounds
    /\ Goto(Caller, "start_lock")
    /\ UNCHANGED <<group, flags, worker_vars, alive, test_mutex, ii, history>>

(* The check of num_running_t is made without the mutex; a caller that     *)
(* starts a round before the last one is over is refused ...               *)
test_group_start ==
    /\ pc[Caller] = "idle"
    /\ round < MaxRounds
    /\ num_running_t = 0
    /\ Goto(Caller, "start_lock")
    /\ UNCHANGED <<group, flags, worker_vars, alive, test_mutex, ii, history>>

start_refused ==
    /\ pc[Caller] = "idle"
    /\ num_running_t # 0
    /\ UNCHANGED vars

(* ... and the mutex is taken later, while workers come and go. *)
start_lock ==
    /\ pc[Caller] = "start_lock"
    /\ Acquire(Caller)
    /\ Goto(Caller, "start")
    /\ UNCHANGED <<group, flags, worker_vars, alive, ii, history>>

(* Mutant of start_round: nobody is woken. *)
start_round_silent ==
    /\ pc[Caller] = "start"
    /\ Release(Caller)
    /\ run_flag' = 1 - run_flag
    /\ num_running_t' = num_test
    /\ round' = round + 1
    /\ Goto(Caller, "idle")
    /\ UNCHANGED <<group, exit_flag, worker_vars, alive, ii, began, ran>>

start_round ==
    /\ pc[Caller] = "start"
    /\ Release(Caller)
    /\ run_flag' = 1 - run_flag
    /\ num_running_t' = num_test
    /\ round' = round + 1
    /\ BroadcastAndGoto(Caller, "idle")
    /\ UNCHANGED <<group, exit_flag, worker_vars, alive, ii, began, ran>>

test_group_wait ==
    /\ pc[Caller] = "idle"
    /\ Acquire(Caller)
    /\ Goto(Caller, "wait_test")
    /\ UNCHANGED <<group, flags, worker_vars, alive, ii, history>>

(* Mutant of wait_rounds_end: off by one, the last test is not waited for. *)
wait_rounds_end_early ==
    /\ pc[Caller] = "wait_test"
    /\ Release(Caller)
    /\ Goto(Caller, IF num_running_t > 1 THEN "wait" ELSE "idle")
    /\ UNCHANGED <<group, flags, worker_vars, alive, ii, history>>

wait_rounds_end ==
    /\ pc[Caller] = "wait_test"
    /\ Release(Caller)
    /\ Goto(Caller, IF num_running_t # 0 THEN "wait" ELSE "idle")
    /\ UNCHANGED <<group, flags, worker_vars, alive, ii, history>>

(* The other way to wait, of test_signal_wait_store: spin on each test in  *)
(* turn until its status, read without the mutex, is TEST_STOP.  The suite *)
(* does it in a group's only round.                                        *)
poll_begin ==
    /\ pc[Caller] = "idle"
    /\ round = 1
    /\ Goto(Caller, "polling")
    /\ ii' = 0
    /\ UNCHANGED <<group, flags, worker_vars, alive, test_mutex, history>>

(* A test whose thread is gone (pthread_kill gives ESRCH) is in error.     *)
test_group_test_status ==
    LET t == ii + 1
        dead == status[t] = "TEST_RUNNING" /\ pc[t] \in {"none", "done"}
    IN /\ pc[Caller] = "polling"
       /\ ii < n_threads
       /\ status' = IF dead THEN [status EXCEPT ![t] = "TEST_ERROR"] ELSE status
       /\ ii' = IF status'[t] = "TEST_STOP" THEN ii + 1 ELSE ii
       /\ UNCHANGED <<group, flags, run_flag_l, alive, test_mutex, pc, history>>

poll_end ==
    /\ pc[Caller] = "polling"
    /\ ii = n_threads
    /\ Goto(Caller, "idle")
    /\ UNCHANGED <<group, flags, worker_vars, alive, test_mutex, ii, history>>

(***************************************************************************)
(* The worker thread.                                                      *)
(***************************************************************************)
worker_lock(t) ==
    /\ pc[t] = "lock"
    /\ Acquire(t)
    /\ Goto(t, "test")
    /\ UNCHANGED <<group, flags, worker_vars, alive, ii, history>>

(* Mutant of worker_proceed: the local flag is not flipped. *)
worker_proceed_unflipped(t) ==
    /\ pc[t] = "test"
    /\ run_flag # run_flag_l[t] \/ exit_flag # 0
    /\ Release(t)
    /\ Goto(t, "decide")
    /\ UNCHANGED <<group, flags, worker_vars, alive, ii, history>>

(* The loop condition: wait, or release the mutex and flip the local flag. *)
worker_sleep(t) ==
    /\ pc[t] = "test"
    /\ run_flag = run_flag_l[t] /\ exit_flag = 0
    /\ Release(t)
    /\ Goto(t, "wait")
    /\ UNCHANGED <<group, flags, worker_vars, alive, ii, history>>

worker_proceed(t) ==
    /\ pc[t] = "test"
    /\ run_flag # run_flag_l[t] \/ exit_flag # 0
    /\ Release(t)
    /\ run_flag_l' = [run_flag_l EXCEPT ![t] = 1 - run_flag_l[t]]
    /\ Goto(t, "decide")
    /\ UNCHANGED <<group, flags, status, alive, ii, history>>

(* exit_flag is read again, without the mutex. *)
worker_run(t) ==
    /\ pc[t] = "decide"
    /\ exit_flag = 0
    /\ status' = [status EXCEPT ![t] = "TEST_RUNNING"]
    /\ began' = [began EXCEPT ![t] = began[t] + 1]
    /\ Goto(t, "fun")
    /\ UNCHANGED <<group, flags, run_flag_l, alive, test_mutex, ii, round, ran>>

worker_exit(t) ==
    /\ pc[t] = "decide"
    /\ exit_flag # 0
    /\ status' = [status EXCEPT ![t] = "TEST_FINISHED"]
    /\ Goto(t, "done")
    /\ UNCHANGED <<group, flags, run_flag_l, alive, test_mutex, ii, history>>

(* The test function returns and the worker takes the mutex ...            *)
worker_fun(t) ==
    /\ pc[t] = "fun"
    /\ Acquire(t)
    /\ Goto(t, "dec")
    /\ UNCHANGED <<group, flags, worker_vars, alive, ii, history>>

(* Mutant of worker_dec_last: the last worker does not wake the caller. *)
worker_dec_last_silent(t) ==
    /\ pc[t] = "dec"
    /\ num_running_t = 1
    /\ Release(t)
    /\ num_running_t' = 0
    /\ ran' = [ran EXCEPT ![t] = ran[t] + 1]
    /\ Goto(t, "stop")
    /\ UNCHANGED <<group, run_flag, exit_flag, worker_vars, alive, ii, round, began>>

(* ... counts itself out, waking the caller when it is the last one ...    *)
worker_dec(t) ==
    /\ pc[t] = "dec"
    /\ num_running_t # 1
    /\ Release(t)
    /\ num_running_t' = num_running_t - 1
    /\ ran' = [ran EXCEPT ![t] = ran[t] + 1]
    /\ Goto(t, "stop")
    /\ UNCHANGED <<group, run_flag, exit_flag, worker_vars, alive, ii, round, began>>

worker_dec_last(t) ==
    /\ pc[t] = "dec"
    /\ num_running_t = 1
    /\ Release(t)
    /\ num_running_t' = 0
    /\ ran' = [ran EXCEPT ![t] = ran[t] + 1]
    /\ BroadcastAndGoto(t, "stop")
    /\ UNCHANGED <<group, run_flag, exit_flag, worker_vars, alive, ii, round, began>>

(* ... and sets its status only after it has released the mutex.           *)
worker_stop(t) ==
    /\ pc[t] = "stop"
    /\ status' = [status EXCEPT ![t] = "TEST_STOP"]
    /\ Goto(t, "lock")
    /\ UNCHANGED <<group, flags, run_flag_l, alive, test_mutex, ii, history>>

(* pthread_cond_wait: a wait may end without a broadcast, and ends by      *)
(* taking the mutex again.                                                 *)
spurious_wakeup(p) ==
    /\ pc[p] = "wait"
    /\ Goto(p, "wake")
    /\ UNCHANGED <<group, flags, worker_vars, alive, test_mutex, ii, history>>

reacquire(p) ==
    /\ pc[p] = "wake"
    /\ Acquire(p)
    /\ Goto(p, IF p = Caller THEN "wait_test" ELSE "test")
    /\ UNCHANGED <<group, flags, worker_vars, alive, ii, history>>

(***************************************************************************)
(* Ending a group.  A caller may exit while a round is still under way.    *)
(***************************************************************************)
test_group_exit ==
    /\ pc[Caller] = "idle"
    /\ Acquire(Caller)
    /\ Goto(Caller, "exit")
    /\ UNCHANGED <<group, flags, worker_vars, alive, ii, history>>

(* Mutant of raise_exit_flag: sleeping workers are not woken. *)
raise_exit_flag_silent ==
    /\ pc[Caller] = "exit"
    /\ Release(Caller)
    /\ exit_flag' = 1
    /\ ii' = 0
    /\ Goto(Caller, "joining")
    /\ UNCHANGED <<group, run_flag, num_running_t, worker_vars, alive, history>>

raise_exit_flag ==
    /\ pc[Caller] = "exit"
    /\ Release(Caller)
    /\ exit_flag' = 1
    /\ ii' = 0
    /\ BroadcastAndGoto(Caller, "joining")
    /\ UNCHANGED <<group, run_flag, num_running_t, worker_vars, alive, history>>

(* pthread_join blocks until the thread is done. *)
join_worker ==
    /\ pc[Caller] = "joining"
    /\ ii < n_threads
    /\ pc[ii + 1] = "done"
    /\ ii' = ii + 1
    /\ UNCHANGED <<group, flags, worker_vars, alive, test_mutex, pc, history>>

(* A thread that was never created is joined all the same, through a tid   *)
(* that nothing has initialised.  What pthread_join then does is           *)
(* undefined: it returns (with an error that `status < 0` does not see),   *)
(* it crashes the process, or it waits for ever (no step, and no fairness  *)
(* asks for one).                                                          *)
join_uncreated ==
    /\ pc[Caller] = "joining"
    /\ ii < n_threads
    /\ pc[ii + 1] = "none"
    /\ ii' = ii + 1
    /\ UNCHANGED <<group, flags, worker_vars, alive, test_mutex, pc, history>>

join_uncreated_crashes ==
    /\ pc[Caller] = "joining"
    /\ ii < n_threads
    /\ pc[ii + 1] = "none"
    /\ pc' = [p \in Procs |-> CASE p = Caller -> "crashed"
                               [] p # Caller /\ pc[p] = "none" -> "none"
                               [] OTHER -> "killed"]
    /\ alive' = {} /\ test_mutex' = Nobody
    /\ UNCHANGED <<group, flags, worker_vars, ii, history>>

(* Mutant of exit_cleanup: the last thread is not joined. *)
exit_cleanup_unjoined ==
    /\ pc[Caller] = "joining"
    /\ ii >= n_threads - 1
    /\ alive' = alive \ {"sync", "thread_list"}
    /\ Goto(Caller, "exited")
    /\ UNCHANGED <<group, flags, worker_vars, test_mutex, ii, history>>

exit_cleanup ==
    /\ pc[Caller] = "joining"
    /\ ii = n_threads
    /\ alive' = alive \ {"sync", "thread_list"}
    /\ Goto(Caller, "exited")
    /\ UNCHANGED <<group, flags, worker_vars, test_mutex, ii, history>>

test_group_destroy ==
    /\ pc[Caller] = "exited"
    /\ alive' = alive \ {"test_list", "group"}
    /\ Goto(Caller, "end")
    /\ UNCHANGED <<group, flags, worker_vars, test_mutex, ii, history>>

(* The group is gone: the caller goes on with code of its own, or the      *)
(* process is.                                                             *)
Finished == pc[Caller] \in {"end", "crashed"} /\ UNCHANGED vars

CallerStep ==
    \/ test_group_thread_create \/ create_worker \/ create_worker_fails
    \/ thread_create_return
    \/ test_group_start \/ start_refused \/ start_lock \/ start_round
    \/ test_group_wait \/ wait_rounds_end
    \/ poll_begin \/ test_group_test_status \/ poll_end
    \/ test_group_exit \/ raise_exit_flag
    \/ join_worker \/ join_uncreated \/ join_uncreated_crashes
    \/ exit_cleanup \/ test_group_destroy

WorkerStep(t) ==
    \/ worker_lock(t) \/ worker_sleep(t) \/ worker_proceed(t)
    \/ worker_run(t) \/ worker_exit(t)
    \/ worker_fun(t) \/ worker_dec(t) \/ worker_dec_last(t) \/ worker_stop(t)

Next ==
    \/ \E n \in 1..MaxTests : \/ test_group_create(n)
                              \/ test_group_add(n) \/ add_refused(n)
    \/ CallerStep
    \/ \E t \in Tests : WorkerStep(t)
    \/ \E p \in Procs : spurious_wakeup(p) \/ reacquire(p)
    \/ Finished

(***************************************************************************)
(* Fairness.  The operating system keeps every runnable thread running and *)
(* a test function returns (WF); a thread that keeps asking for the mutex  *)
(* while others take and release it gets it in the end (SF).  The caller   *)
(* completes a harness function it has entered, but need not call another. *)
(* No fairness is assumed of spurious wakeups, nor of the join of a thread *)
(* that was never created.                                                 *)
(***************************************************************************)
CallerInside ==
    \/ create_worker \/ create_worker_fails \/ thread_create_return
    \/ start_round \/ wait_rounds_end \/ test_group_test_status \/ poll_end
    \/ raise_exit_flag \/ join_worker \/ exit_cleanup

WorkerInside(t) ==
    \/ worker_sleep(t) \/ worker_proceed(t) \/ worker_run(t) \/ worker_exit(t)
    \/ worker_dec(t) \/ worker_dec_last(t) \/ worker_stop(t)

Fairness ==
    /\ WF_vars(CallerInside)
    /\ SF_vars(start_lock \/ reacquire(Caller))
    /\ \A t \in Tests : /\ WF_vars(WorkerInside(t))
                        /\ SF_vars(worker_lock(t) \/ worker_fun(t) \/ reacquire(t))

Spec == Init /\ [][Next]_vars
FairSpec == Spec /\ Fairness

(***************************************************************************)
(* Properties.                                                             *)
(***************************************************************************)
Members == 1..num_test
Waiting == {"wait_test", "wait", "wake", "polling"}

TypeOK ==
    /\ group_size \in 0..MaxTests /\ num_test \in 0..MaxTests
    /\ n_threads \in 0..MaxTests /\ ii \in 0..MaxTests
    /\ run_flag \in {0, 1} /\ exit_flag \in {0, 1}
    /\ num_running_t \in Nat
    /\ status \in [Tests -> TEST_STATUS \cup {Unset}]
    /\ alive \in SUBSET Parts
    /\ test_mutex \in Procs \cup {Nobody}
    /\ pc \in [Procs -> WorkerPC \cup CallerPC]
    /\ pc[Caller] \in CallerPC
    /\ \A t \in Tests : pc[t] \in WorkerPC
    /\ run_flag_l \in [Tests -> {0, 1}]
    /\ round \in Nat
    /\ began \in [Tests -> Nat] /\ ran \in [Tests -> Nat]

(* No test function is skipped or run twice: while the group is open each  *)
(* test was entered once per round, or is still to be entered in the       *)
(* current one (concurrent_utils.c, worker: the two one-bit flags tell     *)
(* consecutive rounds apart although a worker may lag behind the caller).  *)
OncePerRound ==
    \A t \in Members : /\ ran[t] \in {round - 1, round}
                      /\ began[t] \in {ran[t], ran[t] + 1} /\ began[t] <= round

(* num_running_t is the number of tests that have not finished the round,  *)
(* whatever the interleaving of the decrements and the next start.         *)
CountsUnfinished ==
    num_running_t = Cardinality({t \in Members : ran[t] # round})

(* No wakeup is lost: nobody sleeps in pthread_cond_wait once what it      *)
(* waits for has happened, although one condition variable serves the      *)
(* workers and the caller and broadcasts are made once.                    *)
NoLostWakeup ==
    /\ \A t \in Tests : pc[t] = "wait" => run_flag = run_flag_l[t] /\ exit_flag = 0
    /\ pc[Caller] = "wait" => num_running_t # 0

(* A worker that can still run finds the group, its lists, the mutex and   *)
(* the condition variable: test_group_exit joins before it frees.          *)
NoUseAfterFree ==
    \A t \in Tests : pc[t] \notin {"none", "done", "killed"} => alive = Parts

(* After test_group_exit every test that has a thread is TEST_FINISHED,    *)
(* never TEST_ERROR (test_memory_concurrent_deregister.c:114 asserts it),  *)
(* even when the caller exits in the middle of a round.                    *)
ExitedAllFinished ==
    pc[Caller] = "exited" =>
        \A t \in Members : status[t] = "TEST_FINISHED" \/ pc[t] = "none"

(***************************************************************************)
(* The inductive invariant behind the safety properties.                   *)
(***************************************************************************)
Building == pc[Caller] \in {"none", "setup", "creating"}
Closed == pc[Caller] \in {"joining", "exited", "end", "crashed"}
Gone(t) == pc[t] \in {"none", "done", "killed"}

(* The mutex is held by whoever is inside a critical section. *)
MutexInv ==
    \A p \in Procs :
        pc[p] \in {"test", "dec", "start", "wait_test", "exit"} <=> test_mutex = p

(* How the caller's progress bounds the threads, the rounds and the lists. *)
CallerInv ==
    /\ n_threads = IF pc[Caller] \in {"none", "setup"} THEN 0 ELSE num_test
    /\ ii <= n_threads
    /\ Building => round = 0 /\ run_flag = 0 /\ num_running_t = 0
    /\ exit_flag = IF Closed THEN 1 ELSE 0
    /\ pc[Caller] \in {"start_lock", "start"} => num_running_t = 0
    /\ pc[Caller] = "polling" => round = 1
    /\ alive = CASE pc[Caller] = "none" -> {}
                 [] pc[Caller] \in {"setup", "exited"} -> {"group", "test_list"}
                 [] pc[Caller] \in {"end", "crashed"} -> {}
                 [] OTHER -> Parts

(* Which threads exist, and which the caller knows to have ended. *)
ThreadInv ==
    \A t \in Tests :
        /\ t > n_threads => pc[t] = "none"
        /\ pc[Caller] = "creating" /\ t > ii => pc[t] = "none"
        /\ pc[t] = "none" => run_flag_l[t] = 0 /\ ran[t] = 0 /\ began[t] = 0
        /\ pc[Caller] = "joining" /\ t <= ii => Gone(t)
        /\ pc[Caller] \in {"exited", "end", "crashed"} => Gone(t)
        /\ pc[t] = "killed" => pc[Caller] = "crashed"

(* How a worker's local flag tells it whether it owes the round a run. *)
RoundInv ==
    \A t \in Members :
        /\ ran[t] \in {round - 1, round}
        /\ pc[t] \in {"none", "lock", "test", "wait", "wake", "stop"}
              => /\ began[t] = ran[t]
                 /\ run_flag = run_flag_l[t] <=> ran[t] = round
        /\ pc[t] = "decide" => /\ began[t] = ran[t]
                               /\ exit_flag = 0 => /\ ran[t] = round - 1
                                                   /\ run_flag = run_flag_l[t]
        /\ pc[t] \in {"fun", "dec"} => /\ began[t] = ran[t] + 1
                                       /\ ran[t] = round - 1
                                       /\ run_flag = run_flag_l[t]
        /\ pc[t] = "done" => exit_flag = 1 /\ began[t] = ran[t]
        /\ pc[t] = "killed" => began[t] \in {ran[t], ran[t] + 1} /\ began[t] <= round

(* What the status of a test says about its runs. *)
StatusInv ==
    \A t \in Tests :
        /\ status[t] = "TEST_STOP" => ran[t] > 0
        /\ pc[t] = "stop" => ran[t] > 0
        /\ pc[t] = "done" => status[t] = "TEST_FINISHED"
        /\ pc[Caller] = "polling" /\ t <= ii => ran[t] > 0

(* Everything that is preserved together by every step. *)
IndInv ==
    /\ TypeOK /\ MutexInv /\ CallerInv /\ ThreadInv
    /\ RoundInv /\ CountsUnfinished /\ NoLostWakeup /\ StatusInv

(* A caller that returns from test_group_wait, or from polling every test  *)
(* until TEST_STOP, returns to a group in which every test function of the *)
(* round has run and none is running.                                      *)
WaitIsBarrier ==
    [][pc[Caller] \in Waiting /\ pc'[Caller] = "idle"
         => \A t \in Members : ran[t] = round /\ began[t] = round /\ pc[t] # "fun"]_vars

(* test_group_wait returns, and so does polling, in every round of a group *)
(* whose threads could all be created; test_group_thread_create does not   *)
(* notice a thread that could not (concurrent_utils.c:199), and the group  *)
(* then waits for ever.                                                    *)
WaitReturns ==
    (pc[Caller] \in Waiting /\ \A t \in Members : pc[t] # "none") ~> pc[Caller] = "idle"

(* test_group_exit joins every thread, also those that were asleep, in the *)
(* middle of a round, or not yet waiting when exit_flag was raised; like   *)
(* the wait it may hang, or crash, when a thread could not be created.     *)
ExitReturns ==
    (pc[Caller] = "exit" /\ \A t \in Members : pc[t] # "none") ~> pc[Caller] = "exited"

(* What the caller of a group sees of it: the tests it consists of once    *)
(* the threads are created, the ones without a thread, the ones that have  *)
(* finished the round, and what the caller itself is doing.                *)
SeenMembers == IF Building THEN {} ELSE Members
SeenLost == {t \in SeenMembers : pc[t] = "none"}
SeenDone == {t \in SeenMembers : ran[t] = round}
SeenCaller == CASE Building -> "building"
                [] pc[Caller] \in Waiting -> "waiting"
                [] Closed -> "closed"
                [] OTHER -> "free"

(* The group implements the fork-join rounds of module ForkJoin. *)
Abstract == INSTANCE ForkJoin WITH
    Members <- Tests, members <- SeenMembers, lost <- SeenLost,
    done <- SeenDone, caller <- SeenCaller

ImplementsForkJoin == Abstract!FairSpec
=============================================================================
