--------------------------- MODULE TestGroupProofs ---------------------------
(***************************************************************************)
(* Proofs about TestGroup for every group size and every number of rounds, *)
(* also for groups some of whose threads could not be created.             *)
(***************************************************************************)
EXTENDS TestGroup, FiniteSetTheorems, TLAPS

Unfinished == {t \in Members : ran[t] # round}

(* The set that num_running_t counts is finite. *)
LEMMA UnfinishedFinite ==
    ASSUME TypeOK
    PROVE  /\ IsFiniteSet(Members)
           /\ Cardinality(Members) = num_test
           /\ IsFiniteSet(Unfinished)
           /\ Cardinality(Unfinished) \in Nat
<1>1. IsFiniteSet(Members) /\ Cardinality(Members) = num_test
  BY FS_Interval, MaxTestsAssumption DEF TypeOK, Members
<1>2. Unfinished \in SUBSET Members
  BY DEF Unfinished
<1>3. IsFiniteSet(Unfinished)
  BY <1>1, <1>2, FS_Subset
<1> QED
  BY <1>1, <1>3, FS_CardinalityType

(* The initial state satisfies the inductive invariant. *)
LEMMA InitIndInv == Init => IndInv
<1> SUFFICES ASSUME Init PROVE IndInv
  OBVIOUS
<1> USE DEF Init
<1>1. TypeOK
  BY MaxTestsAssumption
  DEF TypeOK, Tests, Procs, Caller, Nobody, Unset, Parts, WorkerPC, CallerPC
<1>2. MutexInv /\ ThreadInv /\ StatusInv /\ NoLostWakeup
  BY DEF MutexInv, ThreadInv, StatusInv, NoLostWakeup, Procs, Tests, Caller,
         Nobody, Gone, Unset
<1>3. CallerInv
  BY DEF CallerInv, Building, Closed, Procs, Caller
<1>4. Members = {}
  BY DEF Members
<1>5. RoundInv
  BY <1>4 DEF RoundInv
<1>6. CountsUnfinished
  BY <1>4, FS_EmptySet DEF CountsUnfinished
<1> QED
  BY <1>1, <1>2, <1>3, <1>5, <1>6 DEF IndInv

(* Every step preserves the inductive invariant. *)
LEMMA NextIndInv == IndInv /\ [Next]_vars => IndInv'
<1> SUFFICES ASSUME IndInv, [Next]_vars PROVE IndInv'
  OBVIOUS
<1> USE MaxTestsAssumption
    DEF Tests, Procs, Caller, Nobody, Unset, Parts, WorkerPC, CallerPC, TEST_STATUS,
        group, flags, worker_vars, history, Goto, Acquire, Release,
        Building, Closed, Gone, Members
<1>0. /\ TypeOK /\ MutexInv /\ CallerInv /\ ThreadInv
      /\ RoundInv /\ CountsUnfinished /\ NoLostWakeup /\ StatusInv
  BY DEF IndInv
<1>1. ASSUME NEW n \in 1..MaxTests, test_group_create(n) PROVE IndInv'
  <2>1. TypeOK'
    BY <1>0, <1>1 DEF test_group_create, TypeOK
  <2>2. MutexInv'
    BY <1>0, <1>1 DEF test_group_create, TypeOK, MutexInv
  <2>3. CallerInv'
    BY <1>0, <1>1 DEF test_group_create, TypeOK, CallerInv
  <2>4. ThreadInv'
    BY <1>0, <1>1 DEF test_group_create, TypeOK, CallerInv, ThreadInv
  <2>5. RoundInv'
    BY <1>0, <1>1 DEF test_group_create, TypeOK, CallerInv, ThreadInv, RoundInv
  <2>6. NoLostWakeup'
    BY <1>0, <1>1 DEF test_group_create, TypeOK, CallerInv, NoLostWakeup
  <2>7. StatusInv'
    BY <1>0, <1>1 DEF test_group_create, TypeOK, CallerInv, StatusInv
  <2>8. CountsUnfinished'
    BY <1>0, <1>1 DEF test_group_create, TypeOK, CountsUnfinished
  <2> QED BY <2>1, <2>2, <2>3, <2>4, <2>5, <2>6, <2>7, <2>8 DEF IndInv
<1>2. ASSUME NEW n \in 1..MaxTests, test_group_add(n) PROVE IndInv'
  <2>1. TypeOK'
    BY <1>0, <1>2 DEF test_group_add, TypeOK
  <2>2. MutexInv'
    BY <1>0, <1>2 DEF test_group_add, TypeOK, MutexInv
  <2>3. CallerInv'
    BY <1>0, <1>2 DEF test_group_add, TypeOK, CallerInv
  <2>4. ThreadInv'
    BY <1>0, <1>2 DEF test_group_add, TypeOK, CallerInv, ThreadInv
  <2>5. RoundInv'
    BY <1>0, <1>2 DEF test_group_add, TypeOK, CallerInv, ThreadInv, RoundInv
  <2>6. NoLostWakeup'
    BY <1>0, <1>2 DEF test_group_add, TypeOK, CallerInv, NoLostWakeup
  <2>7. StatusInv'
    BY SMTT(20), <1>0, <1>2 DEF test_group_add, TypeOK, CallerInv, StatusInv, ThreadInv
  <2>8. CountsUnfinished'
    <3>1. Unfinished = {} /\ Unfinished' = {}
      BY <1>0, <1>2 DEF test_group_add, TypeOK, CallerInv, ThreadInv, Unfinished
    <3>2. num_running_t' = 0
      BY <1>0, <1>2 DEF test_group_add, CallerInv
    <3> QED BY <3>1, <3>2, FS_EmptySet DEF CountsUnfinished, Unfinished
  <2> QED BY <2>1, <2>2, <2>3, <2>4, <2>5, <2>6, <2>7, <2>8 DEF IndInv
<1>3. CASE start_lock
  <2>1. TypeOK'
    BY <1>0, <1>3 DEF start_lock, TypeOK
  <2>2. MutexInv'
    BY <1>0, <1>3 DEF start_lock, TypeOK, MutexInv
  <2>3. CallerInv'
    BY <1>0, <1>3 DEF start_lock, TypeOK, CallerInv
  <2>4. ThreadInv'
    BY <1>0, <1>3 DEF start_lock, TypeOK, CallerInv, ThreadInv
  <2>5. RoundInv'
    BY <1>0, <1>3 DEF start_lock, TypeOK, CallerInv, ThreadInv, RoundInv
  <2>6. NoLostWakeup'
    BY <1>0, <1>3 DEF start_lock, TypeOK, CallerInv, NoLostWakeup
  <2>7. StatusInv'
    BY <1>0, <1>3 DEF start_lock, TypeOK, CallerInv, StatusInv
  <2>8. CountsUnfinished'
    BY <1>0, <1>3 DEF start_lock, TypeOK, CountsUnfinished
  <2> QED BY <2>1, <2>2, <2>3, <2>4, <2>5, <2>6, <2>7, <2>8 DEF IndInv
<1>4. CASE test_group_thread_create
  <2>1. TypeOK'
    BY <1>0, <1>4 DEF test_group_thread_create, TypeOK
  <2>2. MutexInv'
    BY <1>0, <1>4 DEF test_group_thread_create, TypeOK, MutexInv
  <2>3. CallerInv'
    BY <1>0, <1>4 DEF test_group_thread_create, TypeOK, CallerInv
  <2>4. ThreadInv'
    BY <1>0, <1>4 DEF test_group_thread_create, TypeOK, CallerInv, ThreadInv
  <2>5. RoundInv'
    BY <1>0, <1>4
    DEF test_group_thread_create, TypeOK, CallerInv, ThreadInv, RoundInv
  <2>6. NoLostWakeup'
    BY <1>0, <1>4 DEF test_group_thread_create, TypeOK, CallerInv, NoLostWakeup
  <2>7. StatusInv'
    BY <1>0, <1>4 DEF test_group_thread_create, TypeOK, CallerInv, StatusInv
  <2>8. CountsUnfinished'
    BY <1>0, <1>4 DEF test_group_thread_create, TypeOK, CountsUnfinished
  <2> QED BY <2>1, <2>2, <2>3, <2>4, <2>5, <2>6, <2>7, <2>8 DEF IndInv
<1>5. CASE create_worker
  <2>1. TypeOK'
    BY <1>0, <1>5 DEF create_worker, TypeOK
  <2>2. MutexInv'
    BY <1>0, <1>5 DEF create_worker, TypeOK, MutexInv, CallerInv, ThreadInv
  <2>3. CallerInv'
    BY <1>0, <1>5 DEF create_worker, TypeOK, CallerInv
  <2>4. ThreadInv'
    BY <1>0, <1>5 DEF create_worker, TypeOK, CallerInv, ThreadInv
  <2>5. RoundInv'
    BY <1>0, <1>5 DEF create_worker, TypeOK, CallerInv, ThreadInv, RoundInv
  <2>6. NoLostWakeup'
    BY <1>0, <1>5 DEF create_worker, TypeOK, CallerInv, NoLostWakeup
  <2>7. StatusInv'
    BY <1>0, <1>5 DEF create_worker, TypeOK, CallerInv, StatusInv
  <2>8. CountsUnfinished'
    BY <1>0, <1>5 DEF create_worker, TypeOK, CountsUnfinished
  <2> QED BY <2>1, <2>2, <2>3, <2>4, <2>5, <2>6, <2>7, <2>8 DEF IndInv
<1>6. CASE create_worker_fails
  <2>1. TypeOK'
    BY <1>0, <1>6 DEF create_worker_fails, TypeOK
  <2>2. MutexInv'
    BY <1>0, <1>6 DEF create_worker_fails, TypeOK, MutexInv
  <2>3. CallerInv'
    BY <1>0, <1>6 DEF create_worker_fails, TypeOK, CallerInv
  <2>4. ThreadInv'
    BY <1>0, <1>6 DEF create_worker_fails, TypeOK, CallerInv, ThreadInv
  <2>5. RoundInv'
    BY <1>0, <1>6
    DEF create_worker_fails, TypeOK, CallerInv, ThreadInv, RoundInv
  <2>6. NoLostWakeup'
    BY <1>0, <1>6 DEF create_worker_fails, TypeOK, CallerInv, NoLostWakeup
  <2>7. StatusInv'
    BY <1>0, <1>6 DEF create_worker_fails, TypeOK, CallerInv, StatusInv
  <2>8. CountsUnfinished'
    BY <1>0, <1>6 DEF create_worker_fails, TypeOK, CountsUnfinished
  <2> QED BY <2>1, <2>2, <2>3, <2>4, <2>5, <2>6, <2>7, <2>8 DEF IndInv
<1>7. CASE thread_create_return
  <2>1. TypeOK'
    BY <1>0, <1>7 DEF thread_create_return, TypeOK
  <2>2. MutexInv'
    BY <1>0, <1>7 DEF thread_create_return, TypeOK, MutexInv
  <2>3. CallerInv'
    BY <1>0, <1>7 DEF thread_create_return, TypeOK, CallerInv
  <2>4. ThreadInv'
    BY <1>0, <1>7 DEF thread_create_return, TypeOK, CallerInv, ThreadInv
  <2>5. RoundInv'
    BY <1>0, <1>7
    DEF thread_create_return, TypeOK, CallerInv, ThreadInv, RoundInv
  <2>6. NoLostWakeup'
    BY <1>0, <1>7 DEF thread_create_return, TypeOK, CallerInv, NoLostWakeup
  <2>7. StatusInv'
    BY <1>0, <1>7 DEF thread_create_return, TypeOK, CallerInv, StatusInv
  <2>8. CountsUnfinished'
    BY <1>0, <1>7 DEF thread_create_return, TypeOK, CountsUnfinished
  <2> QED BY <2>1, <2>2, <2>3, <2>4, <2>5, <2>6, <2>7, <2>8 DEF IndInv
<1>8. CASE test_group_start
  <2>1. TypeOK'
    BY <1>0, <1>8 DEF test_group_start, TypeOK
  <2>2. MutexInv'
    BY <1>0, <1>8 DEF test_group_start, TypeOK, MutexInv
  <2>3. CallerInv'
    BY <1>0, <1>8 DEF test_group_start, TypeOK, CallerInv
  <2>4. ThreadInv'
    BY <1>0, <1>8 DEF test_group_start, TypeOK, CallerInv, ThreadInv
  <2>5. RoundInv'
    BY <1>0, <1>8 DEF test_group_start, TypeOK, CallerInv, ThreadInv, RoundInv
  <2>6. NoLostWakeup'
    BY <1>0, <1>8 DEF test_group_start, TypeOK, CallerInv, NoLostWakeup
  <2>7. StatusInv'
    BY <1>0, <1>8 DEF test_group_start, TypeOK, CallerInv, StatusInv
  <2>8. CountsUnfinished'
    BY <1>0, <1>8 DEF test_group_start, TypeOK, CountsUnfinished
  <2> QED BY <2>1, <2>2, <2>3, <2>4, <2>5, <2>6, <2>7, <2>8 DEF IndInv
<1>9. CASE start_round
  <2>1. TypeOK'
    BY <1>0, <1>9 DEF start_round, BroadcastAndGoto, TypeOK
  <2>2. MutexInv'
    BY <1>0, <1>9 DEF start_round, BroadcastAndGoto, TypeOK, MutexInv
  <2>3. CallerInv'
    BY <1>0, <1>9 DEF start_round, BroadcastAndGoto, TypeOK, CallerInv
  <2>4. ThreadInv'
    BY <1>0, <1>9
    DEF start_round, BroadcastAndGoto, TypeOK, CallerInv, ThreadInv
  <2>5. RoundInv'
    <3>1. Unfinished = {}
      BY <1>0, <1>9, UnfinishedFinite, FS_EmptySet
      DEF start_round, CallerInv, CountsUnfinished, Unfinished
    <3>2. \A t \in Members : ran[t] = round
      BY <3>1 DEF Unfinished
    <3>3. \A t \in Members : pc[t] \notin {"decide", "fun", "dec", "done", "killed"}
      BY <1>0, <1>9, <3>2 DEF start_round, CallerInv, ThreadInv, RoundInv, TypeOK
    <3>4. \A t \in Members : pc'[t] \in {"none", "lock", "test", "wait", "wake", "stop"}
      BY <1>0, <1>9, <3>3 DEF start_round, BroadcastAndGoto, TypeOK
    <3>5. \A t \in Members : began[t] = ran[t] /\ run_flag = run_flag_l[t]
      BY <1>0, <3>2, <3>3 DEF TypeOK, RoundInv
    <3> QED
      BY <1>0, <1>9, <3>2, <3>4, <3>5 DEF start_round, TypeOK, RoundInv
  <2>6. NoLostWakeup'
    BY <1>0, <1>9
    DEF start_round, BroadcastAndGoto, TypeOK, CallerInv, NoLostWakeup
  <2>7. StatusInv'
    BY <1>0, <1>9
    DEF start_round, BroadcastAndGoto, TypeOK, CallerInv, StatusInv
  <2>8. CountsUnfinished'
    <3>1. Unfinished = {}
      BY <1>0, <1>9, UnfinishedFinite, FS_EmptySet
      DEF start_round, CallerInv, CountsUnfinished, Unfinished
    <3>2. Unfinished' = Members
      BY <1>0, <1>9, <3>1 DEF start_round, TypeOK, Unfinished
    <3> QED
      BY <1>0, <1>9, <3>2, UnfinishedFinite DEF start_round, CountsUnfinished, Unfinished
  <2> QED BY <2>1, <2>2, <2>3, <2>4, <2>5, <2>6, <2>7, <2>8 DEF IndInv
<1>10. CASE test_group_wait
  <2>1. TypeOK'
    BY <1>0, <1>10 DEF test_group_wait, TypeOK
  <2>2. MutexInv'
    BY <1>0, <1>10 DEF test_group_wait, TypeOK, MutexInv
  <2>3. CallerInv'
    BY <1>0, <1>10 DEF test_group_wait, TypeOK, CallerInv
  <2>4. ThreadInv'
    BY <1>0, <1>10 DEF test_group_wait, TypeOK, CallerInv, ThreadInv
  <2>5. RoundInv'
    BY <1>0, <1>10 DEF test_group_wait, TypeOK, CallerInv, ThreadInv, RoundInv
  <2>6. NoLostWakeup'
    BY <1>0, <1>10 DEF test_group_wait, TypeOK, CallerInv, NoLostWakeup
  <2>7. StatusInv'
    BY <1>0, <1>10 DEF test_group_wait, TypeOK, CallerInv, StatusInv
  <2>8. CountsUnfinished'
    BY <1>0, <1>10 DEF test_group_wait, TypeOK, CountsUnfinished
  <2> QED BY <2>1, <2>2, <2>3, <2>4, <2>5, <2>6, <2>7, <2>8 DEF IndInv
<1>11. CASE wait_rounds_end
  <2>1. TypeOK'
    BY <1>0, <1>11 DEF wait_rounds_end, TypeOK
  <2>2. MutexInv'
    BY <1>0, <1>11 DEF wait_rounds_end, TypeOK, MutexInv
  <2>3. CallerInv'
    BY <1>0, <1>11 DEF wait_rounds_end, TypeOK, CallerInv
  <2>4. ThreadInv'
    BY <1>0, <1>11 DEF wait_rounds_end, TypeOK, CallerInv, ThreadInv
  <2>5. RoundInv'
    BY <1>0, <1>11 DEF wait_rounds_end, TypeOK, CallerInv, ThreadInv, RoundInv
  <2>6. NoLostWakeup'
    BY <1>0, <1>11 DEF wait_rounds_end, TypeOK, CallerInv, NoLostWakeup
  <2>7. StatusInv'
    BY <1>0, <1>11 DEF wait_rounds_end, TypeOK, CallerInv, StatusInv
  <2>8. CountsUnfinished'
    BY <1>0, <1>11 DEF wait_rounds_end, TypeOK, CountsUnfinished
  <2> QED BY <2>1, <2>2, <2>3, <2>4, <2>5, <2>6, <2>7, <2>8 DEF IndInv
<1>12. CASE poll_begin
  <2>1. TypeOK'
    BY <1>0, <1>12 DEF poll_begin, TypeOK
  <2>2. MutexInv'
    BY <1>0, <1>12 DEF poll_begin, TypeOK, MutexInv
  <2>3. CallerInv'
    BY <1>0, <1>12 DEF poll_begin, TypeOK, CallerInv
  <2>4. ThreadInv'
    BY <1>0, <1>12 DEF poll_begin, TypeOK, CallerInv, ThreadInv
  <2>5. RoundInv'
    BY <1>0, <1>12 DEF poll_begin, TypeOK, CallerInv, ThreadInv, RoundInv
  <2>6. NoLostWakeup'
    BY <1>0, <1>12 DEF poll_begin, TypeOK, CallerInv, NoLostWakeup
  <2>7. StatusInv'
    BY <1>0, <1>12 DEF poll_begin, TypeOK, CallerInv, StatusInv
  <2>8. CountsUnfinished'
    BY <1>0, <1>12 DEF poll_begin, TypeOK, CountsUnfinished
  <2> QED BY <2>1, <2>2, <2>3, <2>4, <2>5, <2>6, <2>7, <2>8 DEF IndInv
<1>13. CASE test_group_test_status
  <2>1. TypeOK'
    BY <1>0, <1>13 DEF test_group_test_status, TypeOK
  <2>2. MutexInv'
    BY <1>0, <1>13 DEF test_group_test_status, TypeOK, MutexInv
  <2>3. CallerInv'
    BY <1>0, <1>13 DEF test_group_test_status, TypeOK, CallerInv
  <2>4. ThreadInv'
    BY <1>0, <1>13 DEF test_group_test_status, TypeOK, CallerInv, ThreadInv
  <2>5. RoundInv'
    BY <1>0, <1>13
    DEF test_group_test_status, TypeOK, CallerInv, ThreadInv, RoundInv
  <2>6. NoLostWakeup'
    BY <1>0, <1>13 DEF test_group_test_status, TypeOK, CallerInv, NoLostWakeup
  <2>7. StatusInv'
    BY <1>0, <1>13 DEF test_group_test_status, TypeOK, CallerInv, StatusInv
  <2>8. CountsUnfinished'
    BY <1>0, <1>13 DEF test_group_test_status, TypeOK, CountsUnfinished
  <2> QED BY <2>1, <2>2, <2>3, <2>4, <2>5, <2>6, <2>7, <2>8 DEF IndInv
<1>14. CASE poll_end
  <2>1. TypeOK'
    BY <1>0, <1>14 DEF poll_end, TypeOK
  <2>2. MutexInv'
    BY <1>0, <1>14 DEF poll_end, TypeOK, MutexInv
  <2>3. CallerInv'
    BY <1>0, <1>14 DEF poll_end, TypeOK, CallerInv
  <2>4. ThreadInv'
    BY <1>0, <1>14 DEF poll_end, TypeOK, CallerInv, ThreadInv
  <2>5. RoundInv'
    BY <1>0, <1>14 DEF poll_end, TypeOK, CallerInv, ThreadInv, RoundInv
  <2>6. NoLostWakeup'
    BY <1>0, <1>14 DEF poll_end, TypeOK, CallerInv, NoLostWakeup
  <2>7. StatusInv'
    BY <1>0, <1>14 DEF poll_end, TypeOK, CallerInv, StatusInv
  <2>8. CountsUnfinished'
    BY <1>0, <1>14 DEF poll_end, TypeOK, CountsUnfinished
  <2> QED BY <2>1, <2>2, <2>3, <2>4, <2>5, <2>6, <2>7, <2>8 DEF IndInv
<1>15. CASE test_group_exit
  <2>1. TypeOK'
    BY <1>0, <1>15 DEF test_group_exit, TypeOK
  <2>2. MutexInv'
    BY <1>0, <1>15 DEF test_group_exit, TypeOK, MutexInv
  <2>3. CallerInv'
    BY <1>0, <1>15 DEF test_group_exit, TypeOK, CallerInv
  <2>4. ThreadInv'
    BY <1>0, <1>15 DEF test_group_exit, TypeOK, CallerInv, ThreadInv
  <2>5. RoundInv'
    BY <1>0, <1>15 DEF test_group_exit, TypeOK, CallerInv, ThreadInv, RoundInv
  <2>6. NoLostWakeup'
    BY <1>0, <1>15 DEF test_group_exit, TypeOK, CallerInv, NoLostWakeup
  <2>7. StatusInv'
    BY <1>0, <1>15 DEF test_group_exit, TypeOK, CallerInv, StatusInv
  <2>8. CountsUnfinished'
    BY <1>0, <1>15 DEF test_group_exit, TypeOK, CountsUnfinished
  <2> QED BY <2>1, <2>2, <2>3, <2>4, <2>5, <2>6, <2>7, <2>8 DEF IndInv
<1>16. CASE raise_exit_flag
  <2>1. TypeOK'
    BY <1>0, <1>16 DEF raise_exit_flag, BroadcastAndGoto, TypeOK
  <2>2. MutexInv'
    BY <1>0, <1>16 DEF raise_exit_flag, BroadcastAndGoto, TypeOK, MutexInv
  <2>3. CallerInv'
    BY <1>0, <1>16 DEF raise_exit_flag, BroadcastAndGoto, TypeOK, CallerInv
  <2>4. ThreadInv'
    BY <1>0, <1>16
    DEF raise_exit_flag, BroadcastAndGoto, TypeOK, CallerInv, ThreadInv
  <2>5. RoundInv'
    BY <1>0, <1>16
    DEF raise_exit_flag, BroadcastAndGoto, TypeOK, CallerInv, ThreadInv,
        RoundInv
  <2>6. NoLostWakeup'
    BY <1>0, <1>16
    DEF raise_exit_flag, BroadcastAndGoto, TypeOK, CallerInv, NoLostWakeup
  <2>7. StatusInv'
    BY <1>0, <1>16
    DEF raise_exit_flag, BroadcastAndGoto, TypeOK, CallerInv, StatusInv
  <2>8. CountsUnfinished'
    BY <1>0, <1>16
    DEF raise_exit_flag, BroadcastAndGoto, TypeOK, CountsUnfinished
  <2> QED BY <2>1, <2>2, <2>3, <2>4, <2>5, <2>6, <2>7, <2>8 DEF IndInv
<1>17. CASE join_worker
  <2>1. TypeOK'
    BY <1>0, <1>17 DEF join_worker, TypeOK
  <2>2. MutexInv'
    BY <1>0, <1>17 DEF join_worker, TypeOK, MutexInv
  <2>3. CallerInv'
    BY SMTT(20), <1>0, <1>17 DEF join_worker, TypeOK, CallerInv
  <2>4. ThreadInv'
    BY SMTT(20), <1>0, <1>17 DEF join_worker, TypeOK, CallerInv, ThreadInv
  <2>5. RoundInv'
    BY <1>0, <1>17 DEF join_worker, TypeOK, CallerInv, ThreadInv, RoundInv
  <2>6. NoLostWakeup'
    BY <1>0, <1>17 DEF join_worker, TypeOK, CallerInv, NoLostWakeup
  <2>7. StatusInv'
    BY <1>0, <1>17 DEF join_worker, TypeOK, CallerInv, StatusInv
  <2>8. CountsUnfinished'
    BY <1>0, <1>17 DEF join_worker, TypeOK, CountsUnfinished
  <2> QED BY <2>1, <2>2, <2>3, <2>4, <2>5, <2>6, <2>7, <2>8 DEF IndInv
<1>18. CASE exit_cleanup
  <2>1. TypeOK'
    BY <1>0, <1>18 DEF exit_cleanup, TypeOK
  <2>2. MutexInv'
    BY <1>0, <1>18 DEF exit_cleanup, TypeOK, MutexInv
  <2>3. CallerInv'
    BY <1>0, <1>18 DEF exit_cleanup, TypeOK, CallerInv
  <2>4. ThreadInv'
    BY <1>0, <1>18 DEF exit_cleanup, TypeOK, CallerInv, ThreadInv
  <2>5. RoundInv'
    BY <1>0, <1>18 DEF exit_cleanup, TypeOK, CallerInv, ThreadInv, RoundInv
  <2>6. NoLostWakeup'
    BY <1>0, <1>18 DEF exit_cleanup, TypeOK, CallerInv, NoLostWakeup
  <2>7. StatusInv'
    BY <1>0, <1>18 DEF exit_cleanup, TypeOK, CallerInv, StatusInv
  <2>8. CountsUnfinished'
    BY <1>0, <1>18 DEF exit_cleanup, TypeOK, CountsUnfinished
  <2> QED BY <2>1, <2>2, <2>3, <2>4, <2>5, <2>6, <2>7, <2>8 DEF IndInv
<1>19. CASE test_group_destroy
  <2>1. TypeOK'
    BY <1>0, <1>19 DEF test_group_destroy, TypeOK
  <2>2. MutexInv'
    BY <1>0, <1>19 DEF test_group_destroy, TypeOK, MutexInv
  <2>3. CallerInv'
    BY <1>0, <1>19 DEF test_group_destroy, TypeOK, CallerInv
  <2>4. ThreadInv'
    BY <1>0, <1>19 DEF test_group_destroy, TypeOK, CallerInv, ThreadInv
  <2>5. RoundInv'
    BY <1>0, <1>19
    DEF test_group_destroy, TypeOK, CallerInv, ThreadInv, RoundInv
  <2>6. NoLostWakeup'
    BY <1>0, <1>19 DEF test_group_destroy, TypeOK, CallerInv, NoLostWakeup
  <2>7. StatusInv'
    BY <1>0, <1>19 DEF test_group_destroy, TypeOK, CallerInv, StatusInv
  <2>8. CountsUnfinished'
    BY <1>0, <1>19 DEF test_group_destroy, TypeOK, CountsUnfinished
  <2> QED BY <2>1, <2>2, <2>3, <2>4, <2>5, <2>6, <2>7, <2>8 DEF IndInv
<1>20. ASSUME NEW t \in Tests, worker_lock(t) PROVE IndInv'
  <2>1. TypeOK'
    BY <1>0, <1>20 DEF worker_lock, TypeOK
  <2>2. MutexInv'
    BY <1>0, <1>20 DEF worker_lock, TypeOK, MutexInv
  <2>3. CallerInv'
    BY <1>0, <1>20 DEF worker_lock, TypeOK, CallerInv
  <2>4. ThreadInv'
    BY <1>0, <1>20 DEF worker_lock, TypeOK, CallerInv, ThreadInv
  <2>5. RoundInv'
    BY <1>0, <1>20 DEF worker_lock, TypeOK, CallerInv, ThreadInv, RoundInv
  <2>6. NoLostWakeup'
    BY <1>0, <1>20 DEF worker_lock, TypeOK, CallerInv, NoLostWakeup
  <2>7. StatusInv'
    BY <1>0, <1>20 DEF worker_lock, TypeOK, CallerInv, StatusInv
  <2>8. CountsUnfinished'
    BY <1>0, <1>20 DEF worker_lock, TypeOK, CountsUnfinished
  <2> QED BY <2>1, <2>2, <2>3, <2>4, <2>5, <2>6, <2>7, <2>8 DEF IndInv
<1>21. ASSUME NEW t \in Tests, worker_sleep(t) PROVE IndInv'
  <2>1. TypeOK'
    BY <1>0, <1>21 DEF worker_sleep, TypeOK
  <2>2. MutexInv'
    BY <1>0, <1>21 DEF worker_sleep, TypeOK, MutexInv
  <2>3. CallerInv'
    BY <1>0, <1>21 DEF worker_sleep, TypeOK, CallerInv
  <2>4. ThreadInv'
    BY <1>0, <1>21 DEF worker_sleep, TypeOK, CallerInv, ThreadInv
  <2>5. RoundInv'
    BY <1>0, <1>21 DEF worker_sleep, TypeOK, CallerInv, ThreadInv, RoundInv
  <2>6. NoLostWakeup'
    BY <1>0, <1>21 DEF worker_sleep, TypeOK, CallerInv, NoLostWakeup
  <2>7. StatusInv'
    BY <1>0, <1>21 DEF worker_sleep, TypeOK, CallerInv, StatusInv
  <2>8. CountsUnfinished'
    BY <1>0, <1>21 DEF worker_sleep, TypeOK, CountsUnfinished
  <2> QED BY <2>1, <2>2, <2>3, <2>4, <2>5, <2>6, <2>7, <2>8 DEF IndInv
<1>22. ASSUME NEW t \in Tests, worker_proceed(t) PROVE IndInv'
  <2>1. TypeOK'
    BY <1>0, <1>22 DEF worker_proceed, TypeOK
  <2>2. MutexInv'
    BY <1>0, <1>22 DEF worker_proceed, TypeOK, MutexInv
  <2>3. CallerInv'
    BY <1>0, <1>22 DEF worker_proceed, TypeOK, CallerInv
  <2>4. ThreadInv'
    BY <1>0, <1>22 DEF worker_proceed, TypeOK, CallerInv, ThreadInv
  <2>5. RoundInv'
    BY SMTT(20), <1>0, <1>22 DEF worker_proceed, TypeOK, CallerInv, ThreadInv, RoundInv
  <2>6. NoLostWakeup'
    BY <1>0, <1>22 DEF worker_proceed, TypeOK, CallerInv, NoLostWakeup
  <2>7. StatusInv'
    BY <1>0, <1>22 DEF worker_proceed, TypeOK, CallerInv, StatusInv
  <2>8. CountsUnfinished'
    BY <1>0, <1>22 DEF worker_proceed, TypeOK, CountsUnfinished
  <2> QED BY <2>1, <2>2, <2>3, <2>4, <2>5, <2>6, <2>7, <2>8 DEF IndInv
<1>23. ASSUME NEW t \in Tests, worker_run(t) PROVE IndInv'
  <2>1. TypeOK'
    BY <1>0, <1>23 DEF worker_run, TypeOK
  <2>2. MutexInv'
    BY <1>0, <1>23 DEF worker_run, TypeOK, MutexInv
  <2>3. CallerInv'
    BY <1>0, <1>23 DEF worker_run, TypeOK, CallerInv
  <2>4. ThreadInv'
    BY SMTT(20), <1>0, <1>23 DEF worker_run, TypeOK, CallerInv, ThreadInv
  <2>5. RoundInv'
    BY <1>0, <1>23 DEF worker_run, TypeOK, CallerInv, ThreadInv, RoundInv
  <2>6. NoLostWakeup'
    BY <1>0, <1>23 DEF worker_run, TypeOK, CallerInv, NoLostWakeup
  <2>7. StatusInv'
    BY <1>0, <1>23 DEF worker_run, TypeOK, CallerInv, StatusInv
  <2>8. CountsUnfinished'
    BY <1>0, <1>23 DEF worker_run, TypeOK, CountsUnfinished
  <2> QED BY <2>1, <2>2, <2>3, <2>4, <2>5, <2>6, <2>7, <2>8 DEF IndInv
<1>24. ASSUME NEW t \in Tests, worker_exit(t) PROVE IndInv'
  <2>1. TypeOK'
    BY <1>0, <1>24 DEF worker_exit, TypeOK
  <2>2. MutexInv'
    BY <1>0, <1>24 DEF worker_exit, TypeOK, MutexInv
  <2>3. CallerInv'
    BY <1>0, <1>24 DEF worker_exit, TypeOK, CallerInv
  <2>4. ThreadInv'
    BY <1>0, <1>24 DEF worker_exit, TypeOK, CallerInv, ThreadInv
  <2>5. RoundInv'
    BY SMTT(20), <1>0, <1>24 DEF worker_exit, TypeOK, CallerInv, ThreadInv, RoundInv
  <2>6. NoLostWakeup'
    BY <1>0, <1>24 DEF worker_exit, TypeOK, CallerInv, NoLostWakeup
  <2>7. StatusInv'
    BY <1>0, <1>24 DEF worker_exit, TypeOK, CallerInv, StatusInv
  <2>8. CountsUnfinished'
    BY <1>0, <1>24 DEF worker_exit, TypeOK, CountsUnfinished
  <2> QED BY <2>1, <2>2, <2>3, <2>4, <2>5, <2>6, <2>7, <2>8 DEF IndInv
<1>25. ASSUME NEW t \in Tests, worker_fun(t) PROVE IndInv'
  <2>1. TypeOK'
    BY <1>0, <1>25 DEF worker_fun, TypeOK
  <2>2. MutexInv'
    BY <1>0, <1>25 DEF worker_fun, TypeOK, MutexInv
  <2>3. CallerInv'
    BY <1>0, <1>25 DEF worker_fun, TypeOK, CallerInv
  <2>4. ThreadInv'
    BY <1>0, <1>25 DEF worker_fun, TypeOK, CallerInv, ThreadInv
  <2>5. RoundInv'
    BY <1>0, <1>25 DEF worker_fun, TypeOK, CallerInv, ThreadInv, RoundInv
  <2>6. NoLostWakeup'
    BY <1>0, <1>25 DEF worker_fun, TypeOK, CallerInv, NoLostWakeup
  <2>7. StatusInv'
    BY <1>0, <1>25 DEF worker_fun, TypeOK, CallerInv, StatusInv
  <2>8. CountsUnfinished'
    BY <1>0, <1>25 DEF worker_fun, TypeOK, CountsUnfinished
  <2> QED BY <2>1, <2>2, <2>3, <2>4, <2>5, <2>6, <2>7, <2>8 DEF IndInv
<1>26. ASSUME NEW t \in Tests, worker_dec(t) PROVE IndInv'
  <2>1. TypeOK'
    <3>1. t \in Unfinished
      BY <1>0, <1>26 DEF worker_dec, TypeOK, CallerInv, ThreadInv, RoundInv, Unfinished
    <3>2. Unfinished # {} /\ num_running_t = Cardinality(Unfinished)
      BY <1>0, <3>1 DEF CountsUnfinished, Unfinished
    <3>3. num_running_t' \in Nat
      BY <1>0, <1>26, <3>2, UnfinishedFinite, FS_EmptySet DEF worker_dec
    <3> QED
      BY <1>0, <1>26, <3>3 DEF worker_dec, TypeOK
  <2>2. MutexInv'
    BY <1>0, <1>26 DEF worker_dec, TypeOK, MutexInv
  <2>3. CallerInv'
    <3>1. t \in Unfinished
      BY <1>0, <1>26 DEF worker_dec, TypeOK, CallerInv, ThreadInv, RoundInv, Unfinished
    <3>2. num_running_t # 0
      BY <1>0, <3>1, UnfinishedFinite, FS_EmptySet DEF CountsUnfinished, Unfinished
    <3> QED
      BY <1>0, <1>26, <3>2 DEF worker_dec, TypeOK, CallerInv
  <2>4. ThreadInv'
    BY SMTT(20), <1>0, <1>26 DEF worker_dec, TypeOK, CallerInv, ThreadInv
  <2>5. RoundInv'
    <3>1. t \in Members /\ ran[t] = round - 1 /\ began[t] = ran[t] + 1 /\ run_flag = run_flag_l[t]
      BY SMTT(20), <1>0, <1>26 DEF worker_dec, TypeOK, CallerInv, ThreadInv, RoundInv
    <3>2. /\ Members' = Members /\ round' = round /\ run_flag' = run_flag
          /\ exit_flag' = exit_flag /\ run_flag_l' = run_flag_l /\ began' = began
          /\ ran' = [ran EXCEPT ![t] = ran[t] + 1]
      BY <1>26 DEF worker_dec, Members
    <3>3. pc'[t] = "stop" /\ ran'[t] = round /\ began'[t] = ran'[t]
      BY <1>0, <1>26, <3>1, <3>2 DEF worker_dec, Goto, TypeOK
    <3>4. ASSUME NEW u \in Members, u # t
          PROVE  ran'[u] = ran[u] /\ (pc'[u] = pc[u] \/ (pc[u] = "wait" /\ pc'[u] = "wake"))
      BY <1>0, MaxTestsAssumption, <1>26, <3>2, <3>4 DEF worker_dec, Goto, TypeOK, Members, Tests, Procs
    <3>5. ASSUME NEW u \in Members, u # t PROVE RoundInv!(u)'
      BY <1>0, <3>2, <3>4, <3>5 DEF RoundInv
    <3> QED BY <1>0, <3>1, <3>2, <3>3, <3>5 DEF RoundInv, TypeOK
  <2>6. NoLostWakeup'
    BY <1>0, <1>26 DEF worker_dec, TypeOK, CallerInv, NoLostWakeup
  <2>7. StatusInv'
    BY <1>0, <1>26 DEF worker_dec, TypeOK, CallerInv, StatusInv
  <2>8. CountsUnfinished'
    <3>1. t \in Unfinished
      BY <1>0, <1>26 DEF worker_dec, TypeOK, CallerInv, ThreadInv, RoundInv, Unfinished
    <3>2. Unfinished' = Unfinished \ {t}
      BY <1>0, <1>26, <3>1 DEF worker_dec, TypeOK, RoundInv, Unfinished
    <3>3. Cardinality(Unfinished \ {t}) = Cardinality(Unfinished) - 1
      BY <1>0, <3>1, UnfinishedFinite, FS_RemoveElement
    <3> QED
      BY <1>0, <1>26, <3>2, <3>3 DEF worker_dec, CountsUnfinished, Unfinished
  <2> QED BY <2>1, <2>2, <2>3, <2>4, <2>5, <2>6, <2>7, <2>8 DEF IndInv
<1>27. ASSUME NEW t \in Tests, worker_dec_last(t) PROVE IndInv'
  <2>1. TypeOK'
    <3>1. t \in Unfinished
      BY <1>0, <1>27 DEF worker_dec_last, TypeOK, CallerInv, ThreadInv, RoundInv, Unfinished
    <3>2. Unfinished # {} /\ num_running_t = Cardinality(Unfinished)
      BY <1>0, <3>1 DEF CountsUnfinished, Unfinished
    <3>3. num_running_t' \in Nat
      BY <1>0, <1>27, <3>2, UnfinishedFinite, FS_EmptySet DEF worker_dec_last
    <3> QED
      BY <1>0, <1>27, <3>3 DEF worker_dec_last, BroadcastAndGoto, TypeOK
  <2>2. MutexInv'
    BY <1>0, <1>27 DEF worker_dec_last, BroadcastAndGoto, TypeOK, MutexInv
  <2>3. CallerInv'
    BY <1>0, <1>27 DEF worker_dec_last, BroadcastAndGoto, TypeOK, CallerInv
  <2>4. ThreadInv'
    BY <1>0, <1>27
    DEF worker_dec_last, BroadcastAndGoto, TypeOK, CallerInv, ThreadInv
  <2>5. RoundInv'
    <3>1. t \in Members /\ ran[t] = round - 1 /\ began[t] = ran[t] + 1 /\ run_flag = run_flag_l[t]
      BY <1>0, <1>27 DEF worker_dec_last, TypeOK, CallerInv, ThreadInv, RoundInv
    <3>2. /\ Members' = Members /\ round' = round /\ run_flag' = run_flag
          /\ exit_flag' = exit_flag /\ run_flag_l' = run_flag_l /\ began' = began
          /\ ran' = [ran EXCEPT ![t] = ran[t] + 1]
      BY <1>27 DEF worker_dec_last, Members
    <3>3. pc'[t] = "stop" /\ ran'[t] = round /\ began'[t] = ran'[t]
      BY <1>0, <1>27, <3>1, <3>2 DEF worker_dec_last, BroadcastAndGoto, Procs, TypeOK
    <3>4. ASSUME NEW u \in Members, u # t
          PROVE  ran'[u] = ran[u] /\ (pc'[u] = pc[u] \/ (pc[u] = "wait" /\ pc'[u] = "wake"))
      BY <1>0, MaxTestsAssumption, <1>27, <3>2, <3>4 DEF worker_dec_last, BroadcastAndGoto, TypeOK, Members, Tests, Procs
    <3>5. ASSUME NEW u \in Members, u # t PROVE RoundInv!(u)'
      BY <1>0, <3>2, <3>4, <3>5 DEF RoundInv
    <3> QED BY <1>0, <3>1, <3>2, <3>3, <3>5 DEF RoundInv, TypeOK
  <2>6. NoLostWakeup'
    BY <1>0, <1>27
    DEF worker_dec_last, BroadcastAndGoto, TypeOK, CallerInv, NoLostWakeup
  <2>7. StatusInv'
    BY <1>0, <1>27
    DEF worker_dec_last, BroadcastAndGoto, TypeOK, CallerInv, StatusInv
  <2>8. CountsUnfinished'
    <3>1. t \in Unfinished
      BY <1>0, <1>27 DEF worker_dec_last, TypeOK, CallerInv, ThreadInv, RoundInv, Unfinished
    <3>2. Unfinished' = Unfinished \ {t}
      BY <1>0, <1>27, <3>1 DEF worker_dec_last, TypeOK, RoundInv, Unfinished
    <3>3. Cardinality(Unfinished \ {t}) = Cardinality(Unfinished) - 1
      BY <1>0, <3>1, UnfinishedFinite, FS_RemoveElement
    <3> QED
      BY <1>0, <1>27, <3>2, <3>3 DEF worker_dec_last, CountsUnfinished, Unfinished
  <2> QED BY <2>1, <2>2, <2>3, <2>4, <2>5, <2>6, <2>7, <2>8 DEF IndInv
<1>28. ASSUME NEW t \in Tests, worker_stop(t) PROVE IndInv'
  <2>1. TypeOK'
    BY <1>0, <1>28 DEF worker_stop, TypeOK
  <2>2. MutexInv'
    BY <1>0, <1>28 DEF worker_stop, TypeOK, MutexInv
  <2>3. CallerInv'
    BY <1>0, <1>28 DEF worker_stop, TypeOK, CallerInv
  <2>4. ThreadInv'
    BY <1>0, <1>28 DEF worker_stop, TypeOK, CallerInv, ThreadInv
  <2>5. RoundInv'
    BY <1>0, <1>28 DEF worker_stop, TypeOK, CallerInv, ThreadInv, RoundInv
  <2>6. NoLostWakeup'
    BY <1>0, <1>28 DEF worker_stop, TypeOK, CallerInv, NoLostWakeup
  <2>7. StatusInv'
    BY <1>0, <1>28 DEF worker_stop, TypeOK, CallerInv, StatusInv
  <2>8. CountsUnfinished'
    BY <1>0, <1>28 DEF worker_stop, TypeOK, CountsUnfinished
  <2> QED BY <2>1, <2>2, <2>3, <2>4, <2>5, <2>6, <2>7, <2>8 DEF IndInv
<1>29. ASSUME NEW p \in Procs, spurious_wakeup(p) PROVE IndInv'
  <2>1. TypeOK'
    BY <1>0, <1>29 DEF spurious_wakeup, TypeOK
  <2>2. MutexInv'
    BY <1>0, <1>29 DEF spurious_wakeup, TypeOK, MutexInv
  <2>3. CallerInv'
    BY <1>0, <1>29 DEF spurious_wakeup, TypeOK, CallerInv
  <2>4. ThreadInv'
    BY <1>0, <1>29 DEF spurious_wakeup, TypeOK, CallerInv, ThreadInv
  <2>5. RoundInv'
    BY <1>0, <1>29 DEF spurious_wakeup, TypeOK, CallerInv, ThreadInv, RoundInv
  <2>6. NoLostWakeup'
    BY <1>0, <1>29 DEF spurious_wakeup, TypeOK, CallerInv, NoLostWakeup
  <2>7. StatusInv'
    BY <1>0, <1>29 DEF spurious_wakeup, TypeOK, CallerInv, StatusInv
  <2>8. CountsUnfinished'
    BY <1>0, <1>29 DEF spurious_wakeup, TypeOK, CountsUnfinished
  <2> QED BY <2>1, <2>2, <2>3, <2>4, <2>5, <2>6, <2>7, <2>8 DEF IndInv
<1>30. ASSUME NEW p \in Procs, reacquire(p) PROVE IndInv'
  <2>1. TypeOK'
    BY <1>0, <1>30 DEF reacquire, TypeOK
  <2>2. MutexInv'
    BY <1>0, <1>30 DEF reacquire, TypeOK, MutexInv
  <2>3. CallerInv'
    BY <1>0, <1>30 DEF reacquire, TypeOK, CallerInv
  <2>4. ThreadInv'
    BY <1>0, <1>30 DEF reacquire, TypeOK, CallerInv, ThreadInv
  <2>5. RoundInv'
    BY <1>0, <1>30 DEF reacquire, TypeOK, CallerInv, ThreadInv, RoundInv
  <2>6. NoLostWakeup'
    BY <1>0, <1>30 DEF reacquire, TypeOK, CallerInv, NoLostWakeup
  <2>7. StatusInv'
    BY <1>0, <1>30 DEF reacquire, TypeOK, CallerInv, StatusInv
  <2>8. CountsUnfinished'
    BY <1>0, <1>30 DEF reacquire, TypeOK, CountsUnfinished
  <2> QED BY <2>1, <2>2, <2>3, <2>4, <2>5, <2>6, <2>7, <2>8 DEF IndInv
<1>31. CASE join_uncreated
  <2>1. TypeOK'
    BY <1>0, <1>31 DEF join_uncreated, TypeOK
  <2>2. MutexInv'
    BY <1>0, <1>31 DEF join_uncreated, TypeOK, MutexInv
  <2>3. CallerInv'
    BY SMTT(20), <1>0, <1>31 DEF join_uncreated, TypeOK, CallerInv
  <2>4. ThreadInv'
    BY SMTT(20), <1>0, <1>31 DEF join_uncreated, TypeOK, CallerInv, ThreadInv
  <2>5. RoundInv'
    BY <1>0, <1>31 DEF join_uncreated, TypeOK, CallerInv, ThreadInv, RoundInv
  <2>6. NoLostWakeup'
    BY <1>0, <1>31 DEF join_uncreated, TypeOK, CallerInv, NoLostWakeup
  <2>7. StatusInv'
    BY <1>0, <1>31 DEF join_uncreated, TypeOK, CallerInv, StatusInv
  <2>8. CountsUnfinished'
    BY <1>0, <1>31 DEF join_uncreated, TypeOK, CountsUnfinished
  <2> QED BY <2>1, <2>2, <2>3, <2>4, <2>5, <2>6, <2>7, <2>8 DEF IndInv
<1>32. CASE join_uncreated_crashes
  <2>1. TypeOK'
    BY <1>0, <1>32 DEF join_uncreated_crashes, TypeOK
  <2>2. MutexInv'
    BY <1>0, <1>32 DEF join_uncreated_crashes, TypeOK, MutexInv
  <2>3. CallerInv'
    BY SMTT(20), <1>0, <1>32 DEF join_uncreated_crashes, TypeOK, CallerInv
  <2>4. ThreadInv'
    BY SMTT(20), <1>0, <1>32 DEF join_uncreated_crashes, TypeOK, CallerInv, ThreadInv
  <2>5. RoundInv'
    BY <1>0, <1>32 DEF join_uncreated_crashes, TypeOK, CallerInv, ThreadInv, RoundInv
  <2>6. NoLostWakeup'
    BY <1>0, <1>32 DEF join_uncreated_crashes, TypeOK, CallerInv, NoLostWakeup
  <2>7. StatusInv'
    BY <1>0, <1>32 DEF join_uncreated_crashes, TypeOK, CallerInv, StatusInv
  <2>8. CountsUnfinished'
    BY <1>0, <1>32 DEF join_uncreated_crashes, TypeOK, CountsUnfinished
  <2> QED BY <2>1, <2>2, <2>3, <2>4, <2>5, <2>6, <2>7, <2>8 DEF IndInv
<1>33. CASE UNCHANGED vars
  BY <1>0, <1>33
  DEF vars, IndInv, TypeOK, MutexInv, CallerInv, ThreadInv, RoundInv,
      CountsUnfinished, NoLostWakeup, StatusInv
<1> QED
  BY <1>1, <1>2, <1>3, <1>4, <1>5, <1>6, <1>7, <1>8, <1>9, <1>10, <1>11,
     <1>12, <1>13, <1>14, <1>15, <1>16, <1>17, <1>18, <1>19, <1>20, <1>21,
     <1>22, <1>23, <1>24, <1>25, <1>26, <1>27, <1>28, <1>29, <1>30, <1>31,
     <1>32, <1>33
  DEF Next, CallerStep, WorkerStep, add_refused, start_refused, Finished

(***************************************************************************)
(* The theorems.                                                           *)
(***************************************************************************)
(* The inductive invariant holds in every reachable state of a test group. *)
THEOREM Invariance == Spec => []IndInv
<1>1. Init => IndInv
  BY InitIndInv
<1>2. IndInv /\ [Next]_vars => IndInv'
  BY NextIndInv
<1> QED
  BY <1>1, <1>2, PTL DEF Spec

(* The variables of a group keep their types: in particular num_running_t, *)
(* an unsigned counter in the code, is never decremented below zero.       *)
THEOREM TypeCorrect == Spec => []TypeOK
<1>1. IndInv => TypeOK
  BY DEF IndInv
<1> QED
  BY <1>1, Invariance, PTL

(* No wakeup of the shared condition variable is lost. *)
THEOREM WakeupsAreKept == Spec => []NoLostWakeup
<1>1. IndInv => NoLostWakeup
  BY DEF IndInv
<1> QED
  BY <1>1, Invariance, PTL

(* Every test function is entered once in each round, for any number of    *)
(* tests and rounds, although rounds are told apart by one bit.            *)
THEOREM RoundsAreExact == Spec => []OncePerRound
<1>1. IndInv => OncePerRound
  <2> SUFFICES ASSUME IndInv, NEW t \in Members
               PROVE  /\ ran[t] \in {round - 1, round}
                      /\ began[t] \in {ran[t], ran[t] + 1} /\ began[t] <= round
    BY DEF OncePerRound
  <2>1. t \in Tests /\ round \in Nat /\ ran[t] \in Nat /\ pc[t] \in WorkerPC
    BY MaxTestsAssumption DEF IndInv, TypeOK, Members, Tests
  <2> QED
    BY <2>1 DEF IndInv, RoundInv, WorkerPC
<1> QED
  BY <1>1, Invariance, PTL

(* No worker touches a part of the group after test_group_exit or          *)
(* test_group_destroy has released it.                                     *)
THEOREM WorkersUseLiveMemory == Spec => []NoUseAfterFree
<1>1. IndInv => NoUseAfterFree
  BY MaxTestsAssumption
  DEF IndInv, TypeOK, CallerInv, ThreadInv, NoUseAfterFree, Gone, Tests, CallerPC
<1> QED
  BY <1>1, Invariance, PTL

(* After test_group_exit every test that has a thread is TEST_FINISHED,    *)
(* whatever the round was doing when exit_flag was raised, and although    *)
(* the pollers write TEST_ERROR into the same statuses without the mutex.  *)
THEOREM ExitLeavesFinished == Spec => []ExitedAllFinished
<1>1. IndInv => ExitedAllFinished
  <2> SUFFICES ASSUME IndInv, pc[Caller] = "exited", NEW t \in Members
               PROVE  status[t] = "TEST_FINISHED" \/ pc[t] = "none"
    BY DEF ExitedAllFinished
  <2>1. t \in Tests
    BY MaxTestsAssumption DEF IndInv, TypeOK, Members, Tests
  <2> QED
    BY <2>1 DEF IndInv, ThreadInv, StatusInv, Gone
<1> QED
  BY <1>1, Invariance, PTL

(* A caller that returns from test_group_wait, or from polling, finds      *)
(* every test function of the round finished.                              *)
THEOREM WaitingIsABarrier == Spec => WaitIsBarrier
<1> DEFINE Returns == pc[Caller] \in Waiting /\ pc'[Caller] = "idle"
           RoundDone == \A t \in Members :
                            ran[t] = round /\ began[t] = round /\ pc[t] # "fun"
<1>1. IndInv /\ [Next]_vars => [Returns => RoundDone]_vars
  <2> SUFFICES ASSUME IndInv, Next, Returns PROVE RoundDone
    OBVIOUS
  <2>1. wait_rounds_end \/ poll_end
    BY MaxTestsAssumption
    DEF IndInv, TypeOK, Waiting, Procs, Tests, Caller, Goto, BroadcastAndGoto,
        Next, CallerStep, WorkerStep, Finished, add_refused, start_refused, vars,
        test_group_create, test_group_add, test_group_thread_create, create_worker, create_worker_fails,
        thread_create_return, test_group_start, start_lock, start_round,
        test_group_wait, poll_begin, test_group_test_status, test_group_exit, raise_exit_flag,
        join_worker, join_uncreated, join_uncreated_crashes, exit_cleanup,
        test_group_destroy, worker_lock, worker_sleep,
        worker_proceed, worker_run, worker_exit, worker_fun, worker_dec,
        worker_dec_last, worker_stop, spurious_wakeup, reacquire
  <2>2. \A t \in Members : ran[t] = round
    <3>1. CASE wait_rounds_end
      <4>1. num_running_t = 0
        BY <3>1 DEF wait_rounds_end, Goto, IndInv, TypeOK, Procs, Caller
      <4>2. Unfinished = {}
        BY <4>1, UnfinishedFinite, FS_EmptySet
        DEF IndInv, CountsUnfinished, Unfinished
      <4> QED
        BY <4>2 DEF Unfinished
    <3>2. CASE poll_end
      <4>1. ii = num_test /\ round = 1
        BY <3>2 DEF poll_end, IndInv, CallerInv
      <4>2. \A t \in Members : t \in Tests /\ t <= ii
        BY <4>1, MaxTestsAssumption DEF IndInv, TypeOK, Members, Tests
      <4> QED
        BY <3>2, <4>1, <4>2 DEF poll_end, IndInv, TypeOK, RoundInv, StatusInv
    <3> QED
      BY <2>1, <3>1, <3>2
  <2> QED
    BY <2>2, MaxTestsAssumption DEF IndInv, TypeOK, RoundInv, Members, Tests, WorkerPC, Waiting, CallerInv, Closed
<1> QED
  BY <1>1, Invariance, PTL DEF Spec, WaitIsBarrier

-----------------------------------------------------------------------------
(***************************************************************************)
(* The test group implements the fork-join rounds of module ForkJoin, its  *)
(* fairness apart: the initial states map to initial states and every step *)
(* to a step or a stutter.                                                 *)
(***************************************************************************)

(* What the caller sees in each of its phases; the phases exclude each     *)
(* other.                                                                  *)
LEMMA SeenPhases ==
    /\ Building => SeenCaller = "building" /\ SeenMembers = {}
    /\ pc[Caller] \in Waiting => SeenCaller = "waiting"
    /\ Closed => SeenCaller = "closed"
    /\ ~Building /\ ~Closed /\ pc[Caller] \notin Waiting => SeenCaller = "free"
    /\ ~Building => SeenMembers = Members
BY DEF SeenCaller, SeenMembers, Building, Closed, Waiting

(* An open group whose tests, rounds and threads a step leaves alone       *)
(* looks the same afterwards, but for what the caller is doing.            *)
LEMMA SameGroup ==
    ASSUME ~Building, ~Building', UNCHANGED <<num_test, ran, round>>,
           \A t \in Members : pc'[t] = "none" <=> pc[t] = "none"
    PROVE  UNCHANGED <<SeenMembers, SeenLost, round, SeenDone>>
BY DEF SeenMembers, SeenLost, SeenDone, Members

(* While a group is built nothing of it is seen. *)
LEMMA BuildingStutter ==
    ASSUME Building, Building', UNCHANGED round
    PROVE  UNCHANGED Abstract!vars
BY DEF Abstract!vars, SeenCaller, SeenMembers, SeenLost, SeenDone, Building,
       Closed, Waiting

(* A step in which nobody's phase changes is a stutter. *)
LEMMA SamePhase ==
    ASSUME ~Building, ~Building', UNCHANGED <<num_test, ran, round>>,
           pc'[Caller] \in Waiting <=> pc[Caller] \in Waiting,
           Closed' <=> Closed,
           \A t \in Members : pc'[t] = "none" <=> pc[t] = "none"
    PROVE  UNCHANGED Abstract!vars
<1>1. UNCHANGED <<SeenMembers, SeenLost, round, SeenDone>>
  BY SameGroup
<1>2. UNCHANGED SeenCaller
  BY DEF SeenCaller
<1> QED BY <1>1, <1>2 DEF Abstract!vars

(* A group whose counter is zero has finished its round. *)
LEMMA ZeroIsDone ==
    ASSUME IndInv, num_running_t = 0
    PROVE  \A t \in Members : ran[t] = round
<1>1. Unfinished = {}
  BY UnfinishedFinite, FS_EmptySet DEF IndInv, CountsUnfinished, Unfinished
<1> QED BY <1>1 DEF Unfinished

(* So has a group whose every test was seen at TEST_STOP in its only       *)
(* round: a status is set after the test was counted.                      *)
LEMMA PollIsDone ==
    ASSUME IndInv, poll_end
    PROVE  \A t \in Members : ran[t] = round
<1>1. ii = num_test /\ round = 1 /\ pc[Caller] = "polling"
  BY DEF poll_end, IndInv, CallerInv
<1>2. \A t \in Members : t \in Tests /\ t <= ii
  BY <1>1, MaxTestsAssumption DEF IndInv, TypeOK, Members, Tests
<1> QED
  BY <1>1, <1>2 DEF IndInv, TypeOK, RoundInv, StatusInv

(* An empty group before its first round is an initial state of ForkJoin. *)
LEMMA InitRefines == Init => Abstract!Init
BY DEF Init, Abstract!Init, SeenCaller, SeenMembers, SeenLost, SeenDone,
       Building, Closed, Waiting, Procs, Caller

(* The last thread has been created: the group opens, and as no round was  *)
(* started no test owes it a run.                                          *)
LEMMA OpenRefines ==
    ASSUME IndInv, thread_create_return
    PROVE  Abstract!Open
<1>1. Building /\ SeenCaller = "building"
  BY SeenPhases DEF thread_create_return, Building
<1>2. pc'[Caller] = "idle" /\ UNCHANGED <<num_test, ran, round>>
  BY DEF thread_create_return, Goto, IndInv, TypeOK, Procs, Caller, group, history
<1>3. ~Building' /\ SeenCaller' = "free" /\ SeenMembers' = Members
  BY <1>2 DEF Building, SeenCaller, SeenMembers, Members, Closed, Waiting
<1>4. Members \in SUBSET Tests
  BY MaxTestsAssumption DEF Members, Tests, IndInv, TypeOK
<1>5. \A t \in Members : ran[t] = round
  BY <1>1, <1>4 DEF IndInv, TypeOK, RoundInv, CallerInv
<1>6. SeenDone' = SeenMembers' /\ SeenLost' \in SUBSET SeenMembers'
  BY <1>2, <1>3, <1>5 DEF SeenDone, SeenLost
<1> QED
  BY <1>1, <1>2, <1>3, <1>4, <1>6 DEF Abstract!Open

(* The broadcast of a new round begins it, after a round that was over. *)
LEMMA BeginRefines ==
    ASSUME IndInv, start_round
    PROVE  Abstract!Begin
<1>1. ~Building /\ SeenCaller = "free" /\ SeenMembers = Members
  BY SeenPhases DEF start_round, Building, Closed, Waiting
<1>2. /\ pc'[Caller] = "idle" /\ UNCHANGED <<num_test, ran>> /\ round' = round + 1
      /\ \A t \in Tests : pc'[t] = "none" <=> pc[t] = "none"
  BY MaxTestsAssumption
  DEF start_round, BroadcastAndGoto, IndInv, TypeOK, Procs, Tests, Caller, group
<1>3. ~Building' /\ SeenCaller' = "free" /\ SeenMembers' = Members
  BY <1>2 DEF Building, SeenCaller, SeenMembers, Members, Closed, Waiting
<1>4. \A t \in Members : t \in Tests /\ ran[t] = round
  BY ZeroIsDone, MaxTestsAssumption
  DEF start_round, IndInv, TypeOK, CallerInv, Members, Tests
<1>5. SeenDone = SeenMembers
  BY <1>1, <1>4 DEF SeenDone
<1>6. SeenDone' = {}
  BY <1>2, <1>3, <1>4 DEF SeenDone, IndInv, TypeOK
<1>7. SeenLost' = SeenLost
  BY <1>1, <1>2, <1>3, <1>4 DEF SeenLost
<1> QED
  BY <1>1, <1>2, <1>3, <1>5, <1>6, <1>7 DEF Abstract!Begin

(* A worker that counts itself out finishes its test, once. *)
LEMMA FinishRefines ==
    ASSUME IndInv, NEW t \in Tests, worker_dec(t) \/ worker_dec_last(t)
    PROVE  Abstract!Finish(t)
<1>1. /\ UNCHANGED <<num_test, round>> /\ ran' = [ran EXCEPT ![t] = ran[t] + 1]
      /\ pc[t] = "dec"
      /\ \A u \in Tests : pc'[u] = "none" <=> pc[u] = "none"
      /\ pc'[Caller] = pc[Caller] \/ (pc[Caller] = "wait" /\ pc'[Caller] = "wake")
  <2>1. CASE worker_dec(t)
    BY <2>1, MaxTestsAssumption
    DEF worker_dec, Goto, IndInv, TypeOK, Procs, Tests, Caller, group
  <2>2. CASE worker_dec_last(t)
    BY <2>2, MaxTestsAssumption
    DEF worker_dec_last, BroadcastAndGoto, IndInv, TypeOK, Procs, Tests, Caller, group
  <2> QED BY <2>1, <2>2
<1>2. t \in Members /\ ran[t] = round - 1 /\ ran[t] \in Nat /\ round \in Nat
  BY <1>1, MaxTestsAssumption
  DEF IndInv, TypeOK, RoundInv, ThreadInv, CallerInv, Members, Tests
<1>3. ~Building
  BY <1>2 DEF IndInv, CallerInv, Building
<1>4. SeenMembers = Members /\ SeenMembers' = Members
  BY <1>1, <1>3 DEF SeenMembers, Members, Building
<1>5. SeenCaller' = SeenCaller
  BY <1>1 DEF SeenCaller, Building, Closed, Waiting
<1>6. \A u \in Members : u \in Tests
  BY MaxTestsAssumption DEF Members, Tests, IndInv, TypeOK
<1>7. SeenLost' = SeenLost /\ t \notin SeenLost
  BY <1>1, <1>4, <1>6 DEF SeenLost
<1>8. t \notin SeenDone /\ SeenDone' = SeenDone \cup {t}
  BY <1>1, <1>2, <1>4, <1>6 DEF SeenDone, IndInv, TypeOK
<1> QED
  BY <1>1, <1>2, <1>4, <1>5, <1>7, <1>8 DEF Abstract!Finish

(* The caller enters a wait, or begins to poll. *)
LEMMA WaitRefines ==
    ASSUME IndInv, test_group_wait \/ poll_begin
    PROVE  Abstract!Wait
<1>1. /\ pc[Caller] = "idle" /\ pc'[Caller] \in Waiting
      /\ UNCHANGED <<num_test, ran, round>>
      /\ \A t \in Tests : pc'[t] = pc[t]
  <2>1. CASE test_group_wait
    BY <2>1, MaxTestsAssumption
    DEF test_group_wait, Goto, IndInv, TypeOK, Procs, Tests, Caller, Waiting, group,
        history
  <2>2. CASE poll_begin
    BY <2>2, MaxTestsAssumption
    DEF poll_begin, Goto, IndInv, TypeOK, Procs, Tests, Caller, Waiting, group, history
  <2> QED BY <2>1, <2>2
<1>2. ~Building /\ ~Building' /\ SeenCaller = "free" /\ SeenCaller' = "waiting"
  BY <1>1 DEF SeenCaller, Building, Closed, Waiting
<1>3. UNCHANGED <<SeenMembers, SeenLost, round, SeenDone>>
  BY <1>1, <1>2, SameGroup, MaxTestsAssumption DEF Members, Tests, IndInv, TypeOK
<1> QED
  BY <1>2, <1>3 DEF Abstract!Wait

(* A wait, or a poll, returns when every member has finished the round. *)
LEMMA ReturnRefines ==
    ASSUME IndInv, \/ wait_rounds_end /\ num_running_t = 0
                   \/ poll_end
    PROVE  Abstract!Return
<1>1. /\ pc[Caller] \in Waiting /\ pc'[Caller] = "idle"
      /\ UNCHANGED <<num_test, ran, round>>
      /\ \A t \in Tests : pc'[t] = pc[t]
  <2>1. CASE wait_rounds_end /\ num_running_t = 0
    BY <2>1, MaxTestsAssumption
    DEF wait_rounds_end, Goto, IndInv, TypeOK, Procs, Tests, Caller, Waiting, group,
        history
  <2>2. CASE poll_end
    BY <2>2, MaxTestsAssumption
    DEF poll_end, Goto, IndInv, TypeOK, Procs, Tests, Caller, Waiting, group, history
  <2> QED BY <2>1, <2>2
<1>2. ~Building /\ ~Building' /\ SeenCaller = "waiting" /\ SeenCaller' = "free"
  BY <1>1 DEF SeenCaller, Building, Closed, Waiting
<1>3. UNCHANGED <<SeenMembers, SeenLost, round, SeenDone>>
  BY <1>1, <1>2, SameGroup, MaxTestsAssumption DEF Members, Tests, IndInv, TypeOK
<1>4. \A t \in Members : ran[t] = round
  <2>1. CASE wait_rounds_end /\ num_running_t = 0
    BY <2>1, ZeroIsDone
  <2>2. CASE poll_end
    BY <2>2, PollIsDone
  <2> QED BY <2>1, <2>2
<1>5. SeenDone = SeenMembers
  BY <1>2, <1>4 DEF SeenDone, SeenMembers
<1> QED
  BY <1>2, <1>3, <1>5 DEF Abstract!Return

(* Raising exit_flag closes the group, also in the middle of a round. *)
LEMMA CloseRefines ==
    ASSUME IndInv, raise_exit_flag
    PROVE  Abstract!Close
<1>1. /\ pc[Caller] = "exit" /\ pc'[Caller] = "joining"
      /\ UNCHANGED <<num_test, ran, round>>
      /\ \A t \in Tests : pc'[t] = "none" <=> pc[t] = "none"
  BY MaxTestsAssumption
  DEF raise_exit_flag, BroadcastAndGoto, IndInv, TypeOK, Procs, Tests, Caller,
      group, history
<1>2. ~Building /\ ~Building' /\ SeenCaller = "free" /\ SeenCaller' = "closed"
  BY <1>1 DEF SeenCaller, Building, Closed, Waiting
<1>3. UNCHANGED <<SeenMembers, SeenLost, round, SeenDone>>
  BY <1>1, <1>2, SameGroup, MaxTestsAssumption DEF Members, Tests, IndInv, TypeOK
<1> QED
  BY <1>2, <1>3 DEF Abstract!Close

(* Every step of a group is a step of ForkJoin or is not seen at all. *)
LEMMA NextRefines == IndInv /\ [Next]_vars => [Abstract!Next]_(Abstract!vars)
<1> SUFFICES ASSUME IndInv, [Next]_vars PROVE Abstract!Next \/ UNCHANGED Abstract!vars
  OBVIOUS
<1>0. TypeOK /\ Members \in SUBSET Tests
  BY MaxTestsAssumption DEF IndInv, TypeOK, Members, Tests
<1>1. CASE UNCHANGED vars
  BY <1>1 DEF vars, group, flags, worker_vars, history, Abstract!vars,
      SeenCaller, SeenMembers, SeenLost, SeenDone, Building, Closed, Members
<1>2. ASSUME NEW n \in 1..MaxTests,
             test_group_create(n) \/ test_group_add(n)
      PROVE  UNCHANGED Abstract!vars
  <2>1. Building /\ Building' /\ round' = round
    BY <1>0, <1>2 DEF test_group_create, test_group_add, Goto, Building, history, TypeOK, Procs
  <2> QED BY <2>1, BuildingStutter
<1>3. CASE test_group_thread_create \/ create_worker \/ create_worker_fails
  <2>1. Building /\ Building' /\ round' = round
    BY <1>0, <1>3, MaxTestsAssumption
    DEF test_group_thread_create, create_worker, create_worker_fails, Goto, Building,
        history, TypeOK, Procs, Tests, Caller
  <2> QED BY <2>1, BuildingStutter
<1>4. CASE \/ test_group_start \/ start_lock \/ test_group_test_status
           \/ test_group_exit \/ join_worker \/ join_uncreated
           \/ join_uncreated_crashes \/ exit_cleanup \/ test_group_destroy
           \/ wait_rounds_end /\ num_running_t # 0
  <2>1. /\ ~Building /\ ~Building' /\ UNCHANGED <<num_test, ran, round>>
        /\ pc'[Caller] \in Waiting <=> pc[Caller] \in Waiting
        /\ Closed' <=> Closed
        /\ \A t \in Tests : pc'[t] = "none" <=> pc[t] = "none"
    <3> USE <1>0, MaxTestsAssumption
        DEF Goto, Building, Closed, Waiting, group, history, TypeOK, Procs, Tests, Caller
    <3>1. CASE test_group_start
      BY <3>1 DEF test_group_start
    <3>2. CASE test_group_test_status
      BY <3>2 DEF test_group_test_status
    <3>3. CASE test_group_exit
      BY <3>3 DEF test_group_exit
    <3>4. CASE join_worker
      BY <3>4 DEF join_worker
    <3>5. CASE exit_cleanup
      BY <3>5 DEF exit_cleanup
    <3>6. CASE test_group_destroy
      BY <3>6 DEF test_group_destroy
    <3>7. CASE wait_rounds_end /\ num_running_t # 0
      BY <3>7 DEF wait_rounds_end
    <3>8. CASE start_lock
      BY <3>8 DEF start_lock
    <3>9. CASE join_uncreated
      BY <3>9 DEF join_uncreated
    <3>10. CASE join_uncreated_crashes
      BY <3>10 DEF join_uncreated_crashes
    <3> QED BY <1>4, <3>1, <3>2, <3>3, <3>4, <3>5, <3>6, <3>7, <3>8, <3>9, <3>10
  <2> QED BY <1>0, <2>1, SamePhase
<1>5. ASSUME NEW t \in Tests,
             \/ worker_lock(t) \/ worker_sleep(t) \/ worker_proceed(t)
             \/ worker_run(t) \/ worker_exit(t) \/ worker_fun(t) \/ worker_stop(t)
      PROVE  UNCHANGED Abstract!vars
  <2>1. /\ UNCHANGED <<num_test, ran, round>> /\ pc'[Caller] = pc[Caller]
        /\ \A u \in Tests : pc'[u] = "none" <=> pc[u] = "none"
    <3> USE <1>0, MaxTestsAssumption
        DEF Goto, group, history, TypeOK, Procs, Tests, Caller
    <3>1. CASE worker_lock(t)
      BY <3>1 DEF worker_lock
    <3>2. CASE worker_sleep(t)
      BY <3>2 DEF worker_sleep
    <3>3. CASE worker_proceed(t)
      BY <3>3 DEF worker_proceed
    <3>4. CASE worker_run(t)
      BY <3>4 DEF worker_run
    <3>5. CASE worker_exit(t)
      BY <3>5 DEF worker_exit
    <3>6. CASE worker_fun(t)
      BY <3>6 DEF worker_fun
    <3>7. CASE worker_stop(t)
      BY <3>7 DEF worker_stop
    <3> QED BY <1>5, <3>1, <3>2, <3>3, <3>4, <3>5, <3>6, <3>7
  <2>2. /\ (Building' <=> Building) /\ (Closed' <=> Closed)
        /\ pc'[Caller] \in Waiting <=> pc[Caller] \in Waiting
    BY <2>1 DEF Building, Closed
  <2>3. CASE Building
    BY <2>1, <2>2, <2>3, BuildingStutter
  <2>4. CASE ~Building
    BY <1>0, <2>1, <2>2, <2>4, SamePhase
  <2> QED BY <2>3, <2>4
<1>6. ASSUME NEW p \in Procs, spurious_wakeup(p) \/ reacquire(p)
      PROVE  UNCHANGED Abstract!vars
  <2>1. /\ UNCHANGED <<num_test, ran, round>>
        /\ \/ pc'[Caller] = pc[Caller]
           \/ pc[Caller] \in {"wait", "wake"} /\ pc'[Caller] \in {"wake", "wait_test"}
        /\ \A u \in Tests : pc'[u] = "none" <=> pc[u] = "none"
    BY <1>0, <1>6, MaxTestsAssumption
    DEF spurious_wakeup, reacquire, Goto, group, history, TypeOK, Procs, Tests, Caller
  <2>2. /\ (Building' <=> Building) /\ (Closed' <=> Closed)
        /\ pc'[Caller] \in Waiting <=> pc[Caller] \in Waiting
    BY <2>1 DEF Building, Closed, Waiting
  <2>3. CASE Building
    BY <2>1, <2>2, <2>3, BuildingStutter
  <2>4. CASE ~Building
    BY <1>0, <2>1, <2>2, <2>4, SamePhase
  <2> QED BY <2>3, <2>4
<1>7. ASSUME NEW t \in Tests, worker_dec(t) \/ worker_dec_last(t)
      PROVE  Abstract!Next
  BY <1>7, FinishRefines DEF Abstract!Next
<1>8. CASE thread_create_return
  BY <1>8, OpenRefines DEF Abstract!Next
<1>9. CASE start_round
  BY <1>9, BeginRefines DEF Abstract!Next
<1>10. CASE test_group_wait \/ poll_begin
  BY <1>10, WaitRefines DEF Abstract!Next
<1>11. CASE (wait_rounds_end /\ num_running_t = 0) \/ poll_end
  BY <1>11, ReturnRefines DEF Abstract!Next
<1>12. CASE raise_exit_flag
  BY <1>12, CloseRefines DEF Abstract!Next
<1>13. ASSUME start_refused \/ Finished PROVE UNCHANGED vars
  BY <1>13 DEF start_refused, Finished
<1>14. ASSUME NEW n \in 1..MaxTests, add_refused(n) PROVE UNCHANGED vars
  BY <1>14 DEF add_refused
<1> QED
  BY <1>1, <1>2, <1>3, <1>4, <1>5, <1>6, <1>7, <1>8, <1>9, <1>10, <1>11, <1>12,
     <1>13, <1>14
  DEF Next, CallerStep, WorkerStep

(* A test group implements the fork-join rounds of ForkJoin: members       *)
(* finish once per round, a round begins only after the last one is over,  *)
(* and test_group_wait (or polling the statuses) returns only then.        *)
THEOREM GroupImplementsForkJoin == Spec => Abstract!Spec
<1> QED
  BY InitRefines, NextRefines, Invariance, PTL DEF Spec, Abstract!Spec
=============================================================================
