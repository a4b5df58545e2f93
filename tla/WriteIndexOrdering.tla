------------------------- MODULE WriteIndexOrdering -------------------------
(***************************************************************************)
(* The memory-ordering tests of the queue write index,                     *)
(* src/src/core/queue/test_queue_write_index_{cas,add}_{acq_rel,           *)
(* acquire_release}_ordering.c.  The test creates as many queues as the    *)
(* agent grants.  Two threads count the write indices of all queues up in  *)
(* turn, the odd thread from the last queue to the first, the even one     *)
(* from the first to the last: the write index of a thread's first queue   *)
(* tells it that its turn has come, those of the queues in between are     *)
(* accessed with relaxed operations and asserted.                          *)
(*                                                                         *)
(* The write indices live in the memory of RelAcq.  The start and the join *)
(* of the threads are the harness of TestGroup, as it promises in ForkJoin.*)
(***************************************************************************)
EXTENDS RelAcq, Integers

CONSTANTS
    Variants,           \* the tests to run
    QueueMax,           \* HSA_AGENT_INFO_QUEUES_MAX of the agent
    TerminationValue    \* thread_data.termination_value, 256 in the tests

CasVariants == {"cas_acq_rel", "cas_acquire_release"}
AddVariants == {"add_acq_rel", "add_acquire_release"}

ASSUME VariantAssumption == Variants \subseteq CasVariants \cup AddVariants
ASSUME BoundAssumption == QueueMax \in Nat \ {0} /\ TerminationValue \in Nat \ {0, 1}

Threads == {"even", "odd"}

VARIABLES
    variant,
    num_queues,
    main,      \* where test_queue_write_index_* is
    mem,       \* the write indices and the threads' views of them
    pc, ii, jj,
    outcome    \* "running", "assert_failed", or "bad_index": queues[-1] was used

vars == <<variant, num_queues, main, mem, pc, ii, jj, outcome>>

Queues == 0..num_queues - 1
Adds == variant \in AddVariants
TakeOrder == IF variant \in {"cas_acq_rel", "add_acq_rel"} THEN "acq_rel" ELSE "acquire"
GiveOrder == IF variant \in {"cas_acq_rel", "add_acq_rel"} THEN "acq_rel" ELSE "release"

(* The queue a thread takes its turn on, the one it hands the turn over    *)
(* on, and its way through the queues in between.                          *)
Entry(t) == IF t = "even" THEN 0 ELSE num_queues - 1
Exit(t) == IF t = "even" THEN num_queues - 1 ELSE 0
FirstMiddle(t) == IF t = "even" THEN 1 ELSE num_queues - 2
NextMiddle(t) == IF t = "even" THEN jj[t] + 1 ELSE jj[t] - 1

(* Mutant of InMiddle: the last queue but one is left out. *)
InMiddle_short(q) == q >= 1 /\ q < num_queues - 2

InMiddle(q) == q >= 1 /\ q < num_queues - 1

FirstValue(t) == IF t = "even" THEN 2 ELSE 1

v(t) == ii[t]
old_v(t) == ii[t] - 1

Init ==
    /\ variant \in Variants
    /\ num_queues = 0 /\ main = "create"
    /\ mem = InitMem(Threads, <<>>)
    /\ pc = [t \in Threads |-> "none"]
    /\ ii = [t \in Threads |-> FirstValue(t)] /\ jj = [t \in Threads |-> 0]
    /\ outcome = "running"

-----------------------------------------------------------------------------
(* The main function.  Queue creation may run out of resources at any      *)
(* point; the test goes on with the queues it has, even with none.         *)
create_queue ==
    /\ main = "create" /\ num_queues < QueueMax
    /\ num_queues' = num_queues + 1
    /\ UNCHANGED <<variant, main, mem, pc, ii, jj, outcome>>

start_threads ==
    /\ main = "create"
    /\ main' = "wait"
    /\ mem' = InitMem(Threads, [q \in Queues |-> 0])
    /\ pc' = [t \in Threads |-> IF FirstValue(t) < TerminationValue THEN "take" ELSE "done"]
    /\ outcome' = IF num_queues = 0 THEN "bad_index" ELSE "running"
    /\ UNCHANGED <<variant, num_queues, ii, jj>>

destroy_queues ==
    /\ main = "wait" /\ \A t \in Threads : pc[t] = "done"
    /\ main' = "end"
    /\ UNCHANGED <<variant, num_queues, mem, pc, ii, jj, outcome>>

-----------------------------------------------------------------------------
(* The threads. *)
At(t, l) ==
    /\ outcome = "running" /\ pc[t] = l
    /\ UNCHANGED <<variant, num_queues, main>>

Goto(t, l) == pc' = [pc EXCEPT ![t] = l]

(* An ASSERT on what a call returned. *)
Assert(ok) == outcome' = IF ok THEN outcome ELSE "assert_failed"

(* Where a thread goes with the middle queues ahead, and after them. *)
AfterMiddle == IF Adds THEN "barrier_out" ELSE "give"
EnterQueue(t, q) == Goto(t, IF InMiddle(q) THEN "middle" ELSE AfterMiddle)

(* The loop around the first compare-and-swap: it fails on an old or a     *)
(* stale index ...                                                         *)
EntryOrder == IF Adds THEN "relaxed" ELSE TakeOrder
EntryOutcomes(t) == CasOutcomes(mem, t, Entry(t), old_v(t), v(t), EntryOrder)

spin(t) ==
    /\ At(t, "take")
    /\ \E out \in EntryOutcomes(t) : out.ret # old_v(t) /\ mem' = out.mem
    /\ UNCHANGED <<pc, ii, jj, outcome>>

(* Mutant of take: any older value is accepted. *)
take_early(t) ==
    /\ At(t, "take")
    /\ Latest(mem, Entry(t)) <= old_v(t)
    /\ mem' = Rmw(mem, t, Entry(t), v(t), EntryOrder)
    /\ jj' = [jj EXCEPT ![t] = FirstMiddle(t)]
    /\ IF Adds THEN Goto(t, "barrier_in") ELSE EnterQueue(t, FirstMiddle(t))
    /\ UNCHANGED <<ii, outcome>>

(* ... and ends when it has counted the index up.                          *)
take(t) ==
    /\ At(t, "take")
    /\ \E out \in EntryOutcomes(t) : out.ret = old_v(t) /\ mem' = out.mem
    /\ jj' = [jj EXCEPT ![t] = FirstMiddle(t)]
    /\ IF Adds THEN Goto(t, "barrier_in") ELSE EnterQueue(t, FirstMiddle(t))
    /\ UNCHANGED <<ii, outcome>>

(* The add tests order their accesses with an addition of 0, before and    *)
(* after the middle queues, to the queue they hand the turn over on.       *)
barrier_in(t) ==
    /\ At(t, "barrier_in")
    /\ mem' = Rmw(mem, t, Exit(t), Latest(mem, Exit(t)), TakeOrder)
    /\ EnterQueue(t, jj[t])
    /\ UNCHANGED <<ii, jj, outcome>>

barrier_out(t) ==
    /\ At(t, "barrier_out")
    /\ mem' = Rmw(mem, t, Exit(t), Latest(mem, Exit(t)), GiveOrder)
    /\ Goto(t, "give")
    /\ UNCHANGED <<ii, jj, outcome>>

(* The middle queues: a compare-and-swap that must succeed, or a load that *)
(* must return the old value followed by an addition.                      *)
cas_middle(t) ==
    /\ At(t, "middle") /\ ~Adds
    /\ \E out \in CasOutcomes(mem, t, jj[t], old_v(t), v(t), "relaxed") :
          mem' = out.mem /\ Assert(out.ret = old_v(t))
    /\ jj' = [jj EXCEPT ![t] = NextMiddle(t)]
    /\ EnterQueue(t, NextMiddle(t))
    /\ UNCHANGED ii

load_middle(t) ==
    /\ At(t, "middle") /\ Adds
    /\ \E out \in LoadOutcomes(mem, t, jj[t], "relaxed") :
          mem' = out.mem /\ Assert(out.ret = old_v(t))
    /\ Goto(t, "add")
    /\ UNCHANGED <<ii, jj>>

add_middle(t) ==
    /\ At(t, "add")
    /\ mem' = Rmw(mem, t, jj[t], Latest(mem, jj[t]) + 1, "relaxed")
    /\ jj' = [jj EXCEPT ![t] = NextMiddle(t)]
    /\ EnterQueue(t, NextMiddle(t))
    /\ UNCHANGED <<ii, outcome>>

(* The turn is handed over with a compare-and-swap that must succeed, and  *)
(* the loop over ii goes on with the next value of the same parity.        *)
GiveTo(t, order, step, bound) ==
    /\ At(t, "give")
    /\ \E out \in CasOutcomes(mem, t, Exit(t), old_v(t), v(t), order) :
          mem' = out.mem /\ Assert(out.ret = old_v(t))
    /\ ii' = [ii EXCEPT ![t] = ii[t] + step]
    /\ Goto(t, IF ii[t] + step < bound THEN "take" ELSE "done")
    /\ UNCHANGED jj

ExitOrder == IF Adds THEN "relaxed" ELSE GiveOrder

(* Mutants of give: without a release; with a step that leaves the parity. *)
give_relaxed(t) == GiveTo(t, "relaxed", 2, TerminationValue)
give_odd_step(t) == GiveTo(t, ExitOrder, 3, TerminationValue)

give(t) == GiveTo(t, ExitOrder, 2, TerminationValue)

(* After the run, a failed ASSERT or a use of queues[-1], nothing moves.   *)
Stopped == (main = "end" \/ outcome # "running") /\ UNCHANGED vars

Progress(t) ==
    \/ take(t) \/ barrier_in(t) \/ barrier_out(t) \/ cas_middle(t)
    \/ load_middle(t) \/ add_middle(t) \/ give(t)

Next ==
    \/ create_queue \/ start_threads \/ destroy_queues
    \/ \E t \in Threads : spin(t) \/ Progress(t)
    \/ Stopped

(* The threads keep running and a write becomes visible: a spin that could *)
(* succeed does in the end.  The main function does not stop on its way.   *)
Fairness ==
    /\ WF_vars(create_queue \/ start_threads) /\ WF_vars(destroy_queues)
    /\ \A t \in Threads : WF_vars(Progress(t))

Spec == Init /\ [][Next]_vars /\ Fairness

-----------------------------------------------------------------------------
TypeOK ==
    /\ variant \in Variants /\ num_queues \in 0..QueueMax
    /\ main \in {"create", "wait", "end"}
    /\ \A q \in DOMAIN mem.hist : \A k \in DOMAIN mem.hist[q] :
          /\ mem.hist[q][k].val \in 0..TerminationValue - 1
          /\ \A r \in DOMAIN mem.hist : mem.hist[q][k].rel[r] \in 1..Newest(mem, r)
    /\ \A t \in Threads : \A q \in DOMAIN mem.hist : mem.view[t][q] \in 1..Newest(mem, q)
    /\ pc \in [Threads -> {"none", "take", "barrier_in", "middle", "add",
                           "barrier_out", "give", "done"}]
    /\ ii \in [Threads -> 1..TerminationValue + 1]
    /\ jj \in [Threads -> -1..QueueMax]
    /\ outcome \in {"running", "assert_failed", "bad_index"}

(* The tests' descriptions: the queues operated on with the relaxed        *)
(* versions of the API should all have the expected value.  On a runtime   *)
(* that implements the orders an ASSERT fails only if there is exactly one *)
(* queue, which the code accepts (line 175): the queue is then the first   *)
(* and the last one at once, and the asserted compare-and-swap fails.      *)
OracleSound == outcome = "assert_failed" => num_queues = 1

(* The compare-and-swap tests keep that promise: what a thread releases on *)
(* the queue it leaves is what the other one acquires there (the exit of   *)
(* one thread is the entry of the other), with two or more queues, and     *)
(* without any the threads do not get as far as an ASSERT.                 *)
CasOracleSound == variant \in CasVariants => OracleSound

(* The turns do not overlap: while a thread is between its first and its   *)
(* last queue the other one is not, whatever the orders of the operations  *)
(* and however stale the indices it spins on, unless there is only one     *)
(* queue, where both threads can be busy at once.                          *)
Busy(t) == pc[t] \in {"barrier_in", "middle", "add", "barrier_out", "give"}
TurnsExclusive == Busy("even") /\ Busy("odd") => num_queues = 1

(* A test that runs to its end has counted every queue it was granted up   *)
(* to termination_value - 1.  (With one queue none runs to its end: the    *)
(* asserted compare-and-swap fails first.)                                 *)
FinalValues ==
    main = "end" => \A q \in Queues : Latest(mem, q) = TerminationValue - 1

(* The two threads' loops end together: neither waits for a turn the other *)
(* has already had, or will not have any more.                             *)
Terminates == <>(main = "end" \/ outcome # "running")
=============================================================================
