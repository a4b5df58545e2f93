--------------------------- MODULE SignalOrdering ---------------------------
(***************************************************************************)
(* The memory-ordering tests of src/core/signals.  Each of them is an      *)
(* oracle: two threads pass a token through the control signal y (through  *)
(* y, a third thread and z in the transitive tests), and the holder of the *)
(* token asserts that the x signals, accessed only with relaxed            *)
(* operations, have the value the previous holder left.  A runtime that    *)
(* implements the orders the test uses must never fail the assertion, or   *)
(* the test rejects a conforming runtime.                                  *)
(*                                                                         *)
(* SignalTests holds the program of each test; this module runs them on    *)
(* the memory of RelAcq.                                                   *)
(***************************************************************************)
EXTENDS SignalTests, RelAcq

CONSTANTS Names,      \* the tests this instance runs
          NumX,       \* NUM_X, NUM_SIGNAL: the number of x signals
          NumIter,    \* NUM_ITER_MEM_ORD, NUM_ITERATION: rounds of the bounded loop
          EarlyWakes  \* TRUE: hsa_signal_wait_* may return with its condition unmet

ASSUME SignalOrderingAssumption ==
    /\ NumX \in Nat \ {0}
    /\ NumIter \in Nat \ {0}
    /\ EarlyWakes \in BOOLEAN
    /\ Names \subseteq DOMAIN Suite

VARIABLES test,   \* the name of the test being run
          mem,    \* the signals' values and the threads' views of them
          pc,     \* the next call of each thread
          ii,     \* the x signal each thread has come to
          round,  \* loop rounds each thread has completed
          failed  \* an ASSERT of the test has failed

vars == <<test, mem, pc, ii, round, failed>>

-----------------------------------------------------------------------------
(* The locations: x[0] .. x[NUM_X - 1], y and z. *)
Y == NumX + 1
Z == NumX + 2
Locations == 1..(NumX + 2)

Threads == DOMAIN Suite[test].threads
Prog(t) == Suite[test].threads[t]
Finished(t) == pc[t] > End(Prog(t))
AllFinished == \A t \in Threads : Finished(t)
Current(t) == CallAt(Prog(t), pc[t])

(* The location a thread's call acts on. *)
Loc(t) == CASE Current(t).sig = "x" -> ii[t]
            [] Current(t).sig = "y" -> Y
            [] Current(t).sig = "z" -> Z

InitialValue(s, l) == CASE l = Y -> s.y [] l = Z -> s.z [] OTHER -> s.x

Init ==
    /\ test \in Names
    /\ mem = InitMem(Threads, [l \in Locations |-> InitialValue(Suite[test], l)])
    /\ pc = [t \in Threads |-> 1]
    /\ ii = [t \in Threads |-> 1]
    /\ round = [t \in Threads |-> 0]
    /\ failed = FALSE

(* The control flow around a call: the loop over the x signals inside the  *)
(* loop over the rounds.                                                   *)
Goto(t, p) == pc' = [pc EXCEPT ![t] = p]

(* Mutant: the loop over the x signals leaves out the last one. *)
MoreX_skips_the_last(t) == LastOfEach(Prog(t), pc[t]) /\ ii[t] < NumX - 1

MoreX(t) == LastOfEach(Prog(t), pc[t]) /\ ii[t] < NumX

NextX(t) ==
    /\ MoreX(t)
    /\ Goto(t, TakeEnd(Prog(t)) + 1)
    /\ ii' = [ii EXCEPT ![t] = @ + 1]
    /\ UNCHANGED round

NextRound(t) ==
    /\ ~MoreX(t) /\ pc[t] = LoopEnd(Prog(t))
    /\ Goto(t, IF Prog(t).forever \/ round[t] + 1 < NumIter THEN 1 ELSE pc[t] + 1)
    /\ ii' = [ii EXCEPT ![t] = 1]
    /\ round' = [round EXCEPT ![t] = @ + 1]

NextInRound(t) ==
    /\ ~MoreX(t) /\ pc[t] # LoopEnd(Prog(t))
    /\ Goto(t, pc[t] + 1)
    /\ ii' = [ii EXCEPT ![t] = IF LastOfEach(Prog(t), pc[t]) THEN 1 ELSE @]
    /\ UNCHANGED round

NextCall(t) == NextX(t) \/ NextRound(t) \/ NextInRound(t)

(* What the test does with the value a call returned. *)
Return(t, ret) ==
    LET call == Current(t)
    IN  \/ /\ call.then = "next" \/ ret = call.want
           /\ NextCall(t)
           /\ UNCHANGED failed
        \/ /\ call.then = "assert" /\ ret # call.want
           /\ failed' = TRUE
           /\ UNCHANGED <<pc, ii, round>>
        \/ /\ call.then = "spin" /\ ret # call.want
           /\ IF ret \in call.quit THEN Goto(t, End(Prog(t)) + 1) ELSE UNCHANGED pc
           /\ UNCHANGED <<ii, round, failed>>

Calls(t, ops) ==
    /\ ~failed
    /\ ~Finished(t)
    /\ Current(t).op \in ops
    /\ UNCHANGED test

-----------------------------------------------------------------------------
(* One action per kind of runtime call. *)

LoadCall(t) ==
    /\ Calls(t, {"load"})
    /\ \E out \in LoadOutcomes(mem, t, Loc(t), Current(t).ord) :
          mem' = out.mem /\ Return(t, out.ret)

StoreCall(t) ==
    /\ Calls(t, {"store"})
    /\ mem' = Store(mem, t, Loc(t), Current(t).val, Current(t).ord)
    /\ Return(t, 0)

CasCall(t) ==
    /\ Calls(t, {"cas"})
    /\ \E out \in CasOutcomes(mem, t, Loc(t), Current(t).old,
                               Current(t).val, Current(t).ord) :
          mem' = out.mem /\ Return(t, out.ret)

(* The bitwise operations, on the three bits of the bit tests. *)
BitsOf(n) == {b \in {1, 2, 4} : (n \div b) % 2 = 1}
OfBits(B) ==
    (IF 4 \in B THEN 4 ELSE 0) + (IF 2 \in B THEN 2 ELSE 0) + (IF 1 \in B THEN 1 ELSE 0)

Combine(op, a, b) ==
    CASE op = "exchange" -> b
      [] op = "add" -> a + b
      [] op = "subtract" -> a - b
      [] op = "and" -> OfBits(BitsOf(a) \cap BitsOf(b))
      [] op = "or" -> OfBits(BitsOf(a) \cup BitsOf(b))
      [] op = "xor" -> OfBits((BitsOf(a) \cup BitsOf(b)) \ (BitsOf(a) \cap BitsOf(b)))

RmwCall(t) ==
    /\ Calls(t, {"exchange", "add", "subtract", "and", "or", "xor"})
    /\ LET c == Current(t)
           old == Latest(mem, Loc(t))
       IN  /\ mem' = Rmw(mem, t, Loc(t), Combine(c.op, old, c.val), c.ord)
           /\ Return(t, old)

(* hsa_signal_wait_acquire(s, EQ, v, UINT64_MAX, BLOCKED) returns once it   *)
(* has observed v; the tests do not look at the value it returns.  A       *)
(* runtime may also end a wait early.                                      *)
WaitCall(t) ==
    /\ Calls(t, {"wait"})
    /\ \E out \in LoadOutcomes(mem, t, Loc(t), Current(t).ord) :
          /\ EarlyWakes \/ out.ret = Current(t).val
          /\ mem' = out.mem
          /\ Return(t, out.ret)

Step(t) == LoadCall(t) \/ StoreCall(t) \/ CasCall(t) \/ RmwCall(t) \/ WaitCall(t)

(* The main function joins the threads, destroys the signals and returns. *)
Terminated == AllFinished /\ UNCHANGED vars

Next == (\E t \in Threads : Step(t)) \/ Terminated

(* Threads keep running, and a value written becomes visible: a spin that  *)
(* reads a stale value without learning anything changes no variable.      *)
Fairness == \A n \in 1..3 : WF_vars(n \in Threads /\ Step(n))

Spec == Init /\ [][Next]_vars /\ Fairness

-----------------------------------------------------------------------------
Values == -3..7

(* The variables have their types. *)
TypeOK ==
    /\ test \in Names
    /\ \A l \in Locations : \A k \in DOMAIN mem.hist[l] :
          /\ mem.hist[l][k].val \in Values
          /\ \A m \in Locations : mem.hist[l][k].rel[m] \in 1..Newest(mem, m)
    /\ \A t \in Threads :
          /\ pc[t] \in 1..(End(Prog(t)) + 1)
          /\ ii[t] \in 1..NumX
          /\ round[t] \in 0..(IF Prog(t).forever THEN NumIter + 1 ELSE NumIter)
          /\ \A m \in Locations : mem.view[t][m] \in 1..Newest(mem, m)
    /\ failed \in BOOLEAN

(* The oracle is sound: on a runtime whose operations have exactly the     *)
(* ordering their names promise, no ASSERT of the test fails, whatever     *)
(* stale values the relaxed accesses to x are allowed to return.           *)
OracleSound == ~failed

(* The token is exclusive: the thread that checks and rewrites the x       *)
(* signals is alone in doing so.                                           *)
Holds(t) == pc[t] \in TakeEnd(Prog(t)) + 1 .. LoopEnd(Prog(t))
TokenExclusive == ~(Holds(1) /\ Holds(2))

(* The holder of the token has synchronised with every earlier holder: it  *)
(* has seen the newest write to every x.  This is the ordering the tests   *)
(* are about; it also covers the tests whose relaxed accesses to x are     *)
(* read-modify-writes, which never return a stale value.                   *)
HolderSynchronised ==
    \A t \in {1, 2} : Holds(t) =>
        \A x \in 1..NumX : mem.view[t][x] = Newest(mem, x)

(* Every test comes to an end: no thread waits for a value of y or z that  *)
(* is never (or no longer) there, and the quit value reaches both.         *)
Terminates == <>AllFinished
=============================================================================
