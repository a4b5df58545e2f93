---------------------------- MODULE SignalTests ----------------------------
(***************************************************************************)
(* The programs of the memory-ordering tests of src/core/signals, one      *)
(* definition per test.  A test is data: the values its main function      *)
(* creates the signals with and one program per thread.  A program is the  *)
(* body of the thread's loop (take, then each for every x, then give) and  *)
(* what follows the loop.  SignalOrdering runs them.                       *)
(***************************************************************************)
EXTENDS Integers, Sequences

(* Values.  The bit tests use three bits: the first, the last, and one for *)
(* all the others; -1 and -2 are then 7 and 6.                             *)
FIRST_BIT == 4
LAST_BIT == 1
ALL_BIT == 7
MINUS_TWO == 6

(* One call of the runtime.  then is what the test does with the result:   *)
(* nothing, loop until it is want (leaving the thread on a value in quit), *)
(* or assert that it is want.                                              *)
Call(op, ord, sig, val, old) ==
    [op |-> op, ord |-> ord, sig |-> sig, val |-> val, old |-> old,
     then |-> "next", want |-> 0, quit |-> {}]
hsa_signal_load(ord, sig) == Call("load", ord, sig, 0, 0)
hsa_signal_store(ord, sig, val) == Call("store", ord, sig, val, 0)
hsa_signal_cas(ord, sig, old, val) == Call("cas", ord, sig, val, old)
hsa_signal_exchange(ord, sig, val) == Call("exchange", ord, sig, val, 0)
hsa_signal_add(ord, sig, val) == Call("add", ord, sig, val, 0)
hsa_signal_subtract(ord, sig, val) == Call("subtract", ord, sig, val, 0)
hsa_signal_and(ord, sig, val) == Call("and", ord, sig, val, 0)
hsa_signal_or(ord, sig, val) == Call("or", ord, sig, val, 0)
hsa_signal_xor(ord, sig, val) == Call("xor", ord, sig, val, 0)
hsa_signal_wait(sig, val) == Call("wait", "acquire", sig, val, 0)

Until(call, v) == [call EXCEPT !.then = "spin", !.want = v]
UntilOr(call, v, q) == [Until(call, v) EXCEPT !.quit = {q}]
Asserted(call, v) == [call EXCEPT !.then = "assert", !.want = v]

(* A thread that makes NumIter rounds, one that loops until it is told to  *)
(* quit, and the programs of a test.                                       *)
Rounds(take, each, give) ==
    [take |-> take, each |-> each, give |-> give, last |-> <<>>, forever |-> FALSE]
Forever(take, each, give) == [Rounds(take, each, give) EXCEPT !.forever = TRUE]
Relay(body, last) == [Rounds(body, <<>>, <<>>) EXCEPT !.last = last]
Test(x0, y0, z0, threads) == [x |-> x0, y |-> y0, z |-> z0, threads |-> threads]

(* Where the parts of a program end, and its calls one after the other. *)
TakeEnd(p) == Len(p.take)
EachEnd(p) == TakeEnd(p) + Len(p.each)
LoopEnd(p) == EachEnd(p) + Len(p.give)
End(p) == LoopEnd(p) + Len(p.last)
LastOfEach(p, n) == n > TakeEnd(p) /\ n = EachEnd(p)
CallAt(p, n) == (p.take \o p.each \o p.give \o p.last)[n]

-----------------------------------------------------------------------------
(* The tests with two threads. *)

signal_store_release_load_acquire_ordering == Test(1, 1, 0,
    <<Rounds(<<Until(hsa_signal_load("acquire", "y"), 0)>>,
           <<Asserted(hsa_signal_load("relaxed", "x"), 0),
             hsa_signal_store("relaxed", "x", 1)>>,
           <<hsa_signal_store("release", "y", 1)>>),
      Rounds(<<Until(hsa_signal_load("acquire", "y"), 1)>>,
           <<Asserted(hsa_signal_load("relaxed", "x"), 1),
             hsa_signal_store("relaxed", "x", 0)>>,
           <<hsa_signal_store("release", "y", 0)>>)>>)

(* Mutant: y is handed over before the x signals are checked and written. *)
signal_add_acq_rel_ordering_early_give == Test(2, 1, 0,
    <<Rounds(<<Until(hsa_signal_cas("acq_rel", "y", 1, 0), 1),
               hsa_signal_add("acq_rel", "y", 2)>>,
             <<Asserted(hsa_signal_load("relaxed", "x"), 2),
               hsa_signal_add("relaxed", "x", -1)>>, <<>>),
      Rounds(<<Until(hsa_signal_cas("acq_rel", "y", 2, 0), 2)>>,
             <<Asserted(hsa_signal_load("relaxed", "x"), 1),
               hsa_signal_add("relaxed", "x", 1)>>,
             <<hsa_signal_add("acq_rel", "y", 1)>>)>>)

signal_add_acq_rel_ordering == Test(2, 1, 0,
    <<Rounds(<<Until(hsa_signal_cas("acq_rel", "y", 1, 0), 1)>>,
           <<Asserted(hsa_signal_load("relaxed", "x"), 2),
             hsa_signal_add("relaxed", "x", -1)>>,
           <<hsa_signal_add("acq_rel", "y", 2)>>),
      Rounds(<<Until(hsa_signal_cas("acq_rel", "y", 2, 0), 2)>>,
           <<Asserted(hsa_signal_load("relaxed", "x"), 1),
             hsa_signal_add("relaxed", "x", 1)>>,
           <<hsa_signal_add("acq_rel", "y", 1)>>)>>)

signal_add_acquire_release_ordering == Test(2, 1, 0,
    <<Rounds(<<Until(hsa_signal_cas("acq_rel", "y", 1, -1), 1),
             hsa_signal_add("acquire", "y", 1)>>,
           <<Asserted(hsa_signal_load("relaxed", "x"), 2),
             hsa_signal_add("relaxed", "x", -1)>>,
           <<hsa_signal_add("release", "y", 2)>>),
      Rounds(<<Until(hsa_signal_cas("acq_rel", "y", 2, -1), 2),
             hsa_signal_add("acquire", "y", 1)>>,
           <<Asserted(hsa_signal_load("relaxed", "x"), 1),
             hsa_signal_add("relaxed", "x", 1)>>,
           <<hsa_signal_add("release", "y", 1)>>)>>)

signal_and_acq_rel_ordering == Test(LAST_BIT, LAST_BIT, 0,
    <<Rounds(<<Until(hsa_signal_cas("acq_rel", "y", LAST_BIT, 0), LAST_BIT)>>,
           <<Asserted(hsa_signal_load("relaxed", "x"), LAST_BIT),
             hsa_signal_store("relaxed", "x", ALL_BIT),
             hsa_signal_and("relaxed", "x", FIRST_BIT)>>,
           <<hsa_signal_store("relaxed", "y", ALL_BIT),
             hsa_signal_and("acquire", "y", FIRST_BIT)>>),
      Rounds(<<Until(hsa_signal_cas("acq_rel", "y", FIRST_BIT, 0), FIRST_BIT)>>,
           <<Asserted(hsa_signal_load("relaxed", "x"), FIRST_BIT),
             hsa_signal_store("relaxed", "x", ALL_BIT),
             hsa_signal_and("relaxed", "x", LAST_BIT)>>,
           <<hsa_signal_store("relaxed", "y", ALL_BIT),
             hsa_signal_and("acq_rel", "y", LAST_BIT)>>)>>)

signal_and_acquire_release_ordering == Test(LAST_BIT, LAST_BIT, 0,
    <<Rounds(<<Until(hsa_signal_cas("relaxed", "y", LAST_BIT, 0), LAST_BIT),
             hsa_signal_and("acquire", "y", 0)>>,
           <<Asserted(hsa_signal_load("relaxed", "x"), LAST_BIT),
             hsa_signal_store("relaxed", "x", ALL_BIT),
             hsa_signal_and("relaxed", "x", FIRST_BIT)>>,
           <<hsa_signal_store("relaxed", "y", ALL_BIT),
             hsa_signal_and("release", "y", FIRST_BIT)>>),
      Rounds(<<Until(hsa_signal_cas("relaxed", "y", FIRST_BIT, 0), FIRST_BIT),
             hsa_signal_and("acquire", "y", 0)>>,
           <<Asserted(hsa_signal_load("relaxed", "x"), FIRST_BIT),
             hsa_signal_store("relaxed", "x", ALL_BIT),
             hsa_signal_and("relaxed", "x", LAST_BIT)>>,
           <<hsa_signal_store("relaxed", "y", ALL_BIT),
             hsa_signal_and("release", "y", LAST_BIT)>>)>>)

signal_cas_acq_rel_ordering == Test(2, 1, 0,
    <<Rounds(<<Until(hsa_signal_cas("acq_rel", "y", 1, 0), 1)>>,
           <<Asserted(hsa_signal_cas("relaxed", "x", 2, 1), 2)>>,
           <<hsa_signal_cas("acq_rel", "y", 0, 2)>>),
      Rounds(<<Until(hsa_signal_cas("acq_rel", "y", 2, 0), 2)>>,
           <<Asserted(hsa_signal_cas("relaxed", "x", 1, 2), 1)>>,
           <<hsa_signal_cas("acq_rel", "y", 0, 1)>>)>>)

(* Mutant: the first thread hands y over with the relaxed operation. *)
signal_cas_acquire_release_ordering_relaxed_give == Test(2, 1, 0,
    <<Rounds(<<Until(hsa_signal_cas("acquire", "y", 1, 0), 1)>>,
             <<Asserted(hsa_signal_cas("relaxed", "x", 2, 1), 2)>>,
             <<hsa_signal_cas("relaxed", "y", 0, 2)>>),
      Rounds(<<Until(hsa_signal_cas("acquire", "y", 2, 0), 2)>>,
             <<Asserted(hsa_signal_cas("relaxed", "x", 1, 2), 1)>>,
             <<hsa_signal_cas("release", "y", 0, 1)>>)>>)

signal_cas_acquire_release_ordering == Test(2, 1, 0,
    <<Rounds(<<Until(hsa_signal_cas("acquire", "y", 1, 0), 1)>>,
           <<Asserted(hsa_signal_cas("relaxed", "x", 2, 1), 2)>>,
           <<hsa_signal_cas("release", "y", 0, 2)>>),
      Rounds(<<Until(hsa_signal_cas("acquire", "y", 2, 0), 2)>>,
           <<Asserted(hsa_signal_cas("relaxed", "x", 1, 2), 1)>>,
           <<hsa_signal_cas("release", "y", 0, 1)>>)>>)

signal_exchange_acq_rel_ordering == Test(2, 1, 0,
    <<Rounds(<<Until(hsa_signal_load("relaxed", "y"), 1),
             hsa_signal_exchange("acq_rel", "y", 0)>>,
           <<Asserted(hsa_signal_exchange("relaxed", "x", 1), 2)>>,
           <<hsa_signal_exchange("acq_rel", "y", 2)>>),
      Rounds(<<Until(hsa_signal_load("relaxed", "y"), 2),
             hsa_signal_exchange("acq_rel", "y", 0)>>,
           <<Asserted(hsa_signal_exchange("relaxed", "x", 2), 1)>>,
           <<hsa_signal_exchange("acq_rel", "y", 1)>>)>>)

(* Mutant: the second thread takes y with the relaxed operation. *)
signal_exchange_acquire_release_ordering_relaxed_take == Test(2, 1, 0,
    <<Rounds(<<Until(hsa_signal_load("relaxed", "y"), 1),
               hsa_signal_exchange("acquire", "y", 0)>>,
             <<Asserted(hsa_signal_exchange("relaxed", "x", 1), 2)>>,
             <<hsa_signal_exchange("release", "y", 2)>>),
      Rounds(<<Until(hsa_signal_load("relaxed", "y"), 2),
               hsa_signal_exchange("relaxed", "y", 0)>>,
             <<Asserted(hsa_signal_exchange("relaxed", "x", 2), 1)>>,
             <<hsa_signal_exchange("release", "y", 1)>>)>>)

signal_exchange_acquire_release_ordering == Test(2, 1, 0,
    <<Rounds(<<Until(hsa_signal_load("relaxed", "y"), 1),
             hsa_signal_exchange("acquire", "y", 0)>>,
           <<Asserted(hsa_signal_exchange("relaxed", "x", 1), 2)>>,
           <<hsa_signal_exchange("release", "y", 2)>>),
      Rounds(<<Until(hsa_signal_load("relaxed", "y"), 2),
             hsa_signal_exchange("acquire", "y", 0)>>,
           <<Asserted(hsa_signal_exchange("relaxed", "x", 2), 1)>>,
           <<hsa_signal_exchange("release", "y", 1)>>)>>)

signal_or_acq_rel_ordering == Test(LAST_BIT, LAST_BIT, 0,
    <<Rounds(<<Until(hsa_signal_cas("acq_rel", "y", LAST_BIT, 0), LAST_BIT)>>,
           <<Asserted(hsa_signal_load("relaxed", "x"), LAST_BIT),
             hsa_signal_store("relaxed", "x", 0),
             hsa_signal_or("relaxed", "x", FIRST_BIT)>>,
           <<hsa_signal_store("relaxed", "y", 0),
             hsa_signal_or("acq_rel", "y", FIRST_BIT)>>),
      Rounds(<<Until(hsa_signal_cas("acq_rel", "y", FIRST_BIT, 0), FIRST_BIT)>>,
           <<Asserted(hsa_signal_load("relaxed", "x"), FIRST_BIT),
             hsa_signal_store("relaxed", "x", 0),
             hsa_signal_or("relaxed", "x", LAST_BIT)>>,
           <<hsa_signal_store("relaxed", "y", 0),
             hsa_signal_or("acq_rel", "y", LAST_BIT)>>)>>)

signal_or_acquire_release_ordering == Test(LAST_BIT, LAST_BIT, 0,
    <<Rounds(<<Until(hsa_signal_cas("relaxed", "y", LAST_BIT, 0), LAST_BIT),
             hsa_signal_or("acquire", "y", 0)>>,
           <<Asserted(hsa_signal_load("relaxed", "x"), LAST_BIT),
             hsa_signal_store("relaxed", "x", 0),
             hsa_signal_or("relaxed", "x", FIRST_BIT)>>,
           <<hsa_signal_store("relaxed", "y", 0),
             hsa_signal_or("release", "y", FIRST_BIT)>>),
      Rounds(<<Until(hsa_signal_cas("relaxed", "y", FIRST_BIT, 0), FIRST_BIT),
             hsa_signal_or("acquire", "y", 0)>>,
           <<Asserted(hsa_signal_load("relaxed", "x"), FIRST_BIT),
             hsa_signal_store("relaxed", "x", 0),
             hsa_signal_or("relaxed", "x", LAST_BIT)>>,
           <<hsa_signal_store("relaxed", "y", 0),
             hsa_signal_or("release", "y", LAST_BIT)>>)>>)

(* Mutant: y starts at 1 and the first thread waits for 1, while the second *)
(* leaves -1 behind.                                                        *)
signal_subtract_acq_rel_ordering_wrong_sign == Test(2, 1, 0,
    <<Rounds(<<Until(hsa_signal_cas("acq_rel", "y", 1, 0), 1)>>,
             <<Asserted(hsa_signal_load("relaxed", "x"), 2),
               hsa_signal_subtract("relaxed", "x", 1)>>,
             <<hsa_signal_subtract("acq_rel", "y", 2)>>),
      Rounds(<<Until(hsa_signal_cas("acq_rel", "y", -2, 0), -2)>>,
             <<Asserted(hsa_signal_load("relaxed", "x"), 1),
               hsa_signal_subtract("relaxed", "x", -1)>>,
             <<hsa_signal_subtract("acq_rel", "y", 1)>>)>>)

signal_subtract_acq_rel_ordering == Test(2, -1, 0,
    <<Rounds(<<Until(hsa_signal_cas("acq_rel", "y", -1, 0), -1)>>,
           <<Asserted(hsa_signal_load("relaxed", "x"), 2),
             hsa_signal_subtract("relaxed", "x", 1)>>,
           <<hsa_signal_subtract("acq_rel", "y", 2)>>),
      Rounds(<<Until(hsa_signal_cas("acq_rel", "y", -2, 0), -2)>>,
           <<Asserted(hsa_signal_load("relaxed", "x"), 1),
             hsa_signal_subtract("relaxed", "x", -1)>>,
           <<hsa_signal_subtract("acq_rel", "y", 1)>>)>>)

signal_xor_acq_rel_ordering == Test(LAST_BIT, LAST_BIT, 0,
    <<Rounds(<<Until(hsa_signal_cas("acq_rel", "y", LAST_BIT, 0), LAST_BIT)>>,
           <<Asserted(hsa_signal_load("relaxed", "x"), LAST_BIT),
             hsa_signal_store("relaxed", "x", 0),
             hsa_signal_or("relaxed", "x", FIRST_BIT)>>,
           <<hsa_signal_xor("acq_rel", "y", FIRST_BIT)>>),
      Rounds(<<Until(hsa_signal_cas("acq_rel", "y", FIRST_BIT, 0), FIRST_BIT)>>,
           <<Asserted(hsa_signal_load("relaxed", "x"), FIRST_BIT),
             hsa_signal_store("relaxed", "x", 0),
             hsa_signal_or("relaxed", "x", LAST_BIT)>>,
           <<hsa_signal_xor("acq_rel", "y", LAST_BIT)>>)>>)

signal_xor_acquire_release_ordering == Test(LAST_BIT, LAST_BIT, 0,
    <<Rounds(<<Until(hsa_signal_cas("release", "y", LAST_BIT, 0), LAST_BIT),
             hsa_signal_xor("acquire", "y", 0)>>,
           <<Asserted(hsa_signal_load("relaxed", "x"), LAST_BIT),
             hsa_signal_store("relaxed", "x", 0),
             hsa_signal_or("relaxed", "x", FIRST_BIT)>>,
           <<hsa_signal_xor("release", "y", FIRST_BIT)>>),
      Rounds(<<Until(hsa_signal_cas("release", "y", FIRST_BIT, 0), FIRST_BIT),
             hsa_signal_xor("acquire", "y", 0)>>,
           <<Asserted(hsa_signal_load("relaxed", "x"), FIRST_BIT),
             hsa_signal_store("relaxed", "x", 0),
             hsa_signal_xor("relaxed", "x", LAST_BIT)>>,
           <<hsa_signal_xor("release", "y", LAST_BIT)>>)>>)

-----------------------------------------------------------------------------
(* The transitive tests: the token goes from the first thread through y to *)
(* the third, and through z to the second, and back.                       *)

(* The third thread of the transitive tests ends by telling the other two *)
(* to quit, once y shows that the first thread is idle. *)
Quit(idle, q) ==
    <<Until(hsa_signal_load("relaxed", "y"), idle),
      hsa_signal_store("release", "y", q),
      hsa_signal_store("release", "z", q)>>

signal_store_release_load_acquire_ordering_transitive == Test(0, 0, 0,
    <<Forever(<<UntilOr(hsa_signal_load("acquire", "y"), 0, -1)>>,
            <<Asserted(hsa_signal_load("relaxed", "x"), 0),
              hsa_signal_store("relaxed", "x", 1)>>,
            <<hsa_signal_store("release", "y", 1)>>),
      Forever(<<UntilOr(hsa_signal_load("acquire", "z"), 1, -1)>>,
            <<Asserted(hsa_signal_load("relaxed", "x"), 1),
              hsa_signal_store("relaxed", "x", 0)>>,
            <<hsa_signal_store("release", "z", 0)>>),
      Relay(<<Until(hsa_signal_load("acquire", "y"), 1),
              hsa_signal_store("release", "z", 1),
              Until(hsa_signal_load("acquire", "z"), 0),
              hsa_signal_store("release", "y", 0)>>,
            Quit(1, -1))>>)

signal_add_acq_rel_ordering_transitive == Test(2, 1, 1,
    <<Forever(<<UntilOr(hsa_signal_load("relaxed", "y"), 1, -1),
              hsa_signal_add("acq_rel", "y", -1)>>,
            <<Asserted(hsa_signal_load("relaxed", "x"), 2),
              hsa_signal_add("relaxed", "x", -1)>>,
            <<hsa_signal_add("acq_rel", "y", 2)>>),
      Forever(<<UntilOr(hsa_signal_load("relaxed", "z"), 2, -1),
              hsa_signal_add("acq_rel", "z", -2)>>,
            <<Asserted(hsa_signal_load("relaxed", "x"), 1),
              hsa_signal_add("relaxed", "x", 1)>>,
            <<hsa_signal_add("acq_rel", "z", 1)>>),
      Relay(<<hsa_signal_wait("y", 2),
              hsa_signal_cas("release", "z", 1, 2),
              hsa_signal_wait("z", 1),
              hsa_signal_cas("release", "y", 2, 1)>>,
            Quit(2, -1))>>)

signal_add_acquire_release_ordering_transitive == Test(2, 1, 1,
    <<Forever(<<UntilOr(hsa_signal_load("relaxed", "y"), 1, -1),
              hsa_signal_add("acquire", "y", -1)>>,
            <<Asserted(hsa_signal_load("relaxed", "x"), 2),
              hsa_signal_add("relaxed", "x", -1)>>,
            <<hsa_signal_add("release", "y", 2)>>),
      Forever(<<UntilOr(hsa_signal_load("relaxed", "z"), 2, -1),
              hsa_signal_add("acquire", "z", -2)>>,
            <<Asserted(hsa_signal_load("relaxed", "x"), 1),
              hsa_signal_add("relaxed", "x", 1)>>,
            <<hsa_signal_add("release", "z", 1)>>),
      Relay(<<hsa_signal_wait("y", 2),
              hsa_signal_cas("release", "z", 1, 2),
              hsa_signal_wait("z", 1),
              hsa_signal_cas("release", "y", 2, 1)>>,
            Quit(2, -1))>>)

signal_and_acq_rel_ordering_transitive == Test(LAST_BIT, LAST_BIT, 0,
    <<Forever(<<UntilOr(hsa_signal_load("relaxed", "y"), LAST_BIT, MINUS_TWO),
              hsa_signal_and("acq_rel", "y", 0)>>,
            <<Asserted(hsa_signal_load("relaxed", "x"), LAST_BIT),
              hsa_signal_store("relaxed", "x", ALL_BIT),
              hsa_signal_and("relaxed", "x", FIRST_BIT)>>,
            <<hsa_signal_store("relaxed", "y", ALL_BIT),
              hsa_signal_and("acq_rel", "y", FIRST_BIT)>>),
      Forever(<<UntilOr(hsa_signal_load("relaxed", "z"), FIRST_BIT, MINUS_TWO),
              hsa_signal_and("acq_rel", "z", 0)>>,
            <<Asserted(hsa_signal_load("relaxed", "x"), FIRST_BIT),
              hsa_signal_store("relaxed", "x", ALL_BIT),
              hsa_signal_and("relaxed", "x", LAST_BIT)>>,
            <<hsa_signal_store("relaxed", "z", ALL_BIT),
              hsa_signal_and("acq_rel", "z", LAST_BIT)>>),
      Relay(<<hsa_signal_wait("y", FIRST_BIT),
              hsa_signal_store("relaxed", "z", ALL_BIT),
              hsa_signal_and("release", "z", FIRST_BIT),
              hsa_signal_wait("z", LAST_BIT),
              hsa_signal_store("relaxed", "y", ALL_BIT),
              hsa_signal_and("release", "y", LAST_BIT)>>,
            Quit(FIRST_BIT, MINUS_TWO))>>)

signal_and_acquire_release_ordering_transitive == Test(LAST_BIT, LAST_BIT, 0,
    <<Forever(<<UntilOr(hsa_signal_load("relaxed", "y"), LAST_BIT, MINUS_TWO),
              hsa_signal_and("acquire", "y", 0)>>,
            <<Asserted(hsa_signal_load("relaxed", "x"), LAST_BIT),
              hsa_signal_store("relaxed", "x", ALL_BIT),
              hsa_signal_and("relaxed", "x", FIRST_BIT)>>,
            <<hsa_signal_store("relaxed", "y", ALL_BIT),
              hsa_signal_and("release", "y", FIRST_BIT)>>),
      Forever(<<UntilOr(hsa_signal_load("relaxed", "z"), FIRST_BIT, MINUS_TWO),
              hsa_signal_and("acquire", "z", 0)>>,
            <<Asserted(hsa_signal_load("relaxed", "x"), FIRST_BIT),
              hsa_signal_store("relaxed", "x", ALL_BIT),
              hsa_signal_and("relaxed", "x", LAST_BIT)>>,
            <<hsa_signal_store("relaxed", "z", ALL_BIT),
              hsa_signal_and("release", "z", LAST_BIT)>>),
      Relay(<<hsa_signal_wait("y", FIRST_BIT),
              hsa_signal_store("relaxed", "z", ALL_BIT),
              hsa_signal_and("release", "z", FIRST_BIT),
              hsa_signal_wait("z", LAST_BIT),
              hsa_signal_store("relaxed", "y", ALL_BIT),
              hsa_signal_and("release", "y", LAST_BIT)>>,
            Quit(FIRST_BIT, MINUS_TWO))>>)

signal_cas_acq_rel_ordering_transitive == Test(2, 1, 1,
    <<Forever(<<UntilOr(hsa_signal_cas("acq_rel", "y", 1, 0), 1, -1)>>,
            <<Asserted(hsa_signal_load("relaxed", "x"), 2),
              hsa_signal_store("relaxed", "x", 1)>>,
            <<hsa_signal_cas("acq_rel", "y", 0, 2)>>),
      Forever(<<UntilOr(hsa_signal_cas("acq_rel", "z", 2, 0), 2, -1)>>,
            <<Asserted(hsa_signal_load("relaxed", "x"), 1),
              hsa_signal_store("relaxed", "x", 2)>>,
            <<hsa_signal_cas("acq_rel", "z", 0, 1)>>),
      Relay(<<hsa_signal_wait("y", 2),
              hsa_signal_cas("acq_rel", "z", 1, 2),
              hsa_signal_wait("z", 1),
              hsa_signal_cas("acq_rel", "y", 2, 1)>>,
            Quit(2, -1))>>)

signal_cas_acquire_release_ordering_transitive == Test(2, 1, 1,
    <<Forever(<<UntilOr(hsa_signal_cas("acquire", "y", 1, 0), 1, -1)>>,
            <<Asserted(hsa_signal_load("relaxed", "x"), 2),
              hsa_signal_store("relaxed", "x", 1)>>,
            <<hsa_signal_cas("release", "y", 0, 2)>>),
      Forever(<<UntilOr(hsa_signal_cas("acquire", "z", 2, 0), 2, -1)>>,
            <<Asserted(hsa_signal_load("relaxed", "x"), 1),
              hsa_signal_store("relaxed", "x", 2)>>,
            <<hsa_signal_cas("release", "z", 0, 1)>>),
      Relay(<<hsa_signal_wait("y", 2),
              hsa_signal_cas("release", "z", 1, 2),
              hsa_signal_wait("z", 1),
              hsa_signal_cas("release", "y", 2, 1)>>,
            Quit(2, -1))>>)

signal_exchange_acq_rel_ordering_transitive == Test(2, 1, 0,
    <<Forever(<<UntilOr(hsa_signal_load("acquire", "y"), 1, -1),
              hsa_signal_exchange("acq_rel", "y", 0)>>,
            <<Asserted(hsa_signal_load("relaxed", "x"), 2),
              hsa_signal_store("relaxed", "x", 1)>>,
            <<hsa_signal_exchange("acq_rel", "y", 2)>>),
      Forever(<<UntilOr(hsa_signal_load("acquire", "z"), 2, -1),
              hsa_signal_exchange("acquire", "z", 0)>>,
            <<Asserted(hsa_signal_load("relaxed", "x"), 1),
              hsa_signal_store("relaxed", "x", 2)>>,
            <<hsa_signal_exchange("acq_rel", "z", 1)>>),
      Relay(<<hsa_signal_wait("y", 2),
              hsa_signal_exchange("acq_rel", "z", 2),
              hsa_signal_wait("z", 1),
              hsa_signal_exchange("acq_rel", "y", 1)>>,
            Quit(2, -1))>>)

signal_exchange_acquire_release_ordering_transitive == Test(2, 1, 0,
    <<Forever(<<UntilOr(hsa_signal_load("acquire", "y"), 1, -1),
              hsa_signal_exchange("acquire", "y", 0)>>,
            <<Asserted(hsa_signal_load("relaxed", "x"), 2),
              hsa_signal_store("relaxed", "x", 1)>>,
            <<hsa_signal_store("release", "y", 2)>>),
      Forever(<<UntilOr(hsa_signal_load("acquire", "z"), 2, -1),
              hsa_signal_exchange("acquire", "z", 0)>>,
            <<Asserted(hsa_signal_load("relaxed", "x"), 1),
              hsa_signal_store("relaxed", "x", 2)>>,
            <<hsa_signal_store("release", "z", 1)>>),
      Relay(<<hsa_signal_wait("y", 2),
              hsa_signal_exchange("release", "z", 2),
              hsa_signal_wait("z", 1),
              hsa_signal_exchange("release", "y", 1)>>,
            Quit(2, -1))>>)

signal_or_acq_rel_ordering_transitive == Test(LAST_BIT, LAST_BIT, 0,
    <<Forever(<<UntilOr(hsa_signal_load("relaxed", "y"), LAST_BIT, ALL_BIT),
              hsa_signal_store("relaxed", "y", 0)>>,
            <<Asserted(hsa_signal_load("relaxed", "x"), LAST_BIT),
              hsa_signal_store("relaxed", "x", 0),
              hsa_signal_or("relaxed", "x", FIRST_BIT)>>,
            <<hsa_signal_or("acq_rel", "y", FIRST_BIT)>>),
      Forever(<<UntilOr(hsa_signal_load("relaxed", "z"), FIRST_BIT, ALL_BIT),
              hsa_signal_store("relaxed", "z", 0)>>,
            <<Asserted(hsa_signal_load("relaxed", "x"), FIRST_BIT),
              hsa_signal_store("relaxed", "x", 0),
              hsa_signal_or("relaxed", "x", LAST_BIT)>>,
            <<hsa_signal_or("acq_rel", "z", LAST_BIT)>>),
      Relay(<<hsa_signal_wait("y", FIRST_BIT),
              hsa_signal_store("relaxed", "z", 0),
              hsa_signal_or("release", "z", FIRST_BIT),
              hsa_signal_wait("z", LAST_BIT),
              hsa_signal_store("relaxed", "y", 0),
              hsa_signal_or("release", "y", LAST_BIT)>>,
            Quit(FIRST_BIT, ALL_BIT))>>)

signal_or_acquire_release_ordering_transitive == Test(LAST_BIT, LAST_BIT, 0,
    <<Forever(<<UntilOr(hsa_signal_load("relaxed", "y"), LAST_BIT, ALL_BIT),
              hsa_signal_store("relaxed", "y", 0),
              hsa_signal_or("acquire", "y", 0)>>,
            <<Asserted(hsa_signal_load("relaxed", "x"), LAST_BIT),
              hsa_signal_store("relaxed", "x", 0),
              hsa_signal_or("relaxed", "x", FIRST_BIT)>>,
            <<hsa_signal_or("release", "y", FIRST_BIT)>>),
      Forever(<<UntilOr(hsa_signal_load("relaxed", "z"), FIRST_BIT, ALL_BIT),
              hsa_signal_store("relaxed", "z", 0),
              hsa_signal_or("acquire", "z", 0)>>,
            <<Asserted(hsa_signal_load("relaxed", "x"), FIRST_BIT),
              hsa_signal_store("relaxed", "x", 0),
              hsa_signal_or("relaxed", "x", LAST_BIT)>>,
            <<hsa_signal_or("release", "z", LAST_BIT)>>),
      Relay(<<hsa_signal_wait("y", FIRST_BIT),
              hsa_signal_store("relaxed", "z", 0),
              hsa_signal_or("release", "z", FIRST_BIT),
              hsa_signal_wait("z", LAST_BIT),
              hsa_signal_store("relaxed", "y", 0),
              hsa_signal_or("release", "y", LAST_BIT)>>,
            Quit(FIRST_BIT, ALL_BIT))>>)

signal_subtract_acq_rel_ordering_transitive == Test(2, 1, 1,
    <<Forever(<<UntilOr(hsa_signal_load("relaxed", "y"), 1, -1),
              hsa_signal_subtract("acq_rel", "y", 1)>>,
            <<Asserted(hsa_signal_load("relaxed", "x"), 2),
              hsa_signal_subtract("relaxed", "x", 1)>>,
            <<hsa_signal_subtract("acq_rel", "y", -2)>>),
      Forever(<<UntilOr(hsa_signal_load("relaxed", "z"), 2, -1),
              hsa_signal_subtract("acq_rel", "z", 2)>>,
            <<Asserted(hsa_signal_load("relaxed", "x"), 1),
              hsa_signal_subtract("relaxed", "x", -1)>>,
            <<hsa_signal_subtract("acq_rel", "z", -1)>>),
      Relay(<<hsa_signal_wait("y", 2),
              hsa_signal_cas("release", "z", 1, 2),
              hsa_signal_wait("z", 1),
              hsa_signal_cas("release", "y", 2, 1)>>,
            Quit(2, -1))>>)

signal_subtract_acquire_release_ordering_transitive == Test(2, 1, 1,
    <<Forever(<<UntilOr(hsa_signal_load("relaxed", "y"), 1, -1),
              hsa_signal_subtract("acquire", "y", 1)>>,
            <<Asserted(hsa_signal_load("relaxed", "x"), 2),
              hsa_signal_subtract("relaxed", "x", 1)>>,
            <<hsa_signal_subtract("release", "y", -2)>>),
      Forever(<<UntilOr(hsa_signal_load("relaxed", "z"), 2, -1),
              hsa_signal_subtract("acquire", "z", 2)>>,
            <<Asserted(hsa_signal_load("relaxed", "x"), 1),
              hsa_signal_subtract("relaxed", "x", -1)>>,
            <<hsa_signal_subtract("release", "z", -1)>>),
      Relay(<<hsa_signal_wait("y", 2),
              hsa_signal_cas("release", "z", 1, 2),
              hsa_signal_wait("z", 1),
              hsa_signal_cas("release", "y", 2, 1)>>,
            Quit(2, -1))>>)

signal_xor_acq_rel_ordering_transitive == Test(LAST_BIT, LAST_BIT, LAST_BIT,
    <<Forever(<<UntilOr(hsa_signal_load("relaxed", "y"), LAST_BIT, ALL_BIT),
              hsa_signal_xor("acq_rel", "y", LAST_BIT)>>,
            <<Asserted(hsa_signal_load("relaxed", "x"), LAST_BIT),
              hsa_signal_xor("relaxed", "x", FIRST_BIT + LAST_BIT)>>,
            <<hsa_signal_xor("acq_rel", "y", FIRST_BIT)>>),
      Forever(<<UntilOr(hsa_signal_load("relaxed", "z"), FIRST_BIT, ALL_BIT),
              hsa_signal_xor("acq_rel", "z", FIRST_BIT)>>,
            <<Asserted(hsa_signal_load("relaxed", "x"), FIRST_BIT),
              hsa_signal_xor("relaxed", "x", FIRST_BIT + LAST_BIT)>>,
            <<hsa_signal_xor("acq_rel", "z", LAST_BIT)>>),
      Relay(<<hsa_signal_wait("y", FIRST_BIT),
              hsa_signal_xor("release", "z", FIRST_BIT + LAST_BIT),
              hsa_signal_wait("z", LAST_BIT),
              hsa_signal_xor("release", "y", FIRST_BIT + LAST_BIT)>>,
            Quit(FIRST_BIT, ALL_BIT))>>)

signal_xor_acquire_release_ordering_transitive == Test(LAST_BIT, LAST_BIT, LAST_BIT,
    <<Forever(<<UntilOr(hsa_signal_load("relaxed", "y"), LAST_BIT, ALL_BIT),
              hsa_signal_xor("acquire", "y", LAST_BIT)>>,
            <<Asserted(hsa_signal_load("relaxed", "x"), LAST_BIT),
              hsa_signal_xor("relaxed", "x", FIRST_BIT + LAST_BIT)>>,
            <<hsa_signal_xor("release", "y", FIRST_BIT)>>),
      Forever(<<UntilOr(hsa_signal_load("relaxed", "z"), FIRST_BIT, ALL_BIT),
              hsa_signal_xor("acquire", "z", FIRST_BIT)>>,
            <<Asserted(hsa_signal_load("relaxed", "x"), FIRST_BIT),
              hsa_signal_xor("relaxed", "x", FIRST_BIT + LAST_BIT)>>,
            <<hsa_signal_xor("release", "z", LAST_BIT)>>),
      Relay(<<hsa_signal_wait("y", FIRST_BIT),
              hsa_signal_xor("release", "z", FIRST_BIT + LAST_BIT),
              hsa_signal_wait("z", LAST_BIT),
              hsa_signal_xor("release", "y", FIRST_BIT + LAST_BIT)>>,
            Quit(FIRST_BIT, ALL_BIT))>>)

(* The tests by name. *)
Suite ==
    [signal_store_release_load_acquire_ordering |-> signal_store_release_load_acquire_ordering,
     signal_add_acq_rel_ordering |-> signal_add_acq_rel_ordering,
     signal_add_acquire_release_ordering |-> signal_add_acquire_release_ordering,
     signal_and_acq_rel_ordering |-> signal_and_acq_rel_ordering,
     signal_and_acquire_release_ordering |-> signal_and_acquire_release_ordering,
     signal_cas_acq_rel_ordering |-> signal_cas_acq_rel_ordering,
     signal_cas_acquire_release_ordering |-> signal_cas_acquire_release_ordering,
     signal_exchange_acq_rel_ordering |-> signal_exchange_acq_rel_ordering,
     signal_exchange_acquire_release_ordering |-> signal_exchange_acquire_release_ordering,
     signal_or_acq_rel_ordering |-> signal_or_acq_rel_ordering,
     signal_or_acquire_release_ordering |-> signal_or_acquire_release_ordering,
     signal_subtract_acq_rel_ordering |-> signal_subtract_acq_rel_ordering,
     signal_xor_acq_rel_ordering |-> signal_xor_acq_rel_ordering,
     signal_xor_acquire_release_ordering |-> signal_xor_acquire_release_ordering,
     signal_store_release_load_acquire_ordering_transitive |-> signal_store_release_load_acquire_ordering_transitive,
     signal_add_acq_rel_ordering_transitive |-> signal_add_acq_rel_ordering_transitive,
     signal_add_acquire_release_ordering_transitive |-> signal_add_acquire_release_ordering_transitive,
     signal_and_acq_rel_ordering_transitive |-> signal_and_acq_rel_ordering_transitive,
     signal_and_acquire_release_ordering_transitive |-> signal_and_acquire_release_ordering_transitive,
     signal_cas_acq_rel_ordering_transitive |-> signal_cas_acq_rel_ordering_transitive,
     signal_cas_acquire_release_ordering_transitive |-> signal_cas_acquire_release_ordering_transitive,
     signal_exchange_acq_rel_ordering_transitive |-> signal_exchange_acq_rel_ordering_transitive,
     signal_exchange_acquire_release_ordering_transitive |-> signal_exchange_acquire_release_ordering_transitive,
     signal_or_acq_rel_ordering_transitive |-> signal_or_acq_rel_ordering_transitive,
     signal_or_acquire_release_ordering_transitive |-> signal_or_acquire_release_ordering_transitive,
     signal_subtract_acq_rel_ordering_transitive |-> signal_subtract_acq_rel_ordering_transitive,
     signal_subtract_acquire_release_ordering_transitive |-> signal_subtract_acquire_release_ordering_transitive,
     signal_xor_acq_rel_ordering_transitive |-> signal_xor_acq_rel_ordering_transitive,
     signal_xor_acquire_release_ordering_transitive |-> signal_xor_acquire_release_ordering_transitive]
=============================================================================
