----------------------------- MODULE MCAqlQueue -----------------------------
(* The scenarios in which AqlQueue is model-checked. *)
EXTENDS AqlQueue

Scenario(m, ps, n, k, e) ==
    [mode |-> m, producers |-> ps, size |-> n, packets |-> k, early |-> e,
     regions |-> <<>>, region |-> 0]

(* Rounds of three regions of n packets that fill three quarters of the    *)
(* queue.                                                                  *)
Gap(n, k, e) == [Scenario("gap", {"p1", "p2", "p3"}, 4 * n, k, e)
                   EXCEPT !.regions = <<"p1", "p2", "p3">>, !.region = n]

(* Two and three threads, past the end of the ring; one caller over six    *)
(* laps; two bulk requests of the queue's size; bursts that just fit and   *)
(* that do not; rounds of the gap test.  Where the last argument is TRUE   *)
(* every wait may resume early.                                            *)
AllScenarios ==
    {Scenario("concurrent", {"p1", "p2", "p3"}, 4, 2, FALSE),
     Scenario("concurrent", {"p1", "p2"}, 4, 3, TRUE),
     Scenario("one_d", {"p1"}, 2, 12, TRUE),
     Scenario("bulk", {"p1", "p2"}, 4, 4, FALSE),
     Scenario("burst", {"p1"}, 4, 4, TRUE),
     Scenario("burst", {"p1"}, 2, 3, FALSE),
     Gap(2, 6, FALSE), Gap(1, 2, TRUE)}
=============================================================================
