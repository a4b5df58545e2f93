------------------------------- MODULE ForkJoin -------------------------------
(***************************************************************************)
(* What a test group promises its caller, without threads, mutexes or      *)
(* condition variables: rounds in which every member finishes exactly      *)
(* once, a next round only after the last one is over, and a wait that     *)
(* returns only then.                                                      *)
(***************************************************************************)
EXTENDS Integers

CONSTANT Members          \* the tests a group may have

VARIABLES
    members,   \* the tests of this group
    lost,      \* the members for which there is nobody to run them
    round,     \* the rounds begun
    done,      \* the members that have finished the current round
    caller     \* "building", "free", "waiting" or "closed"

vars == <<members, lost, round, done, caller>>

Init ==
    /\ members = {} /\ lost = {} /\ done = {}
    /\ round = 0
    /\ caller = "building"

Open ==
    /\ caller = "building"
    /\ caller' = "free"
    /\ members' \in SUBSET Members /\ lost' \in SUBSET members'
    /\ done' = members'
    /\ UNCHANGED round

Begin ==
    /\ caller = "free"
    /\ done = members
    /\ round' = round + 1
    /\ done' = {}
    /\ UNCHANGED <<members, lost, caller>>

Finish(t) ==
    /\ t \in members \ (done \cup lost)
    /\ done' = done \cup {t}
    /\ UNCHANGED <<members, lost, round, caller>>

Wait ==
    /\ caller = "free"
    /\ caller' = "waiting"
    /\ UNCHANGED <<members, lost, round, done>>

Return ==
    /\ caller = "waiting"
    /\ done = members
    /\ caller' = "free"
    /\ UNCHANGED <<members, lost, round, done>>

(* The caller may close the group in the middle of a round; the members    *)
(* that have not begun it then need not finish.                            *)
Close ==
    /\ caller = "free"
    /\ caller' = "closed"
    /\ UNCHANGED <<members, lost, round, done>>

Next == Open \/ Begin \/ (\E t \in Members : Finish(t)) \/ Wait \/ Return \/ Close

Fairness ==
    /\ \A t \in Members : WF_vars(caller # "closed" /\ Finish(t))
    /\ WF_vars(Return)

Spec == Init /\ [][Next]_vars
FairSpec == Spec /\ Fairness
=============================================================================
