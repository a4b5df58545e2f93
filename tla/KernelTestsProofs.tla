------------------------- MODULE KernelTestsProofs -------------------------
(***************************************************************************)
(* Theorems about KernelTests, for every machine.  What a test holds is a  *)
(* matter of where it is: Span gives, for each resource, the steps of the  *)
(* body before which it is held.  Failing calls may leave more behind,     *)
(* never less.                                                             *)
(***************************************************************************)
EXTENDS KernelTests, FiniteSetTheorems, WellFoundedInduction, TLAPS

Setup == {"hsa_init", "select", "select_queue", "select_regions", "load"}
Places == Setup \cup Ended \cup {"agents", "loop", "body", "finalize", "finalize_error", "shut_down"}
Finalizing == pc \in {"finalize", "finalize_error"}
Running == pc \notin {"failed", "crashed"}

Span(r) ==
    CASE test = "aql_private_memory" ->
           CASE r = "queue" -> 3..15
             [] r = "executable" -> 4..14
             [] r = "code_object" -> 4..16
             [] r = "data_in" -> 6..12
             [] r = "data_out" -> 7..13
             [] r = "kernarg_buffer" -> 8..11
             [] r = "completion_signal" -> 9..10
             [] OTHER -> {}
      [] test = "aql_group_memory" ->
           CASE r = "queue" -> 2..14
             [] r = "executable" -> 3..15
             [] r = "code_object" -> 3..16
             [] r = "data_in" -> 5..12
             [] r = "data_out" -> 6..13
             [] r = "kernarg_buffer" -> 8..11
             [] r = "completion_signal" -> 9..10
             [] OTHER -> {}
      [] OTHER ->
           CASE r = "queue" -> 1..12
             [] r = "executable" -> 2..10
             [] r = "code_object" -> 2..11
             [] r = "data_out" -> 4..7
             [] r = "kernarg_buffer" -> 5..8
             [] r = "completion_signal" -> 6..9
             [] OTHER -> {}

(* What step s of the body acquires and releases. *)
Gains(s) ==
    CASE Body[s] = Use("finalize") -> {"executable", "code_object"}
      [] Body[s][1] = "make" -> {Body[s][3]}
      [] OTHER -> {}
Loses(s) == IF Body[s][1] \in {"drop", "discard"} THEN {Body[s][3]} ELSE {}

One(b) == IF b THEN 1 ELSE 0

(* How many of r a running test holds. *)
Held(r) ==
    CASE r = "module_buffer" ->
           One(module = "loaded" /\ (EachAgent => pc \notin {"shut_down", "passed"}))
      [] r = "agent_list" ->
           One(EachAgent /\ (Finalizing \/ pc \in {"loop", "body", "shut_down"}))
      [] r = "program" -> One(Finalizing /\ fstep > 1)
      [] r = "code_object" ->
           One(step \in Span(r) \/ (Finalizing /\ fstep > 4))
             + (IF test = "aql_private_memory" THEN Cardinality(tested \ {ii}) ELSE 0)
      [] r = "executable" -> One(step \in Span(r) \/ (Finalizing /\ fstep > 5))
      [] r = "queue" -> One(step \in Span(r) /\ pc \notin {"hsa_init", "select", "select_queue"})
      [] OTHER -> One(step \in Span(r))

TypeInv ==
    /\ test \in Tests /\ machine \in Machines /\ pc \in Places
    /\ ii \in Nat /\ step \in Nat /\ fstep \in Nat
    /\ module \in {"loaded", "undefined"}
    /\ live \in [Resources -> Int]
    /\ tested \in SUBSET Nat

PlaceInv ==
    /\ EachAgent => pc \notin {"select", "select_queue", "select_regions"} /\ ii >= 1
    /\ ~EachAgent => pc \notin {"agents", "loop"}
    /\ pc \in Setup => module = "undefined"
    /\ pc \in Setup \cup {"agents", "loop"} => step = 1
    /\ pc = "body" => step \in 1..(Len(Body) + 1)
    /\ Finalizing => /\ step \in 1..Len(Body) /\ Body[step] = Use("finalize")
                     /\ fstep \in 1..(Len(FinalizeSteps) + 1)
    /\ pc \in {"select_regions", "body"} \/ Finalizing => ii \in DOMAIN machine
    /\ pc = "select_queue" => ii \in DOMAIN machine \cup {0}
    /\ ~EachAgent /\ pc = "load" => ii \in DOMAIN machine
    /\ pc \in {"shut_down", "passed"} =>
           IF EachAgent THEN step = 1 /\ ii > Len(machine) ELSE step = Len(Body) + 1

(* The kernel of an agent runs at the ninth step of the two bodies. *)
TestedInv ==
    EachAgent => tested \subseteq 1..ii /\ (ii \in tested <=> step > 9)

HeldInv ==
    \A r \in Resources :
        /\ live[r] >= 0
        /\ Running => live[r] >= Held(r)
        /\ Running => live[r] = Held(r) \/ Spilt(r)
        /\ pc = "failed" /\ r = "program" => live[r] = 0 \/ Spilt(r)

LeakInv == TypeInv /\ PlaceInv /\ TestedInv /\ HeldInv

(* The steps of the body at which the executable is finalized and data is  *)
(* first allocated.                                                        *)
FinalizeAt == CASE test = "aql_private_memory" -> 3 [] test = "aql_group_memory" -> 2 [] OTHER -> 1
AllocateAt == CASE test = "aql_private_memory" -> 5 [] test = "aql_group_memory" -> 4 [] OTHER -> 3

(* A test that goes on has met only failures that nobody looks at, or a    *)
(* module that could not be read; and whatever lies behind finalize_       *)
(* executable had a module.                                                *)
Load == {"malloc", "fread", "fseek"}
Ignored == {"hsa_ext_program_destroy"}
           \cup (IF EachAgent THEN {"hsa_agent_iterate_regions", "hsa_signal_destroy"}
                 ELSE {"hsa_agent_get_info"})
SurfaceInv ==
    (Running /\ pc # "finalize_error") =>
        /\ faults \subseteq Ignored \cup Load
        /\ EachAgent => "fseek" \notin faults
        /\ module = "loaded" \/ pc \in Setup => faults \cap Load = {}
        /\ (step > FinalizeAt \/ tested # {} \/ (pc = "finalize" /\ fstep > 2)) => module = "loaded"

(* The regions found belong to the agent the test is at. *)
AtAgent == pc = "body" \/ Finalizing \/ (~EachAgent /\ pc = "load")
MemoryInv ==
    /\ KernelsHaveTheirMemory
    /\ AtAgent =>
          /\ global_region # NoRegion => global_region = FineGrainedRegion(Agent.regions)
          /\ step > AllocateAt => global_region # NoRegion
          /\ KernargRegion(Agent.regions) # NoRegion
          /\ EachAgent => /\ "kernel_dispatch" \in Agent.feature
                          /\ test = "aql_group_memory" => GroupRegion(Agent.regions) # NoRegion

-----------------------------------------------------------------------------
(* A nonempty set of naturals has a least element: what First chooses is a *)
(* hit.                                                                    *)
LEMMA FirstHit ==
    ASSUME NEW H \in SUBSET Nat, H # {}
    PROVE  (CHOOSE n \in H : \A k \in H : n <= k) \in H
<1> DEFINE R == {ss \in Nat \X Nat : ss[1] < ss[2]}
<1>1. IsWellFoundedOn(R, Nat)
    BY NatLessThanWellFounded DEF OpToRel
<1> HIDE DEF R
<1>2. PICK x \in H : \A y \in H : ~(<<y, x>> \in R)
    BY <1>1, WFMin
<1>3. ASSUME NEW y \in H PROVE x <= y
    <2>1. x \in Nat /\ y \in Nat /\ <<y, x>> \in Nat \X Nat
        OBVIOUS
    <2>2. ~(<<y, x>> \in R)
        BY <1>2
    <2> QED BY <2>1, <2>2 DEF R
<1> QED BY <1>3

(* The agent the iteration stops at is one the callback accepts. *)
LEMMA FoundAgent ==
    ASSUME machine \in Seq(Agents), KernelDispatchAgent # 0
    PROVE  /\ KernelDispatchAgent \in DOMAIN machine
           /\ machine[KernelDispatchAgent].feature = {"kernel_dispatch"}
<1> DEFINE H == {n \in 1..Len(machine) : machine[n].feature = {"kernel_dispatch"}}
<1>1. H # {} /\ KernelDispatchAgent = CHOOSE n \in H : \A k \in H : n <= k
    BY DEF KernelDispatchAgent, First, get_kernel_dispatch_agent
<1>2. H \in SUBSET Nat
    OBVIOUS
<1> HIDE DEF H
<1>3. KernelDispatchAgent \in H
    BY <1>1, <1>2, FirstHit
<1> QED BY <1>3 DEF H

(* An agent with kernel dispatch has a region that is found for kernel     *)
(* arguments.                                                              *)
LEMMA FoundKernarg ==
    ASSUME machine \in Machines, NEW n \in DOMAIN machine, "kernel_dispatch" \in machine[n].feature
    PROVE  KernargRegion(machine[n].regions) # NoRegion
<1>0. machine \in Seq(Agents)
    BY MachinesAssumption
<1>1. PICK regions : regions = machine[n].regions
    OBVIOUS
<1>2. machine[n] \in Agents
    BY <1>0
<1>3. regions \in Seq([segment : Segments, flags : SUBSET Flags])
    BY <1>1, <1>2 DEF Agents
<1> DEFINE H == {k \in 1..Len(regions) : regions[k].segment = "global" /\ "kernarg" \in regions[k].flags}
           first == CHOOSE k \in H : \A l \in H : k <= l
<1>4. H # {} /\ H \in SUBSET Nat
    BY <1>1, <1>3, MachinesAssumption
<1>5. KernargRegion(regions) = IF first = 0 THEN NoRegion ELSE regions[first]
    BY <1>4 DEF KernargRegion, Find, First, get_kernarg_memory_region
<1>6. first \in H
    <2> HIDE DEF H
    <2> QED BY <1>4, FirstHit
<1> HIDE DEF first
<1>7. regions[first].segment = "global" /\ first # 0
    BY <1>6
<1> QED BY <1>1, <1>5, <1>7 DEF NoRegion

-----------------------------------------------------------------------------
(* Span is what the calls of the body make it. *)
Balanced(s) ==
    /\ Body[s][1] \in {"make", "use", "drop", "discard"}
    /\ Body[s][1] \in {"make", "drop", "discard"} =>
          Body[s][3] \in Resources \ {"module_buffer", "agent_list", "program"}
    /\ EachAgent => (Body[s][2] = "dispatch" <=> s = 9)
    /\ Body[s][2] = "dispatch" => Body[s][1] = "use"
    /\ Body[s][1] = "discard" => Body[s][2] = "hsa_signal_destroy" /\ Body[s][3] = "completion_signal"
    /\ s = FinalizeAt => Body[s] = Use("finalize")
    /\ s = AllocateAt => Body[s] = Make("allocate_global", Body[s][3])
    /\ Body[s][2] = "dispatch" => s > AllocateAt
    /\ \A r \in Resources :
          /\ r \in Gains(s) => s \notin Span(r) /\ s + 1 \in Span(r)
          /\ r \in Loses(s) => s \in Span(r) /\ s + 1 \notin Span(r)
          /\ r \notin Gains(s) \cup Loses(s) => (s \in Span(r) <=> s + 1 \in Span(r))

(* The calls of test_aql_private_memory balance. *)
LEMMA PrivateBody ==
    ASSUME test = "aql_private_memory"
    PROVE  Len(Body) = 15 /\ \A s \in 1..15 : Balanced(s)
<1> SUFFICES ASSUME NEW s \in 1..15 PROVE Balanced(s)
    BY DEF Body
<1> USE DEF Balanced, Body, Span, Gains, Loses, Resources, EachAgent, FinalizeAt, AllocateAt, Make, Use, Drop, Discard
<1>1. CASE s = 1 BY <1>1
<1>2. CASE s = 2 BY <1>2
<1>3. CASE s = 3 BY <1>3
<1>4. CASE s = 4 BY <1>4
<1>5. CASE s = 5 BY <1>5
<1>6. CASE s = 6 BY <1>6
<1>7. CASE s = 7 BY <1>7
<1>8. CASE s = 8 BY <1>8
<1>9. CASE s = 9 BY <1>9
<1>10. CASE s = 10 BY <1>10
<1>11. CASE s = 11 BY <1>11
<1>12. CASE s = 12 BY <1>12
<1>13. CASE s = 13 BY <1>13
<1>14. CASE s = 14 BY <1>14
<1>15. CASE s = 15 BY <1>15
<1> HIDE DEF Balanced
<1> QED BY <1>1, <1>2, <1>3, <1>4, <1>5, <1>6, <1>7, <1>8, <1>9, <1>10, <1>11, <1>12, <1>13, <1>14, <1>15

(* The calls of test_aql_group_memory balance. *)
LEMMA GroupBody ==
    ASSUME test = "aql_group_memory"
    PROVE  Len(Body) = 16 /\ \A s \in 1..16 : Balanced(s)
<1> SUFFICES ASSUME NEW s \in 1..16 PROVE Balanced(s)
    BY DEF Body
<1> USE DEF Balanced, Body, Span, Gains, Loses, Resources, EachAgent, FinalizeAt, AllocateAt, Make, Use, Drop, Discard
<1>1. CASE s = 1 BY <1>1
<1>2. CASE s = 2 BY <1>2
<1>3. CASE s = 3 BY <1>3
<1>4. CASE s = 4 BY <1>4
<1>5. CASE s = 5 BY <1>5
<1>6. CASE s = 6 BY <1>6
<1>7. CASE s = 7 BY <1>7
<1>8. CASE s = 8 BY <1>8
<1>9. CASE s = 9 BY <1>9
<1>10. CASE s = 10 BY <1>10
<1>11. CASE s = 11 BY <1>11
<1>12. CASE s = 12 BY <1>12
<1>13. CASE s = 13 BY <1>13
<1>14. CASE s = 14 BY <1>14
<1>15. CASE s = 15 BY <1>15
<1>16. CASE s = 16 BY <1>16
<1> HIDE DEF Balanced
<1> QED BY <1>1, <1>2, <1>3, <1>4, <1>5, <1>6, <1>7, <1>8, <1>9, <1>10, <1>11, <1>12, <1>13, <1>14, <1>15, <1>16

(* The calls of test_code_recursive_kernel_function balance. *)
LEMMA RecursiveBody ==
    ASSUME test = "code_recursive_kernel_function"
    PROVE  Len(Body) = 12 /\ \A s \in 1..12 : Balanced(s)
<1> SUFFICES ASSUME NEW s \in 1..12 PROVE Balanced(s)
    BY DEF Body
<1> USE DEF Balanced, Body, Span, Gains, Loses, Resources, EachAgent, FinalizeAt, AllocateAt, Make, Use, Drop, Discard
<1>1. CASE s = 1 BY <1>1
<1>2. CASE s = 2 BY <1>2
<1>3. CASE s = 3 BY <1>3
<1>4. CASE s = 4 BY <1>4
<1>5. CASE s = 5 BY <1>5
<1>6. CASE s = 6 BY <1>6
<1>7. CASE s = 7 BY <1>7
<1>8. CASE s = 8 BY <1>8
<1>9. CASE s = 9 BY <1>9
<1>10. CASE s = 10 BY <1>10
<1>11. CASE s = 11 BY <1>11
<1>12. CASE s = 12 BY <1>12
<1> HIDE DEF Balanced
<1> QED BY <1>1, <1>2, <1>3, <1>4, <1>5, <1>6, <1>7, <1>8, <1>9, <1>10, <1>11, <1>12

(* Every step of every body balances. *)
LEMMA BodySteps ==
    ASSUME test \in Tests
    PROVE  /\ \A s \in 1..Len(Body) : Balanced(s)
           /\ Len(Body) \in Nat /\ Len(Body) >= 12
           /\ EachAgent => Len(Body) >= 15
<1>1. CASE test = "aql_private_memory"
    <2>1. Len(Body) = 15 /\ \A s \in 1..15 : Balanced(s)
        BY <1>1, PrivateBody
    <2> QED BY <2>1
<1>2. CASE test = "aql_group_memory"
    <2>1. Len(Body) = 16 /\ \A s \in 1..16 : Balanced(s)
        BY <1>2, GroupBody
    <2> QED BY <2>1
<1>3. CASE test = "code_recursive_kernel_function"
    <2>1. Len(Body) = 12 /\ ~EachAgent /\ \A s \in 1..12 : Balanced(s)
        BY <1>3, RecursiveBody DEF EachAgent
    <2> QED BY <2>1
<1> QED BY <1>1, <1>2, <1>3, KernelTestsAssumption DEF KernelTestNames

(* The body is the test's: it does not change. *)
LEMMA SameBody ==
    ASSUME test' = test
    PROVE  /\ Body' = Body /\ EachAgent' = EachAgent
           /\ \A r \in Resources : Span(r)' = Span(r)
BY DEF Body, EachAgent, Span

(* Nothing is held before the first step but the queue of the third test,  *)
(* and nothing after the last but the code object of the first.            *)
LEMMA BodyEnds ==
    ASSUME test \in Tests, NEW r \in Resources
    PROVE  /\ (1 \in Span(r)) <=> (~EachAgent /\ r = "queue")
           /\ (Len(Body) + 1 \in Span(r)) <=> (test = "aql_private_memory" /\ r = "code_object")
<1>1. CASE test = "aql_private_memory"
    <2>1. Len(Body) = 15
        BY <1>1, PrivateBody
    <2> QED BY <1>1, <2>1 DEF EachAgent, Span, Resources
<1>2. CASE test = "aql_group_memory"
    <2>1. Len(Body) = 16
        BY <1>2, GroupBody
    <2> QED BY <1>2, <2>1 DEF EachAgent, Span, Resources
<1>3. CASE test = "code_recursive_kernel_function"
    <2>1. Len(Body) = 12
        BY <1>3, RecursiveBody
    <2> QED BY <1>3, <2>1 DEF EachAgent, Span, Resources
<1> QED BY <1>1, <1>2, <1>3, KernelTestsAssumption DEF KernelTestNames

(* What a test holds is a number. *)
LEMMA HeldIsNat ==
    ASSUME TypeInv, TestedInv, NEW r \in Resources
    PROVE  Held(r) \in Nat /\ (EachAgent => IsFiniteSet(tested))
<1>1. ASSUME EachAgent PROVE IsFiniteSet(tested) /\ Cardinality(tested \ {ii}) \in Nat
    <2>1. IsFiniteSet(1..ii) /\ tested \in SUBSET (1..ii)
        BY <1>1, FS_Interval DEF TypeInv, TestedInv
    <2>2. IsFiniteSet(tested) /\ tested \ {ii} \in SUBSET (1..ii)
        BY <2>1, FS_Subset
    <2> QED BY <2>1, <2>2, FS_Subset, FS_CardinalityType
<1>2. test = "aql_private_memory" => EachAgent
    BY DEF EachAgent
<1> QED BY <1>1, <1>2 DEF Held, One

-----------------------------------------------------------------------------
(* The initial states satisfy the invariant. *)
LEMMA InitLeak == Init => LeakInv
<1> SUFFICES ASSUME Init PROVE LeakInv
    OBVIOUS
<1>1. TypeInv
    BY DEF Init, TypeInv, Places, Setup
<1>2. PlaceInv
    BY DEF Init, PlaceInv, Setup, Finalizing
<1>3. TestedInv
    BY DEF Init, TestedInv
<1>4. HeldInv
    <2>1. Cardinality(tested \ {ii}) = 0
        BY FS_EmptySet DEF Init
    <2> QED BY <2>1, <1>1, BodyEnds DEF Init, HeldInv, Held, One, Finalizing, TypeInv
<1> QED BY <1>1, <1>2, <1>3, <1>4 DEF LeakInv

(* What was spilt remains so, and outside of finalize_executable there is  *)
(* no other program left.                                                  *)
LEMMA Spills ==
    ASSUME LeakInv, Next
    PROVE  /\ \A r \in Resources : Spilt(r) => Spilt(r)'
           /\ Running /\ (~Finalizing => live["program"] = 0 \/ Spilt("program"))
<1>1. faults \subseteq faults' /\ pc \notin Ended
    <2>1. CASE hsa_init \/ load_module \/ get_agent_list \/ select_agent \/ select_queue \/ select_regions
        BY <2>1 DEF hsa_init, load_module, get_agent_list, select_agent, select_queue, select_regions, Fail, Ended
    <2>2. CASE visit_agent \/ agent_get_info_fails \/ body_end \/ destroy_module \/ shut_down
        BY <2>2 DEF visit_agent, agent_get_info_fails, body_end, destroy_module, shut_down, Fail, Ended
    <2>3. CASE finalize_begin \/ finalize_step \/ finalize_step_fails \/ finalize_crashes \/ finalize_exit
        BY <2>3 DEF finalize_begin, finalize_step, finalize_step_fails, finalize_crashes, finalize_exit, Ended
    <2>4. CASE body_call
        BY <2>4 DEF body_call, Fail, Ended
    <2> QED BY <2>1, <2>2, <2>3, <2>4 DEF Next
<1>2. Running
    BY <1>1 DEF Running, Ended
<1>3. ~Finalizing => Held("program") = 0
    BY DEF Held, One
<1> QED BY <1>1, <1>2, <1>3 DEF LeakInv, HeldInv, Spilt, Resources

(* Starting up and choosing an agent keep it. *)
LEMMA SetupLeak ==
    ASSUME LeakInv, hsa_init \/ select_agent \/ select_queue \/ select_regions
    PROVE  LeakInv'
<1>0. TypeInv /\ PlaceInv /\ TestedInv /\ HeldInv
    BY DEF LeakInv
<1>s. /\ \A r \in Resources : Spilt(r) => Spilt(r)'
      /\ Running /\ (~Finalizing => live["program"] = 0 \/ Spilt("program"))
    BY Spills DEF Next
<1>a. test' = test /\ Body' = Body /\ EachAgent' = EachAgent /\ \A r \in Resources : Span(r)' = Span(r)
    BY SameBody DEF hsa_init, select_agent, select_queue, select_regions
<1>b. machine \in Seq(Agents)
    BY <1>0, MachinesAssumption DEF TypeInv
<1>1. ASSUME hsa_init PROVE LeakInv'
    <2>1. TypeInv'
        BY <1>0, <1>1 DEF hsa_init, Fail, TypeInv, Places, Setup, Ended
    <2>2. PlaceInv'
        BY <1>0, <1>a, <1>1 DEF hsa_init, Fail, PlaceInv, Setup, Finalizing
    <2>3. TestedInv'
        BY <1>0, <1>a, <1>1 DEF hsa_init, TestedInv
    <2>4. HeldInv'
        <3>1. step = 1 /\ pc = "hsa_init" /\ live' = live
            BY <1>0, <1>1 DEF hsa_init, Fail, PlaceInv, Setup
        <3>2. ASSUME NEW r \in Resources, pc' \in {"load", "select"} PROVE Held(r)' = Held(r)
            <4>1. 1 \in Span(r) <=> (~EachAgent /\ r = "queue")
                BY <1>0, BodyEnds DEF TypeInv
            <4>2. EachAgent => pc' # "select"
                BY <1>1 DEF hsa_init, Fail
            <4>3. ~EachAgent => pc' # "load"
                BY <1>1 DEF hsa_init, Fail
            <4> QED BY <1>a, <1>1, <3>1, <3>2, <4>1, <4>2, <4>3 DEF hsa_init, Held, One, Finalizing
        <3>3. pc' \in {"load", "select", "failed"}
            BY <1>1 DEF hsa_init, Fail
        <3> QED BY <1>s, <1>0, <3>1, <3>2, <3>3 DEF HeldInv, Running, Finalizing
    <2> QED BY <2>1, <2>2, <2>3, <2>4 DEF LeakInv
<1>2. ASSUME select_agent PROVE LeakInv'
    <2>0. ~EachAgent /\ test # "aql_private_memory" /\ pc = "select" /\ step = 1
        BY <1>0, <1>2 DEF PlaceInv, EachAgent, select_agent, Setup
    <2>1. TypeInv'
        BY <1>0, <1>b, <1>2, FoundAgent DEF select_agent, Fail, TypeInv, Places, Setup, Ended
    <2>2. PlaceInv'
        BY <1>0, <1>a, <1>b, <1>2, <2>0, FoundAgent DEF select_agent, Fail, PlaceInv, Setup, Finalizing
    <2>3. TestedInv'
        BY <1>a, <2>0 DEF TestedInv
    <2>4. HeldInv'
        BY <1>s, <1>0, <1>a, <1>2, <2>0 DEF select_agent, Fail, HeldInv, Held, One, Finalizing, Running
    <2> QED BY <2>1, <2>2, <2>3, <2>4 DEF LeakInv
<1>3. ASSUME select_queue PROVE LeakInv'
    <2>0. ~EachAgent /\ test # "aql_private_memory" /\ pc = "select_queue" /\ step = 1
        BY <1>0, <1>3 DEF PlaceInv, EachAgent, select_queue, Setup
    <2>1. TypeInv'
        BY SMTT(20), <1>0, <1>b, <1>3
           DEF select_queue, Fail, Acquire, TypeInv, Places, Setup, Ended, Resources
    <2>2. PlaceInv'
        BY <1>0, <1>a, <1>3, <2>0 DEF select_queue, Fail, PlaceInv, Setup, Finalizing
    <2>3. TestedInv'
        BY <1>a, <2>0 DEF TestedInv
    <2>4. HeldInv'
        BY <1>s, <1>0, <1>a, <1>3, <2>0, BodyEnds DEF select_queue, Fail, Acquire, HeldInv, Held, One,
           Finalizing, Running, TypeInv
    <2> QED BY <2>1, <2>2, <2>3, <2>4 DEF LeakInv
<1>4. ASSUME select_regions PROVE LeakInv'
    <2>0. ~EachAgent /\ test # "aql_private_memory" /\ pc = "select_regions"
        BY <1>0, <1>4 DEF PlaceInv, EachAgent, select_regions
    <2>1. TypeInv'
        BY <1>0, <1>4 DEF select_regions, Fail, TypeInv, Places, Setup, Ended
    <2>2. PlaceInv'
        BY <1>0, <1>a, <1>4, <2>0 DEF select_regions, Fail, PlaceInv, Setup, Finalizing
    <2>3. TestedInv'
        BY <1>a, <2>0 DEF TestedInv
    <2>4. HeldInv'
        BY <1>s, <1>0, <1>a, <1>4, <2>0 DEF select_regions, Fail, HeldInv, Held, One, Finalizing, Running
    <2> QED BY <2>1, <2>2, <2>3, <2>4 DEF LeakInv
<1> QED BY <1>1, <1>2, <1>3, <1>4

(* Loading the module and listing the agents keep it. *)
LEMMA LoadLeak ==
    ASSUME LeakInv, load_module \/ get_agent_list
    PROVE  LeakInv'
<1>0. TypeInv /\ PlaceInv /\ TestedInv /\ HeldInv
    BY DEF LeakInv
<1>s. /\ \A r \in Resources : Spilt(r) => Spilt(r)'
      /\ Running /\ (~Finalizing => live["program"] = 0 \/ Spilt("program"))
    BY Spills DEF Next
<1>a. test' = test /\ Body' = Body /\ EachAgent' = EachAgent /\ \A r \in Resources : Span(r)' = Span(r)
    BY SameBody DEF load_module, get_agent_list
<1>b. ASSUME NEW r \in Resources PROVE Held(r) \in Nat
    BY <1>0, HeldIsNat
<1>1. ASSUME load_module PROVE LeakInv'
    <2>0. pc = "load" /\ step = 1 /\ module = "undefined"
        BY <1>0, <1>1 DEF PlaceInv, load_module, Setup
    <2>1. TypeInv'
        BY <1>0, <1>1 DEF load_module, Fail, Acquire, TypeInv, Places, Setup, Ended, Resources
    <2>2. PlaceInv'
        BY <1>0, <1>a, <1>1, <2>0, BodySteps DEF load_module, Fail, PlaceInv, Setup, Finalizing, TypeInv
    <2>3. TestedInv'
        BY <1>0, <1>a, <1>1 DEF load_module, TestedInv
    <2>4. ASSUME NEW r \in Resources, pc' \notin {"failed", "crashed"}
          PROVE  Held(r)' = IF module' = "loaded" /\ r = "module_buffer" THEN 1 ELSE Held(r)
        BY <1>0, <1>a, <1>1, <2>0, <2>4 DEF load_module, Fail, Held, One, Finalizing, TypeInv
    <2>5. HeldInv'
        <3> SUFFICES ASSUME NEW r \in Resources
                     PROVE  /\ live'[r] >= 0
                            /\ Running' => live'[r] >= Held(r)' /\ (live'[r] = Held(r)' \/ Spilt(r)')
                            /\ pc' = "failed" /\ r = "program" => live'[r] = 0 \/ Spilt(r)'
            BY DEF HeldInv
        <3>1. live[r] \in Int /\ live[r] >= 0 /\ live[r] >= Held(r) /\ (live[r] = Held(r) \/ Spilt(r))
              /\ Held(r) \in Nat /\ (r = "module_buffer" => Held(r) = 0)
            BY <1>s, <1>0, <1>b, <2>0 DEF HeldInv, TypeInv, Held, One
        <3>2. live'[r] = IF module' = "loaded" /\ r = "module_buffer" THEN live[r] + 1 ELSE live[r]
            BY <1>0, <1>1, <2>0 DEF load_module, Fail, Acquire, TypeInv
        <3>3. r = "program" => live[r] = 0 \/ Spilt(r)
            BY <1>s, <2>0 DEF Finalizing
        <3>4. module' = "loaded" => pc' # "failed"
            BY <1>1, <2>0 DEF load_module, Fail
        <3>5. r = "module_buffer" => ~Spilt(r) /\ r # "program"
            BY DEF Spilt
        <3> QED BY <1>s, <2>4, <3>1, <3>2, <3>3, <3>4, <3>5 DEF Running
    <2> QED BY <2>1, <2>2, <2>3, <2>5 DEF LeakInv
<1>2. ASSUME get_agent_list PROVE LeakInv'
    <2>0. pc = "agents" /\ EachAgent
        BY <1>0, <1>2 DEF PlaceInv, get_agent_list
    <2>1. TypeInv'
        BY <1>0, <1>2 DEF get_agent_list, Fail, Acquire, TypeInv, Places, Setup, Ended, Resources
    <2>2. PlaceInv'
        BY <1>0, <1>a, <1>2, <2>0 DEF get_agent_list, Fail, PlaceInv, Setup, Finalizing
    <2>3. TestedInv'
        BY <1>0, <1>a, <1>2 DEF get_agent_list, TestedInv
    <2>4. ASSUME NEW r \in Resources, pc' \notin {"failed", "crashed"}
          PROVE  Held(r)' = IF r = "agent_list" THEN Held(r) + 1 ELSE Held(r)
        BY <1>0, <1>a, <1>2, <2>0, <2>4 DEF get_agent_list, Fail, Held, One, Finalizing, TypeInv
    <2>5. HeldInv'
        BY <1>s, <1>0, <1>b, <1>2, <2>0, <2>4
           DEF get_agent_list, Fail, Acquire, HeldInv, Running, Finalizing, TypeInv
    <2> QED BY <2>1, <2>2, <2>3, <2>5 DEF LeakInv
<1> QED BY <1>1, <1>2

(* The head of the loop keeps it. *)
LEMMA VisitLeak ==
    ASSUME LeakInv, visit_agent \/ agent_get_info_fails
    PROVE  LeakInv'
<1>0. TypeInv /\ PlaceInv /\ TestedInv /\ HeldInv
    BY DEF LeakInv
<1>s. /\ \A r \in Resources : Spilt(r) => Spilt(r)'
      /\ Running /\ (~Finalizing => live["program"] = 0 \/ Spilt("program"))
    BY Spills DEF Next
<1>a. test' = test /\ Body' = Body /\ EachAgent' = EachAgent /\ \A r \in Resources : Span(r)' = Span(r)
    BY SameBody DEF visit_agent, agent_get_info_fails
<1>1. pc = "loop" /\ EachAgent /\ step = 1 /\ ii \in 1..Len(machine) /\ machine \in Seq(Agents)
    BY <1>0, MachinesAssumption DEF visit_agent, agent_get_info_fails, PlaceInv, TypeInv
<1>2. ASSUME agent_get_info_fails PROVE LeakInv'
    <2>1. TypeInv'
        BY <1>0, <1>2 DEF agent_get_info_fails, Fail, TypeInv, Running, Places, Setup, Ended
    <2>2. PlaceInv' /\ TestedInv'
        BY <1>0, <1>a, <1>1, <1>2 DEF agent_get_info_fails, Fail, PlaceInv, TestedInv, Setup, Finalizing
    <2>3. HeldInv'
        BY <1>s, <1>0, <1>1, <1>2 DEF agent_get_info_fails, Fail, HeldInv, Running, Finalizing
    <2> QED BY <2>1, <2>2, <2>3 DEF LeakInv
<1>3. ASSUME visit_agent PROVE LeakInv'
    <2>1. /\ \/ pc' = "loop" /\ ii' = ii + 1
             \/ pc' = "body" /\ ii' = ii
          /\ UNCHANGED <<test, machine, step, fstep, module, live, tested>>
        BY <1>3 DEF visit_agent
    <2>2. TypeInv'
        BY <1>0, <1>1, <2>1 DEF TypeInv, Running, Places, Setup
    <2>3. PlaceInv'
        BY <1>0, <1>a, <1>1, <2>1, BodySteps DEF PlaceInv, Setup, Finalizing, TypeInv
    <2>4. TestedInv' /\ tested' \ {ii'} = tested \ {ii}
        BY <1>0, <1>a, <1>1, <2>1 DEF TestedInv, TypeInv
    <2>5. ASSUME NEW r \in Resources PROVE Held(r)' = Held(r)
        BY <1>0, <1>a, <1>1, <2>1, <2>4 DEF Held, One, Finalizing
    <2>6. HeldInv'
        BY <1>s, <1>0, <1>1, <2>1, <2>5 DEF HeldInv, Running
    <2> QED BY <2>2, <2>3, <2>4, <2>6 DEF LeakInv
<1> QED BY <1>2, <1>3

(* A call of the body keeps it: what it acquires or releases is what the   *)
(* spans say; a destroy that fails unnoticed leaves more.                  *)
LEMMA CallLeak ==
    ASSUME LeakInv, body_call
    PROVE  LeakInv'
<1> DEFINE kind == Body[step][1]
           call == Body[step][2]
           res == Body[step][3]
<1>0. TypeInv /\ PlaceInv /\ TestedInv /\ HeldInv
    BY DEF LeakInv
<1>s. /\ \A r \in Resources : Spilt(r) => Spilt(r)'
      /\ Running /\ (~Finalizing => live["program"] = 0 \/ Spilt("program"))
    BY Spills DEF Next
<1>a. test' = test /\ Body' = Body /\ EachAgent' = EachAgent /\ \A r \in Resources : Span(r)' = Span(r)
    BY SameBody DEF body_call
<1>b. ASSUME NEW r \in Resources PROVE Held(r) \in Nat
    BY <1>0, HeldIsNat
<1>1. pc = "body" /\ step \in 1..Len(Body) /\ Len(Body) \in Nat /\ ii \in DOMAIN machine
    BY <1>0, BodySteps DEF body_call, PlaceInv, TypeInv
<1>2. /\ kind \in {"make", "use", "drop", "discard"}
      /\ kind \in {"make", "drop", "discard"} => res \in Resources \ {"module_buffer", "agent_list", "program"}
      /\ EachAgent => (call = "dispatch" <=> step = 9)
      /\ call = "dispatch" => kind = "use"
      /\ kind = "discard" => call = "hsa_signal_destroy" /\ res = "completion_signal"
    BY <1>0, <1>1, BodySteps DEF Balanced, TypeInv
<1>3. ASSUME NEW r \in Resources
      PROVE  /\ (kind = "make" /\ r = res) => step \notin Span(r) /\ step + 1 \in Span(r)
             /\ (kind \in {"drop", "discard"} /\ r = res) => step \in Span(r) /\ step + 1 \notin Span(r)
             /\ (kind = "use" \/ r # res) => (step \in Span(r) <=> step + 1 \in Span(r))
    <2>1. Balanced(step) /\ Body[step] # Use("finalize")
        BY <1>0, <1>1, BodySteps DEF body_call, TypeInv
    <2>2. Gains(step) = IF kind = "make" THEN {res} ELSE {}
        BY <2>1 DEF Gains
    <2>3. Loses(step) = IF kind \in {"drop", "discard"} THEN {res} ELSE {}
        BY DEF Loses
    <2> QED BY <1>2, <2>1, <2>2, <2>3 DEF Balanced
<1>4. UNCHANGED <<test, machine, ii, fstep, module>>
    BY DEF body_call
<1>5. \/ /\ \/ kind = "make" /\ Acquire(res)
            \/ kind = "use" /\ UNCHANGED live
            \/ kind \in {"drop", "discard"} /\ Release(res)
         /\ tested' = IF call = "dispatch" THEN tested \cup {ii} ELSE tested
         /\ step' = step + 1 /\ UNCHANGED <<pc, faults>>
      \/ pc' = "failed" /\ UNCHANGED <<step, live, tested>>
      \/ /\ kind = "discard" /\ faults' = faults \cup {call}
         /\ step' = step + 1 /\ UNCHANGED <<pc, live, tested>>
    BY <1>2 DEF body_call, Fail
<1> HIDE DEF kind, call, res
<1>6. CASE pc' = "failed" /\ UNCHANGED <<step, live, tested>>
    <2>1. TypeInv'
        BY <1>0, <1>4, <1>6 DEF TypeInv, Running, Places, Ended
    <2>2. PlaceInv' /\ TestedInv'
        BY <1>0, <1>a, <1>4, <1>6 DEF PlaceInv, TestedInv, Setup, Finalizing
    <2>3. HeldInv'
        BY <1>s, <1>0, <1>1, <1>6 DEF HeldInv, Running, Finalizing
    <2> QED BY <2>1, <2>2, <2>3 DEF LeakInv
<1>7. ASSUME step' = step + 1, pc' = "body",
             tested' = IF call = "dispatch" THEN tested \cup {ii} ELSE tested,
             live' \in [Resources -> Int]
      PROVE  /\ TypeInv' /\ PlaceInv' /\ TestedInv'
             /\ tested' \ {ii'} = tested \ {ii}
    <2>0. step \in Nat /\ ii \in Nat /\ tested \in SUBSET Nat
        BY <1>0 DEF TypeInv
    <2>a. tested' \in SUBSET Nat /\ step' \in Nat
        BY <1>7, <2>0
    <2>1. TypeInv'
        BY <1>0, <1>4, <1>7, <2>a DEF TypeInv, Places
    <2>3. PlaceInv'
        BY <1>0, <1>a, <1>1, <1>4, <1>7 DEF PlaceInv, Setup, Finalizing, TypeInv
    <2>4. TestedInv'
        <3>1. CASE EachAgent /\ call = "dispatch"
            <4>1. tested' = tested \cup {ii} /\ step = 9 /\ ii >= 1 /\ tested \subseteq 1..ii
                BY <1>0, <1>2, <1>7, <3>1 DEF TestedInv, PlaceInv
            <4> QED BY <1>4, <1>7, <2>0, <4>1 DEF TestedInv
        <3>2. CASE EachAgent /\ call # "dispatch"
            <4>1. tested' = tested /\ step # 9
                BY <1>2, <1>7, <3>2
            <4> QED BY <1>0, <1>4, <1>7, <2>0, <3>2, <4>1 DEF TestedInv
        <3> QED BY <1>a, <3>1, <3>2 DEF TestedInv
    <2> QED BY <1>4, <1>7, <2>1, <2>3, <2>4
<1>8. CASE /\ \/ kind = "make" /\ Acquire(res)
              \/ kind = "use" /\ UNCHANGED live
              \/ kind \in {"drop", "discard"} /\ Release(res)
           /\ tested' = IF call = "dispatch" THEN tested \cup {ii} ELSE tested
           /\ step' = step + 1 /\ UNCHANGED <<pc, faults>>
    <2>1. live' \in [Resources -> Int]
        BY <1>0, <1>2, <1>8 DEF Acquire, Release, TypeInv
    <2>2. TypeInv' /\ PlaceInv' /\ TestedInv' /\ tested' \ {ii'} = tested \ {ii}
        BY <1>1, <1>7, <1>8, <2>1
    <2>3. ASSUME NEW r \in Resources
          PROVE  Held(r)' = Held(r) + (IF kind = "make" /\ r = res THEN 1
                                       ELSE IF kind \in {"drop", "discard"} /\ r = res THEN -1 ELSE 0)
        <3>1. Span(r)' = Span(r) /\ ~Finalizing /\ ~Finalizing'
            BY <1>a, <1>1, <1>8 DEF Finalizing
        <3>2. step' \in Span(r) <=> (IF kind = "make" /\ r = res THEN TRUE
                ELSE IF kind \in {"drop", "discard"} /\ r = res THEN FALSE ELSE step \in Span(r))
            BY <1>2, <1>3, <1>8
        <3>3. r \in {"module_buffer", "agent_list", "program"} => kind = "use" \/ r # res
            BY <1>2
        <3>4. CASE r = "code_object"
            <4>1. test = "aql_private_memory" => EachAgent
                BY DEF EachAgent
            <4>2. test = "aql_private_memory" => Cardinality(tested \ {ii}) \in Nat
                BY <1>0, <3>4, <4>1, HeldIsNat, FS_RemoveElement, FS_CardinalityType
            <4>3. (IF test = "aql_private_memory" THEN Cardinality(tested \ {ii}) ELSE 0)'
                    = IF test = "aql_private_memory" THEN Cardinality(tested \ {ii}) ELSE 0
                BY <1>4, <2>2
            <4> QED BY <1>3, <3>1, <3>2, <3>4, <4>2, <4>3 DEF Held, One
        <3>5. CASE r \in {"module_buffer", "agent_list", "program"}
            BY <1>a, <1>1, <1>4, <1>8, <3>1, <3>3, <3>5 DEF Held, One
        <3>6. CASE r \notin {"module_buffer", "agent_list", "program", "code_object"}
            BY <1>1, <1>3, <1>8, <3>1, <3>2, <3>6 DEF Held, One
        <3> QED BY <3>4, <3>5, <3>6
    <2>4. kind \in {"drop", "discard"} => Held(res) >= 1
        <3>1. ASSUME kind \in {"drop", "discard"}
              PROVE  /\ res \in Resources \ {"module_buffer", "agent_list", "program"}
                     /\ step \in Span(res)
            BY <1>2, <1>3, <3>1
        <3>2. test = "aql_private_memory" /\ kind \in {"drop", "discard"} =>
                  Cardinality(tested \ {ii}) \in Nat
            BY <1>0, <3>1, HeldIsNat, FS_RemoveElement, FS_CardinalityType DEF EachAgent
        <3> QED BY <1>1, <3>1, <3>2 DEF Held, One
    <2>5. ASSUME NEW r \in Resources
          PROVE  /\ live'[r] = live[r] + (IF kind = "make" /\ r = res THEN 1
                                       ELSE IF kind \in {"drop", "discard"} /\ r = res THEN -1 ELSE 0)
                 /\ live[r] \in Int
        BY <1>0, <1>2, <1>8 DEF TypeInv, Acquire, Release
    <2>6. HeldInv'
        BY <1>s, <1>0, <1>b, <1>1, <1>2, <1>8, <2>3, <2>4, <2>5 DEF HeldInv, Running
    <2> QED BY <2>2, <2>6 DEF LeakInv
<1>9. CASE /\ kind = "discard" /\ faults' = faults \cup {call}
           /\ step' = step + 1 /\ UNCHANGED <<pc, live, tested>>
    <2>0. call # "dispatch"
        BY <1>2, <1>9
    <2>2. TypeInv' /\ PlaceInv' /\ TestedInv' /\ tested' \ {ii'} = tested \ {ii}
        BY <1>0, <1>1, <1>7, <1>9, <2>0 DEF TypeInv
    <2>1. Spilt("completion_signal")' /\ res = "completion_signal"
        <3>1. call = "hsa_signal_destroy" /\ res = "completion_signal" /\ "hsa_signal_destroy" \in faults'
            BY <1>2, <1>9
        <3> QED BY <3>1 DEF Spilt
    <2>3. ASSUME NEW r \in Resources
          PROVE  Held(r)' <= Held(r) /\ Held(r)' \in Nat /\ (r # res => Held(r)' = Held(r))
        <3>1. Span(r)' = Span(r) /\ ~Finalizing /\ ~Finalizing'
            BY <1>a, <1>1, <1>9 DEF Finalizing
        <3>2. (step' \in Span(r) => step \in Span(r)) /\ (r # res => (step' \in Span(r) <=> step \in Span(r)))
            BY <1>2, <1>3, <1>9
        <3>3. CASE r = "code_object"
            <4>1. test = "aql_private_memory" => EachAgent
                BY DEF EachAgent
            <4>2. test = "aql_private_memory" => Cardinality(tested \ {ii}) \in Nat
                BY <1>0, <3>3, <4>1, HeldIsNat, FS_RemoveElement, FS_CardinalityType
            <4> QED BY <1>4, <2>2, <3>1, <3>2, <3>3, <4>2 DEF Held, One
        <3>4. CASE r # "code_object"
            BY <1>a, <1>1, <1>4, <1>9, <3>1, <3>2, <3>4 DEF Held, One
        <3> QED BY <3>3, <3>4
    <2>4. HeldInv'
        <3> SUFFICES ASSUME NEW r \in Resources
                     PROVE  /\ live'[r] >= 0 /\ live'[r] >= Held(r)'
                            /\ live'[r] = Held(r)' \/ Spilt(r)'
            BY <1>1, <1>9 DEF HeldInv
        <3>1. live'[r] \in Int /\ live[r] >= Held(r) /\ (live[r] = Held(r) \/ Spilt(r)) /\ live'[r] = live[r]
            BY <1>s, <1>0, <1>9 DEF HeldInv, TypeInv
        <3> QED BY <1>s, <1>b, <2>1, <2>3, <3>1
    <2> QED BY <2>2, <2>4 DEF LeakInv
<1> QED BY <1>5, <1>6, <1>8, <1>9

(* finalize_executable keeps it: its steps acquire in a fixed order, and   *)
(* the exit label destroys the program whatever happened.                  *)
LEMMA FinalizeLeak ==
    ASSUME LeakInv,
           finalize_begin \/ finalize_step \/ finalize_step_fails \/ finalize_crashes \/ finalize_exit
    PROVE  LeakInv'
<1>0. TypeInv /\ PlaceInv /\ TestedInv /\ HeldInv
    BY DEF LeakInv
<1>s. /\ \A r \in Resources : Spilt(r) => Spilt(r)'
      /\ Running /\ (~Finalizing => live["program"] = 0 \/ Spilt("program"))
    BY Spills DEF Next
<1>a. test' = test /\ Body' = Body /\ EachAgent' = EachAgent /\ \A r \in Resources : Span(r)' = Span(r)
    BY SameBody DEF finalize_begin, finalize_step, finalize_step_fails, finalize_crashes, finalize_exit
<1>b. ASSUME NEW r \in Resources PROVE Held(r) \in Nat
    BY <1>0, HeldIsNat
<1>c. /\ Len(FinalizeSteps) = 7
      /\ \A s \in 1..7 : FinalizeSteps[s][1] = "make" <=> s \in {1, 4, 5}
      /\ FinalizeSteps[1][3] = "program" /\ FinalizeSteps[4][3] = "code_object"
      /\ FinalizeSteps[5][3] = "executable"
    BY DEF FinalizeSteps, Make, Use
<1>d. Len(Body) \in Nat /\ test \in Tests
    BY <1>0, BodySteps DEF TypeInv
<1>e. Body[step] = Use("finalize") /\ step \in 1..Len(Body) =>
        /\ \A r \in {"executable", "code_object"} : step \notin Span(r) /\ step + 1 \in Span(r)
        /\ \A r \in Resources \ {"executable", "code_object"} : step \in Span(r) <=> step + 1 \in Span(r)
        /\ EachAgent => step # 9
    <2> SUFFICES ASSUME Body[step] = Use("finalize"), step \in 1..Len(Body)
                 PROVE  /\ \A r \in {"executable", "code_object"} : step \notin Span(r) /\ step + 1 \in Span(r)
                        /\ \A r \in Resources \ {"executable", "code_object"} :
                              step \in Span(r) <=> step + 1 \in Span(r)
                        /\ EachAgent => step # 9
        OBVIOUS
    <2>1. Balanced(step)
        BY <1>d, BodySteps
    <2>2. Gains(step) = {"executable", "code_object"} /\ Loses(step) = {}
        BY DEF Gains, Loses, Use
    <2>3. Body[step][2] # "dispatch" /\ {"executable", "code_object"} \subseteq Resources
        BY DEF Use, Resources
    <2> QED BY <2>1, <2>2, <2>3 DEF Balanced
<1>f. test = "aql_private_memory" => Cardinality(tested \ {ii}) \in Nat
    BY <1>0, HeldIsNat, FS_RemoveElement, FS_CardinalityType DEF EachAgent, Resources
<1>1. ASSUME finalize_begin PROVE LeakInv'
    <2>1. TypeInv'
        BY <1>0, <1>1 DEF finalize_begin, TypeInv, Places, Running, Setup
    <2>2. PlaceInv' /\ TestedInv'
        BY <1>0, <1>a, <1>c, <1>d, <1>1 DEF finalize_begin, PlaceInv, TestedInv, Setup, Finalizing
    <2>3. ASSUME NEW r \in Resources PROVE Held(r)' = Held(r)
        BY <1>a, <1>1 DEF finalize_begin, Held, One, Finalizing
    <2>4. HeldInv'
        BY <1>s, <1>0, <1>1, <2>3 DEF finalize_begin, HeldInv, Running
    <2> QED BY <2>1, <2>2, <2>4 DEF LeakInv
<1>2. ASSUME finalize_step PROVE LeakInv'
    <2>0. fstep \in 1..7 /\ pc = "finalize" /\ step \in 1..Len(Body) /\ Body[step] = Use("finalize")
        BY <1>0, <1>c, <1>2 DEF finalize_step, PlaceInv, Finalizing
    <2>1. PICK gained : gained = IF fstep = 1 THEN "program" ELSE IF fstep = 4 THEN "code_object"
                                 ELSE IF fstep = 5 THEN "executable" ELSE "none"
        OBVIOUS
    <2>a. IF gained = "none" THEN live' = live
          ELSE gained \in Resources /\ live' = [live EXCEPT ![gained] = @ + 1]
        BY <1>c, <1>2, <2>0, <2>1 DEF finalize_step, Acquire, Resources
    <2>2. \A r \in Resources : live[r] \in Int /\ live'[r] = IF r = gained THEN live[r] + 1 ELSE live[r]
        BY <1>0, <2>a DEF TypeInv, Resources
    <2>3. live' \in [Resources -> Int]
        BY <1>0, <2>a DEF TypeInv
    <2>4. TypeInv'
        BY <1>0, <1>2, <2>3 DEF finalize_step, TypeInv, Running
    <2>5. PlaceInv' /\ TestedInv'
        BY <1>0, <1>a, <1>c, <1>2, <2>0 DEF finalize_step, PlaceInv, TestedInv, Setup, Finalizing
    <2>6. ASSUME NEW r \in Resources PROVE Held(r)' = IF r = gained THEN Held(r) + 1 ELSE Held(r)
        <3>1. CASE r = "code_object"
            <4>1. (IF test = "aql_private_memory" THEN Cardinality(tested \ {ii}) ELSE 0)'
                    = IF test = "aql_private_memory" THEN Cardinality(tested \ {ii}) ELSE 0
                BY <1>2 DEF finalize_step
            <4>2. step \notin Span(r) /\ step' \notin Span(r)' /\ pc' = "finalize" /\ fstep' = fstep + 1
                BY <1>a, <1>e, <1>2, <2>0, <3>1 DEF finalize_step
            <4> QED BY <1>f, <2>0, <2>1, <3>1, <4>1, <4>2 DEF Held, One, Finalizing
        <3>2. CASE r # "code_object"
            BY <1>a, <1>e, <1>2, <2>0, <2>1, <3>2 DEF finalize_step, Held, One, Finalizing, Resources
        <3> QED BY <3>1, <3>2
    <2>7. HeldInv'
        BY <1>s, <1>0, <1>b, <1>2, <2>2, <2>6 DEF finalize_step, HeldInv, Running
    <2> QED BY <2>4, <2>5, <2>7 DEF LeakInv
<1>3. ASSUME finalize_step_fails \/ finalize_crashes PROVE LeakInv'
    <2>1. /\ pc = "finalize" /\ UNCHANGED <<test, machine, ii, step, fstep, module, live, tested>>
          /\ pc' \in {"finalize_error", "crashed"}
        BY <1>3 DEF finalize_step_fails, finalize_crashes
    <2>2. TypeInv'
        BY <1>0, <2>1 DEF TypeInv, Places, Ended, Running, Setup
    <2>3. PlaceInv' /\ TestedInv'
        BY <1>0, <1>a, <2>1 DEF PlaceInv, TestedInv, Setup, Finalizing
    <2>4. ASSUME NEW r \in Resources, pc' = "finalize_error" PROVE Held(r)' = Held(r)
        BY <1>a, <2>1, <2>4 DEF Held, One, Finalizing
    <2>5. HeldInv'
        BY <1>s, <1>0, <2>1, <2>4 DEF HeldInv, Running
    <2> QED BY <2>2, <2>3, <2>5 DEF LeakInv
<1>4. ASSUME finalize_exit PROVE LeakInv'
    <2>0. /\ Finalizing /\ step \in 1..Len(Body) /\ Body[step] = Use("finalize") /\ fstep \in 1..8
          /\ UNCHANGED <<test, machine, ii, fstep, module, tested>>
          /\ \/ pc = "finalize" /\ fstep = 8 /\ pc' = "body" /\ step' = step + 1
             \/ pc' = "failed" /\ step' = step
        BY <1>0, <1>c, <1>4 DEF finalize_exit, PlaceInv, Finalizing
    <2>1. /\ live' \in [Resources -> Int]
          /\ \A r \in Resources :
                /\ live'[r] >= IF r = "program" /\ fstep > 1 THEN live[r] - 1 ELSE live[r]
                /\ \/ live'[r] = IF r = "program" /\ fstep > 1 THEN live[r] - 1 ELSE live[r]
                   \/ Spilt(r)'
                /\ live[r] \in Int
        <3>1. CASE live' = [live EXCEPT !["program"] = IF fstep > 1 THEN @ - 1 ELSE @] /\ UNCHANGED faults
            BY <1>0, <3>1 DEF TypeInv, Resources
        <3>2. CASE faults' = faults \cup {"hsa_ext_program_destroy"} /\ UNCHANGED live
            BY <1>0, <3>2 DEF TypeInv, Spilt
        <3> QED BY <1>4, <3>1, <3>2 DEF finalize_exit
    <2>2. TypeInv'
        BY <1>0, <2>0, <2>1 DEF TypeInv, Places, Ended, Running, Setup, Finalizing
    <2>3. PlaceInv' /\ TestedInv'
        BY <1>0, <1>a, <1>d, <1>e, <2>0 DEF PlaceInv, TestedInv, Setup, Finalizing, TypeInv
    <2>4. Held("program") = IF fstep > 1 THEN 1 ELSE 0
        BY <2>0 DEF Held, One
    <2>5. ASSUME NEW r \in Resources, pc' = "body"
          PROVE  Held(r)' = IF r = "program" THEN Held(r) - 1 ELSE Held(r)
        <3>0. ~(Finalizing') /\ fstep = 8 /\ Span(r)' = Span(r) /\ pc = "finalize"
            BY <1>a, <2>0, <2>5 DEF Finalizing
        <3>1. CASE r = "code_object"
            BY <1>b, <1>e, <2>0, <2>5, <3>0, <3>1 DEF Held, One
        <3>2. CASE r # "code_object"
            BY <1>a, <1>e, <2>0, <2>5, <3>0, <3>2 DEF Held, One, Resources
        <3> QED BY <3>1, <3>2
    <2>6. HeldInv'
        <3>1. "program" \in Resources /\ Running
            BY <2>0 DEF Resources, Running, Finalizing
        <3>2. CASE pc' = "failed"
            BY <1>s, <1>0, <1>b, <2>1, <2>4, <3>1, <3>2 DEF HeldInv, Running
        <3>3. CASE pc' = "body" /\ fstep = 8
            BY <1>s, <1>0, <1>b, <2>1, <2>4, <2>5, <3>1, <3>3 DEF HeldInv, Running
        <3> QED BY <2>0, <3>2, <3>3
    <2> QED BY <2>2, <2>3, <2>6 DEF LeakInv
<1> QED BY <1>1, <1>2, <1>3, <1>4

(* The end of an iteration and of the test keep it. *)
LEMMA EndLeak ==
    ASSUME LeakInv, body_end \/ destroy_module \/ shut_down
    PROVE  LeakInv'
<1>0. TypeInv /\ PlaceInv /\ TestedInv /\ HeldInv
    BY DEF LeakInv
<1>s. /\ \A r \in Resources : Spilt(r) => Spilt(r)'
      /\ Running /\ (~Finalizing => live["program"] = 0 \/ Spilt("program"))
    BY Spills DEF Next
<1>a. test' = test /\ Body' = Body /\ EachAgent' = EachAgent /\ \A r \in Resources : Span(r)' = Span(r)
    BY SameBody DEF body_end, destroy_module, shut_down
<1>b. ASSUME NEW r \in Resources PROVE Held(r) \in Nat
    BY <1>0, HeldIsNat
<1>c. test \in Tests /\ Len(Body) \in Nat /\ (EachAgent => Len(Body) >= 15)
    BY <1>0, BodySteps DEF TypeInv
<1>d. machine \in Seq(Agents)
    BY <1>0, MachinesAssumption DEF TypeInv
<1>1. ASSUME body_end PROVE LeakInv'
    <2>0. /\ pc = "body" /\ step = Len(Body) + 1 /\ ii \in DOMAIN machine
          /\ UNCHANGED <<test, machine, fstep, module, live, tested, faults>>
          /\ IF EachAgent THEN pc' = "loop" /\ ii' = ii + 1 /\ step' = 1
             ELSE pc' = "shut_down" /\ ii' = ii /\ step' = step
        BY <1>0, <1>c, <1>1 DEF body_end, PlaceInv, TypeInv
    <2>1. TypeInv'
        BY <1>0, <2>0 DEF TypeInv, Running, Places, Setup
    <2>2. PlaceInv'
        BY <1>0, <1>a, <1>c, <1>d, <2>0 DEF PlaceInv, Setup, Finalizing, TypeInv
    <2>3. TestedInv'
        BY <1>0, <1>a, <1>c, <2>0 DEF TestedInv, TypeInv
    <2>4. test = "aql_private_memory" =>
            /\ tested' \ {ii'} = tested
            /\ Cardinality(tested \ {ii}) \in Nat
            /\ Cardinality(tested) = Cardinality(tested \ {ii}) + 1
        <3> SUFFICES ASSUME EachAgent
                     PROVE  /\ tested' \ {ii'} = tested
                            /\ Cardinality(tested \ {ii}) \in Nat
                            /\ Cardinality(tested) = Cardinality(tested \ {ii}) + 1
            BY DEF EachAgent
        <3>1. ii \in tested /\ tested \subseteq 1..ii /\ ii \in Nat
            <4>1. step > 9
                BY <1>c, <2>0
            <4> QED BY <1>0, <4>1 DEF TestedInv, TypeInv
        <3>2. IsFiniteSet(tested) /\ IsFiniteSet(tested \ {ii})
            BY <1>0, HeldIsNat, FS_RemoveElement DEF Resources
        <3>3. Cardinality(tested) \in Nat /\ Cardinality(tested \ {ii}) \in Nat
            BY <3>2, FS_CardinalityType
        <3>4. Cardinality(tested \ {ii}) = Cardinality(tested) - 1
            BY <3>1, <3>2, FS_RemoveElement
        <3>5. tested' \ {ii'} = tested
            BY <2>0, <3>1
        <3> QED BY <3>3, <3>4, <3>5
    <2>5. ASSUME NEW r \in Resources PROVE Held(r)' = Held(r)
        <3>0. ~Finalizing /\ ~(Finalizing') /\ Span(r)' = Span(r)
            BY <1>a, <2>0 DEF Finalizing
        <3>1. /\ step \in Span(r) <=> (test = "aql_private_memory" /\ r = "code_object")
              /\ EachAgent => (step' \notin Span(r))
              /\ ~EachAgent => (step' \in Span(r) <=> step \in Span(r))
            <4>1. /\ Len(Body) + 1 \in Span(r) <=> (test = "aql_private_memory" /\ r = "code_object")
                  /\ EachAgent => 1 \notin Span(r)
                BY <1>c, BodyEnds
            <4> QED BY <2>0, <4>1
        <3>2. CASE r = "code_object" /\ test = "aql_private_memory"
            <4>1. EachAgent
                BY <3>2 DEF EachAgent
            <4>2. Held(r) = 1 + Cardinality(tested \ {ii})
                BY <3>1, <3>2 DEF Held, One
            <4>3. Held(r)' = 0 + Cardinality(tested)
                BY <1>a, <2>0, <2>4, <3>0, <3>1, <3>2, <4>1 DEF Held, One
            <4> QED BY <2>4, <3>2, <4>2, <4>3
        <3>3. CASE ~(r = "code_object" /\ test = "aql_private_memory")
            BY <1>a, <2>0, <3>0, <3>1, <3>3 DEF Held, One
        <3> QED BY <3>2, <3>3
    <2>6. HeldInv'
        BY <1>s, <1>0, <2>0, <2>5 DEF HeldInv, Running
    <2> QED BY <2>1, <2>2, <2>3, <2>6 DEF LeakInv
<1>2. ASSUME destroy_module PROVE LeakInv'
    <2>0. /\ pc = "loop" /\ EachAgent /\ step = 1 /\ ii > Len(machine) /\ "module_buffer" \in Resources
          /\ UNCHANGED <<test, machine, ii, step, fstep, module, tested, faults>>
          /\ \/ module = "loaded" /\ Release("module_buffer") /\ pc' = "shut_down"
             \/ module = "undefined" /\ pc' \in {"shut_down", "crashed"} /\ UNCHANGED live
        BY <1>0, <1>2 DEF destroy_module, PlaceInv, Resources
    <2>1. TypeInv'
        BY <1>0, <2>0 DEF TypeInv, Running, Places, Setup, Ended, Release
    <2>2. PlaceInv' /\ TestedInv'
        BY <1>0, <1>a, <2>0 DEF PlaceInv, TestedInv, Setup, Finalizing
    <2>3. ASSUME NEW r \in Resources, pc' = "shut_down"
          PROVE  Held(r)' = IF r = "module_buffer" THEN 0 ELSE Held(r)
        BY <1>a, <2>0, <2>3 DEF Held, One, Finalizing
    <2>4. Held("module_buffer") = IF module = "loaded" THEN 1 ELSE 0
        BY <2>0 DEF Held, One
    <2>5. HeldInv'
        <3>1. CASE module = "undefined" /\ pc' \in {"shut_down", "crashed"} /\ UNCHANGED live
            BY <1>s, <1>0, <1>b, <2>0, <2>3, <2>4, <3>1 DEF HeldInv, Running
        <3>2. CASE module = "loaded" /\ Release("module_buffer") /\ pc' = "shut_down"
            BY <1>s, <1>0, <1>b, <2>0, <2>3, <2>4, <3>2 DEF HeldInv, Running, Release, TypeInv
        <3> QED BY <2>0, <3>1, <3>2
    <2> QED BY <2>1, <2>2, <2>5 DEF LeakInv
<1>3. ASSUME shut_down PROVE LeakInv'
    <2>0. /\ pc = "shut_down" /\ "agent_list" \in Resources
          /\ UNCHANGED <<test, machine, ii, step, fstep, module, tested>>
          /\ \/ /\ IF EachAgent THEN Release("agent_list") ELSE UNCHANGED live
                /\ pc' = "passed" /\ UNCHANGED faults
             \/ pc' = "failed" /\ UNCHANGED live
        BY <1>3 DEF shut_down, Fail, Resources
    <2>1. TypeInv'
        BY <1>0, <2>0 DEF TypeInv, Running, Places, Setup, Ended, Release
    <2>2. PlaceInv' /\ TestedInv'
        BY <1>0, <1>a, <2>0 DEF PlaceInv, TestedInv, Setup, Finalizing
    <2>3. ASSUME NEW r \in Resources, pc' = "passed"
          PROVE  Held(r)' = IF r = "agent_list" THEN 0 ELSE Held(r)
        BY <1>a, <2>0, <2>3 DEF Held, One, Finalizing
    <2>4. Held("agent_list") = IF EachAgent THEN 1 ELSE 0
        BY <2>0 DEF Held, One
    <2>5. HeldInv'
        <3>1. CASE pc' = "failed" /\ UNCHANGED live
            BY <1>s, <1>0, <2>0, <3>1 DEF HeldInv, Running, Finalizing
        <3>2. CASE /\ IF EachAgent THEN Release("agent_list") ELSE UNCHANGED live
                   /\ pc' = "passed" /\ UNCHANGED faults
            BY <1>s, <1>0, <1>b, <2>0, <2>3, <2>4, <3>2 DEF HeldInv, Running, Release, TypeInv
        <3> QED BY <2>0, <3>1, <3>2
    <2> QED BY <2>1, <2>2, <2>5 DEF LeakInv
<1> QED BY <1>1, <1>2, <1>3

(* Stuttering keeps it. *)
LEMMA StutterLeak == ASSUME LeakInv, UNCHANGED vars PROVE LeakInv'
<1>1. TypeInv /\ PlaceInv /\ TestedInv /\ HeldInv /\ test' = test
    BY DEF LeakInv, vars
<1>2. Body' = Body /\ EachAgent' = EachAgent /\ \A r \in Resources : Span(r)' = Span(r)
    BY <1>1, SameBody
<1>3. TypeInv' /\ PlaceInv' /\ TestedInv'
    BY <1>1, <1>2 DEF vars, TypeInv, PlaceInv, TestedInv, Finalizing, Running
<1>4. ASSUME NEW r \in Resources PROVE Held(r)' = Held(r)
    BY <1>2 DEF vars, Held, One, Finalizing
<1>5. HeldInv'
    BY <1>1, <1>4 DEF HeldInv, Running, Spilt, vars
<1> QED BY <1>3, <1>5 DEF LeakInv

(* Every step keeps it. *)
LEMMA NextLeak == ASSUME LeakInv, [Next]_vars PROVE LeakInv'
BY SetupLeak, LoadLeak, VisitLeak, CallLeak, FinalizeLeak, EndLeak, StutterLeak DEF Next

(* At every moment, whatever calls have failed, a test holds what its      *)
(* position in the code says, or more of what was spilt.                   *)
THEOREM LeakInvariant == Spec => []LeakInv
BY InitLeak, NextLeak, PTL DEF Spec

(* The statement of NothingLeaks follows from where a passed test is. *)
LEMMA PassedHolds == LeakInv => NothingLeaks
<1> SUFFICES ASSUME LeakInv PROVE NothingLeaks
    OBVIOUS
<1>1. TypeInv /\ PlaceInv /\ TestedInv /\ HeldInv
    BY DEF LeakInv
<1>2. ASSUME NEW r \in Resources, pc = "passed" PROVE live[r] <= Forgotten(r) \/ Spilt(r)
    <2>1. (live[r] = Held(r) \/ Spilt(r)) /\ ~Finalizing
        BY <1>1, <1>2 DEF HeldInv, Running, Finalizing
    <2>2. step \notin Span(r)
        <3>1. CASE EachAgent
            <4>1. step = 1
                BY <1>1, <1>2, <3>1 DEF PlaceInv
            <4> QED BY <1>1, <3>1, <4>1, BodyEnds DEF TypeInv
        <3>2. CASE ~EachAgent
            <4>1. step = Len(Body) + 1 /\ test # "aql_private_memory"
                BY <1>1, <1>2, <3>2 DEF PlaceInv, EachAgent
            <4> QED BY <1>1, <4>1, BodyEnds DEF TypeInv
        <3> QED BY <3>1, <3>2
    <2>3. test = "aql_private_memory" => tested \ {ii} = tested
        <3>1. test = "aql_private_memory" => EachAgent
            BY DEF EachAgent
        <3>2. EachAgent => step = 1
            BY <1>1, <1>2 DEF PlaceInv
        <3> QED BY <1>1, <3>1, <3>2 DEF TestedInv, TypeInv
    <2>4. test = "aql_private_memory" => Cardinality(tested) \in Nat
        BY <1>1, HeldIsNat, FS_CardinalityType DEF EachAgent, Resources
    <2>5. CASE r = "code_object"
        <3>1. Held(r) = IF test = "aql_private_memory" THEN Cardinality(tested) ELSE 0
            BY <2>1, <2>2, <2>3, <2>4, <2>5 DEF Held, One
        <3>2. Forgotten(r) = IF test = "aql_private_memory" THEN Cardinality(tested) ELSE 0
            BY <2>5 DEF Forgotten
        <3> QED BY <2>1, <2>4, <3>1, <3>2
    <2>6. CASE r # "code_object"
        BY <1>2, <2>1, <2>2, <2>6 DEF Held, One, Forgotten
    <2> QED BY <2>5, <2>6
<1> QED BY <1>1, <1>2 DEF NothingLeaks, HeldInv

(* Whatever calls fail, no resource is released twice, a test that passes  *)
(* holds at most what its source forgets or an ignored destroy has left,   *)
(* and finalize_executable always gets rid of its program.                 *)
THEOREM ResourcesBalance == Spec => []NothingLeaks
BY LeakInvariant, PassedHolds, PTL

-----------------------------------------------------------------------------
(* No call has failed in an initial state. *)
LEMMA InitSurface == Init => SurfaceInv
BY DEF Init, SurfaceInv, FinalizeAt

(* Every step keeps track of what went unnoticed. *)
LEMMA NextSurface == ASSUME LeakInv, SurfaceInv, [Next]_vars PROVE SurfaceInv'
<1>0. TypeInv /\ PlaceInv
    BY DEF LeakInv
<1>1. CASE UNCHANGED vars
    BY <1>1 DEF vars, SurfaceInv, Running, Ignored, EachAgent, FinalizeAt
<1> SUFFICES ASSUME Next, Running', pc' # "finalize_error"
             PROVE  /\ faults' \subseteq (Ignored \cup Load)'
                    /\ EachAgent' => "fseek" \notin faults'
                    /\ module' = "loaded" \/ pc' \in Setup => faults' \cap Load = {}
                    /\ (step' > FinalizeAt' \/ tested' # {} \/ (pc' = "finalize" /\ fstep' > 2)) => module' = "loaded"
    BY <1>1 DEF SurfaceInv, Load
<1>2. test' = test
    BY DEF Next, hsa_init, load_module, get_agent_list, select_agent, select_queue, select_regions,
       visit_agent, agent_get_info_fails, body_call, finalize_begin, finalize_step, finalize_step_fails,
       finalize_crashes, finalize_exit, body_end, destroy_module, shut_down
<1>3. /\ EachAgent' = EachAgent /\ FinalizeAt' = FinalizeAt /\ (Ignored \cup Load)' = Ignored \cup Load
      /\ FinalizeAt \in 1..3 /\ step \in Nat /\ fstep \in Nat
    BY <1>0, <1>2 DEF EachAgent, FinalizeAt, Ignored, Load, TypeInv
<1>4. pc # "finalize_error" /\ Running =>
        /\ faults \subseteq Ignored \cup Load
        /\ EachAgent => "fseek" \notin faults
        /\ module = "loaded" \/ pc \in Setup => faults \cap Load = {}
        /\ (step > FinalizeAt \/ tested # {} \/ (pc = "finalize" /\ fstep > 2)) => module = "loaded"
    BY DEF SurfaceInv
<1>5. CASE hsa_init \/ select_queue \/ select_regions \/ get_agent_list \/ agent_get_info_fails \/ shut_down
    <2>1. /\ UNCHANGED <<faults, module, step, tested, fstep>> /\ pc \notin {"failed", "crashed", "finalize_error"}
          /\ pc' # "finalize" /\ (pc' \in Setup => pc \in Setup)
        BY <1>5 DEF hsa_init, select_queue, select_regions, get_agent_list, agent_get_info_fails, shut_down,
           Fail, Running, Setup
    <2> QED BY <1>3, <1>4, <2>1 DEF Running
<1>6. CASE select_agent
    <2>1. /\ UNCHANGED <<module, step, tested, fstep>> /\ pc = "select" /\ pc' = "select_queue"
          /\ faults' \subseteq faults \cup {"hsa_agent_get_info"}
        BY <1>6 DEF select_agent, Fail, Running
    <2>2. ~EachAgent
        BY <1>0, <2>1 DEF PlaceInv
    <2>3. "hsa_agent_get_info" \in Ignored /\ "hsa_agent_get_info" \notin Load
        BY <2>2 DEF Ignored, Load
    <2> QED BY <1>3, <1>4, <2>1, <2>2, <2>3 DEF Running, Setup
<1>7. CASE load_module
    <2>0. pc = "load" /\ step = 1 /\ module = "undefined" /\ faults \cap Load = {} /\ tested = {}
        BY <1>0, <1>3, <1>4, <1>7 DEF load_module, PlaceInv, Setup, Running
    <2>1. /\ UNCHANGED <<step, tested, fstep>> /\ pc' = (IF EachAgent THEN "agents" ELSE "body")
          /\ \/ module' = "loaded" /\ faults' = faults
             \/ module' = module /\ \E call \in Load : faults' = faults \cup {call} /\ (EachAgent => call # "fseek")
        BY <1>7 DEF load_module, Fail, Running, Load
    <2> QED BY <1>3, <1>4, <2>0, <2>1 DEF Running, Setup
<1>8. CASE visit_agent
    <2>1. /\ UNCHANGED <<module, step, tested, fstep>> /\ pc = "loop" /\ pc' \in {"loop", "body"}
          /\ faults' \subseteq faults \cup {"hsa_agent_iterate_regions"}
        BY <1>8 DEF visit_agent
    <2>2. EachAgent
        BY <1>0, <2>1 DEF PlaceInv
    <2>3. "hsa_agent_iterate_regions" \in Ignored /\ "hsa_agent_iterate_regions" \notin Load
        BY <2>2 DEF Ignored, Load
    <2> QED BY <1>3, <1>4, <2>1, <2>3 DEF Running, Setup
<1>9. CASE body_call
    <2>0. /\ pc = "body" /\ step \in 1..Len(Body) /\ Len(Body) \in Nat /\ Balanced(step)
          /\ Body[step] # Use("finalize")
        BY <1>0, <1>9, BodySteps DEF body_call, PlaceInv, TypeInv
    <2>1. step # FinalizeAt /\ (Body[step][2] = "dispatch" => step > FinalizeAt)
        <3>1. FinalizeAt <= AllocateAt /\ AllocateAt \in Nat
            BY DEF FinalizeAt, AllocateAt
        <3> QED BY <1>3, <2>0, <3>1 DEF Balanced
    <2>2. /\ UNCHANGED <<module, pc, fstep>> /\ step' = step + 1
          /\ tested' = tested \/ Body[step][2] = "dispatch"
          /\ \/ faults' = faults
             \/ Body[step][1] = "discard" /\ faults' = faults \cup {Body[step][2]}
        BY <1>9 DEF body_call, Fail, Running
    <2>3. Body[step][1] = "discard" => Body[step][2] \in Ignored /\ Body[step][2] \notin Load
        <3>1. Body[step][1] = "discard" => Body[step][2] = "hsa_signal_destroy" /\ EachAgent
            <4>1. ~EachAgent => Body[step][1] # "discard"
                <5>1. ASSUME ~EachAgent PROVE test = "code_recursive_kernel_function"
                    BY <5>1 DEF EachAgent
                <5>2. ASSUME ~EachAgent PROVE Len(Body) = 12
                    BY <5>1, <5>2, RecursiveBody
                <5> QED BY <2>0, <5>1, <5>2 DEF Body, Make, Use, Drop, Discard
            <4> QED BY <2>0, <4>1 DEF Balanced
        <3> QED BY <3>1 DEF Ignored, Load
    <2>4. step > FinalizeAt \/ tested # {} => module = "loaded"
        BY <1>4, <2>0 DEF Running
    <2>5. step' > FinalizeAt \/ tested' # {} => module' = "loaded"
        BY <1>3, <2>1, <2>2, <2>4
    <2>6. /\ faults' \subseteq Ignored \cup Load /\ faults' \cap Load = faults \cap Load
          /\ "fseek" \in faults' => "fseek" \in faults
        BY <1>4, <2>0, <2>2, <2>3 DEF Running, Load
    <2> QED BY <1>3, <1>4, <2>0, <2>2, <2>5, <2>6 DEF Running, Setup
<1>10. CASE finalize_begin
    BY <1>3, <1>4, <1>10 DEF finalize_begin, Running, Setup
<1>11. CASE finalize_step
    <2>1. fstep \in 1..7 /\ pc = "finalize" /\ (fstep = 2 => module = "loaded")
          /\ UNCHANGED <<module, pc, step, tested, faults>> /\ fstep' = fstep + 1
        <3>1. Len(FinalizeSteps) = 7 /\ FinalizeSteps[2][2] = "hsa_ext_program_add_module"
            BY DEF FinalizeSteps, Make, Use
        <3> QED BY <1>0, <1>11, <3>1 DEF finalize_step, PlaceInv, Finalizing
    <2> QED BY <1>3, <1>4, <2>1 DEF Running, Setup
<1>12. CASE finalize_exit
    <2>1. /\ pc = "finalize" /\ fstep > 7 /\ pc' = "body" /\ UNCHANGED <<module, tested, fstep>>
          /\ step' = step + 1 /\ faults' \subseteq faults \cup {"hsa_ext_program_destroy"}
        <3>1. Len(FinalizeSteps) = 7
            BY DEF FinalizeSteps
        <3> QED BY <1>12, <3>1 DEF finalize_exit, Running
    <2>2. "hsa_ext_program_destroy" \in Ignored /\ "hsa_ext_program_destroy" \notin Load
        BY DEF Ignored, Load
    <2> QED BY <1>3, <1>4, <2>1, <2>2 DEF Running, Setup
<1>13. CASE body_end \/ destroy_module
    <2>1. /\ UNCHANGED <<module, tested, faults, fstep>> /\ pc \in {"body", "loop"}
          /\ pc' \notin Setup \cup {"finalize"} /\ step' \in {1, step}
        BY <1>13 DEF body_end, destroy_module, Running, Setup
    <2> QED BY <1>3, <1>4, <2>1 DEF Running
<1> QED BY <1>5, <1>6, <1>7, <1>8, <1>9, <1>10, <1>11, <1>12, <1>13
        DEF Next, Running, finalize_step_fails, finalize_crashes

(* Whatever calls fail: a test passes only if every one of them is of the  *)
(* kind whose status the code never looks at, and a module that could not  *)
(* be read (load_module_from_file) goes unnoticed only when no kernel      *)
(* needed it.                                                              *)
THEOREM FailuresSurface == Spec => []ErrorsSurface
<1>1. LeakInv /\ SurfaceInv => ErrorsSurface
    <2> SUFFICES ASSUME LeakInv, SurfaceInv, pc = "passed" PROVE faults \subseteq Unnoticed
        BY DEF ErrorsSurface
    <2>1. /\ faults \subseteq Ignored \cup Load
          /\ EachAgent => "fseek" \notin faults
          /\ module = "loaded" => faults \cap Load = {}
          /\ step > FinalizeAt \/ tested # {} => module = "loaded"
        BY DEF SurfaceInv, Running
    <2>2. ~EachAgent => step > FinalizeAt
        <3>1. ~EachAgent => FinalizeAt = 1
            BY DEF EachAgent, FinalizeAt
        <3>2. ~EachAgent => step = Len(Body) + 1 /\ Len(Body) \in Nat /\ Len(Body) >= 12
            BY BodySteps DEF LeakInv, TypeInv, PlaceInv
        <3> QED BY <3>1, <3>2
    <2> QED BY <2>1, <2>2 DEF Unnoticed, Ignored, Load
<1> QED BY <1>1, InitSurface, NextSurface, LeakInvariant, PTL DEF Spec

-----------------------------------------------------------------------------
(* What an agent has does not change. *)
LEMMA SameAgents ==
    ASSUME test' = test, machine' = machine
    PROVE  /\ EachAgent' = EachAgent /\ AllocateAt' = AllocateAt
           /\ \A n \in Nat : Capable(n)' <=> Capable(n)
           /\ tested' = tested => (KernelsHaveTheirMemory' <=> KernelsHaveTheirMemory)
BY DEF EachAgent, AllocateAt, Capable, KernelsHaveTheirMemory

(* Nothing has run in an initial state. *)
LEMMA InitMemory == Init => MemoryInv
BY DEF Init, MemoryInv, KernelsHaveTheirMemory, AtAgent, Finalizing

(* Every step finds, keeps and uses the regions of the agent it is at. *)
LEMMA NextMemory == ASSUME LeakInv, MemoryInv, [Next]_vars PROVE MemoryInv'
<1>0. TypeInv /\ PlaceInv /\ TestedInv /\ KernelsHaveTheirMemory
    BY DEF LeakInv, MemoryInv
<1>1. test' = test /\ machine' = machine
    BY DEF Next, vars, hsa_init, load_module, get_agent_list, select_agent, select_queue, select_regions,
       visit_agent, agent_get_info_fails, body_call, finalize_begin, finalize_step, finalize_step_fails,
       finalize_crashes, finalize_exit, body_end, destroy_module, shut_down
<1>2. /\ EachAgent' = EachAgent /\ AllocateAt' = AllocateAt /\ AllocateAt \in 3..5
      /\ tested' = tested => KernelsHaveTheirMemory'
      /\ step \in Nat /\ machine \in Machines /\ machine \in Seq(Agents)
    BY <1>0, <1>1, SameAgents, MachinesAssumption DEF AllocateAt, TypeInv
<1>3. ASSUME AtAgent
      PROVE  /\ global_region # NoRegion => global_region = FineGrainedRegion(machine[ii].regions)
             /\ step > AllocateAt => global_region # NoRegion
             /\ KernargRegion(machine[ii].regions) # NoRegion
             /\ EachAgent => /\ "kernel_dispatch" \in machine[ii].feature
                             /\ test = "aql_group_memory" => GroupRegion(machine[ii].regions) # NoRegion
    BY <1>3 DEF MemoryInv, Agent
<1>4. ASSUME tested' = tested, ~(AtAgent') PROVE MemoryInv'
    BY <1>2, <1>4 DEF MemoryInv
<1>5. ASSUME tested' = tested, AtAgent, ii' = ii, global_region' = global_region,
             step' > AllocateAt => step > AllocateAt
      PROVE  MemoryInv'
    BY <1>1, <1>2, <1>3, <1>5 DEF MemoryInv, Agent
<1>6. CASE UNCHANGED vars
    <2>1. AtAgent' <=> AtAgent
        BY <1>2, <1>6 DEF vars, AtAgent, Finalizing
    <2> QED BY <1>4, <1>5, <1>6, <2>1 DEF vars
<1>7. CASE hsa_init \/ select_agent \/ select_queue \/ get_agent_list \/ agent_get_info_fails
    <2>1. tested' = tested /\ ~(AtAgent')
        BY <1>2, <1>7 DEF hsa_init, select_agent, select_queue, get_agent_list, agent_get_info_fails, Fail,
           AtAgent, Finalizing
    <2> QED BY <1>4, <2>1
<1>8. CASE body_end \/ destroy_module \/ shut_down
    <2>1. tested' = tested /\ ~(AtAgent')
        BY <1>8 DEF body_end, destroy_module, shut_down, Fail, AtAgent, Finalizing
    <2> QED BY <1>4, <2>1
<1>9. CASE select_regions
    <2>1. tested' = tested /\ ii' = ii /\ step' = step /\ step = 1
        BY <1>0, <1>9 DEF select_regions, PlaceInv, Setup
    <2>2. CASE pc' = "load"
        <3>1. /\ global_region' = FineGrainedRegion(machine[ii].regions)
              /\ KernargRegion(machine[ii].regions) # NoRegion /\ ~EachAgent
            BY <1>0, <1>9, <2>2 DEF select_regions, Agent, PlaceInv, Fail
        <3> QED BY <1>1, <1>2, <2>1, <3>1 DEF MemoryInv, Agent
    <2>3. CASE pc' # "load"
        BY <1>4, <1>9, <2>1, <2>3 DEF select_regions, Fail, AtAgent, Finalizing
    <2> QED BY <2>2, <2>3
<1>10. CASE load_module
    <2>1. UNCHANGED <<tested, ii, global_region, step>> /\ pc = "load" /\ (EachAgent => pc' # "body")
          /\ pc' \notin {"load", "finalize", "finalize_error"}
        BY <1>10 DEF load_module, Fail
    <2>2. ~EachAgent => AtAgent
        BY <2>1 DEF AtAgent
    <2>3. EachAgent => ~(AtAgent')
        BY <1>2, <2>1 DEF AtAgent, Finalizing
    <2> QED BY <1>4, <1>5, <2>1, <2>2, <2>3
<1>11. CASE visit_agent
    <2>0. EachAgent /\ step = 1 /\ ii \in 1..Len(machine)
        BY <1>0, <1>11 DEF visit_agent, PlaceInv, TypeInv
    <2>1. tested' = tested /\ step' = step /\ pc' \in {"loop", "body"}
        BY <1>11 DEF visit_agent
    <2>2. CASE pc' = "body"
        <3>1. PICK group \in {GroupRegion(Agent.regions), NoRegion},
                   fine \in {FineGrainedRegion(Agent.regions), NoRegion} :
                   global_region' = fine /\ ~Skipped(group, fine) /\ ii' = ii
            BY <1>11, <2>2 DEF visit_agent
        <3>2. /\ global_region' # NoRegion => global_region' = FineGrainedRegion(machine[ii].regions)
              /\ "kernel_dispatch" \in machine[ii].feature
              /\ test = "aql_group_memory" => GroupRegion(machine[ii].regions) # NoRegion
            BY <3>1 DEF Skipped, Agent
        <3>3. KernargRegion(machine[ii].regions) # NoRegion
            BY <1>2, <2>0, <3>2, FoundKernarg
        <3> QED BY <1>1, <1>2, <2>0, <2>1, <3>1, <3>2, <3>3 DEF MemoryInv, Agent
    <2>3. CASE pc' = "loop"
        BY <1>4, <2>1, <2>3 DEF AtAgent, Finalizing
    <2> QED BY <2>1, <2>2, <2>3
<1>12. CASE finalize_begin \/ finalize_step \/ finalize_step_fails \/ finalize_crashes
    <2>1. UNCHANGED <<tested, ii, global_region, step>> /\ AtAgent
        BY <1>12 DEF finalize_begin, finalize_step, finalize_step_fails, finalize_crashes, AtAgent, Finalizing
    <2> QED BY <1>5, <2>1
<1>13. CASE finalize_exit
    <2>1. UNCHANGED <<tested, ii, global_region>> /\ AtAgent /\ Finalizing /\ step' \in {step, step + 1}
        BY <1>13 DEF finalize_exit, AtAgent, Finalizing
    <2>2. step # AllocateAt
        <3>1. step \in 1..Len(Body) /\ Body[step] = Use("finalize") /\ test \in Tests
            BY <1>0, <2>1 DEF PlaceInv, TypeInv
        <3>2. Balanced(step)
            BY <3>1, BodySteps
        <3> QED BY <3>1, <3>2 DEF Balanced, Use, Make
    <2> QED BY <1>2, <1>5, <2>1, <2>2
<1>14. CASE body_call
    <2>0. /\ pc = "body" /\ AtAgent /\ step \in 1..Len(Body) /\ ii \in DOMAIN machine /\ Balanced(step)
        BY <1>0, <1>14, BodySteps DEF body_call, PlaceInv, TypeInv, AtAgent
    <2>1. /\ UNCHANGED <<ii, global_region>> /\ pc' \in {"body", "failed"} /\ step' \in {step, step + 1}
          /\ tested' = tested \/ (tested' = tested \cup {ii} /\ Body[step][2] = "dispatch")
          /\ (step' # step /\ Body[step][1] # "discard") => Possible(Body[step][2])
        BY <1>14, <2>0 DEF body_call, Fail
    <2>2. (step' # step /\ step = AllocateAt) => global_region # NoRegion
        <3>1. step = AllocateAt => Body[step][1] = "make" /\ Body[step][2] = "allocate_global"
            BY <2>0 DEF Balanced, Make
        <3> QED BY <2>1, <3>1 DEF Possible
    <2>3. KernelsHaveTheirMemory'
        <3>1. CASE tested' = tested
            BY <1>2, <3>1
        <3>2. CASE tested' = tested \cup {ii} /\ Body[step][2] = "dispatch"
            <4>1. /\ FineGrainedRegion(machine[ii].regions) # NoRegion
                  /\ KernargRegion(machine[ii].regions) # NoRegion
                  /\ EachAgent => Capable(ii)
                BY <1>3, <2>0, <3>2 DEF Balanced, Capable
            <4>2. \A n \in tested' : n \in Nat /\ (n \in tested \/ n = ii)
                BY <1>0, <3>2 DEF TypeInv
            <4>3. \A n \in Nat : Capable(n)' <=> Capable(n)
                BY <1>1, SameAgents
            <4> QED BY <1>0, <1>1, <1>2, <4>1, <4>2, <4>3 DEF KernelsHaveTheirMemory
        <3> QED BY <2>1, <3>1, <3>2
    <2>4. step' > AllocateAt => global_region # NoRegion
        BY <1>2, <1>3, <2>0, <2>1, <2>2
    <2> QED BY <1>1, <1>2, <1>3, <2>0, <2>1, <2>3, <2>4 DEF MemoryInv, Agent
<1> QED BY <1>6, <1>7, <1>8, <1>9, <1>10, <1>11, <1>12, <1>13, <1>14 DEF Next

(* Whatever calls fail and whichever agents came before: a kernel runs     *)
(* only on an agent that has the regions for its data and its arguments    *)
(* itself, and in test_aql_private_memory and test_aql_group_memory only   *)
(* on one that has all their comments ask for.                             *)
THEOREM KernelsRunOnOwnMemory == Spec => []KernelsHaveTheirMemory
<1>1. MemoryInv => KernelsHaveTheirMemory
    BY DEF MemoryInv
<1> QED BY <1>1, InitMemory, NextMemory, LeakInvariant, PTL DEF Spec
=============================================================================
