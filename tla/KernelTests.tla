---------------------------- MODULE KernelTests ----------------------------
(***************************************************************************)
(* The skeleton of the tests that run a kernel, with the helpers of        *)
(* agent_utils.c and finalize_utils.c they are built from: load the        *)
(* module, list the agents, and for each agent with kernel dispatch and    *)
(* the right memory regions create a queue, finalize an executable, look   *)
(* up its symbol, allocate, dispatch, check, and release everything.  The  *)
(* calls into the runtime and the C library may fail (hsa_region_get_info, *)
(* whose status nobody looks at, apart); a failed ASSERT ends the test.    *)
(* Three tests stand for the shapes the suite has.                         *)
(***************************************************************************)
EXTENDS Integers, Sequences, FiniteSets

CONSTANTS Tests, Machines       \* a machine is a sequence of agents

KernelTestNames == {"aql_private_memory", "aql_group_memory", "code_recursive_kernel_function"}
ASSUME KernelTestsAssumption == Tests \subseteq KernelTestNames

(* What hsa_agent_get_info reports as the features of an agent, and the    *)
(* regions hsa_agent_iterate_regions goes through.  One with kernel        *)
(* dispatch has a region for kernel arguments.                             *)
Segments == {"global", "group", "private", "readonly"}
Flags == {"fine_grained", "coarse_grained", "kernarg"}
Agents == [feature : SUBSET {"kernel_dispatch", "agent_dispatch"},
           regions : Seq([segment : Segments, flags : SUBSET Flags])]
ASSUME MachinesAssumption ==
    \A m \in Machines :
        /\ m \in Seq(Agents)
        /\ \A n \in DOMAIN m : "kernel_dispatch" \in m[n].feature =>
             \E k \in DOMAIN m[n].regions :
                 m[n].regions[k].segment = "global" /\ "kernarg" \in m[n].regions[k].flags

VARIABLES
    test, machine,
    pc,             \* where the test is
    ii,             \* index of the agent
    step,           \* index into Body
    fstep,          \* index into FinalizeSteps
    global_region,  \* what the callback has found
    module,         \* "loaded" or "undefined"
    live,           \* how many of each resource are held
    tested,         \* the agents a kernel was dispatched on
    faults          \* the calls that have failed

vars == <<test, machine, pc, ii, step, fstep, global_region, module, live, tested, faults>>

Resources == {"module_buffer", "agent_list", "queue", "program", "code_object", "executable",
              "data_in", "data_out", "kernarg_buffer", "completion_signal"}
NoRegion == [segment |-> "none", flags |-> {}]       \* handle -1
Ended == {"passed", "failed", "crashed"}

Agent == machine[ii]
Acquire(r) == live' = [live EXCEPT ![r] = @ + 1]
Release(r) == live' = [live EXCEPT ![r] = @ - 1]
Fail(call) == faults' = faults \cup {call} /\ pc' = "failed"

-----------------------------------------------------------------------------
(* agent_utils.c: the callbacks.  An iteration stops at the first agent or *)
(* region for which the callback returns HSA_STATUS_INFO_BREAK.            *)
First(seq, P(_)) ==
    LET hits == {n \in 1..Len(seq) : P(seq[n])}
    IN  IF hits = {} THEN 0 ELSE CHOOSE n \in hits : \A k \in hits : n <= k

get_kernel_dispatch_agent(agent) == agent.feature = {"kernel_dispatch"}
get_group_memory_region(region) == region.segment = "group"
get_kernarg_memory_region(region) == region.segment = "global" /\ "kernarg" \in region.flags
get_global_memory_region_fine_grained(region) ==
    region.segment = "global" /\ "fine_grained" \in region.flags

Find(regions, P(_)) == IF First(regions, P) = 0 THEN NoRegion ELSE regions[First(regions, P)]
KernelDispatchAgent == First(machine, get_kernel_dispatch_agent)
GroupRegion(regions) == Find(regions, get_group_memory_region)
KernargRegion(regions) == Find(regions, get_kernarg_memory_region)
FineGrainedRegion(regions) == Find(regions, get_global_memory_region_fine_grained)

(* The bodies: <<kind of step, call, resource>>.  The status of a "discard"*)
(* is ignored; "finalize" is finalize_executable.                          *)
Make(call, r) == <<"make", call, r>>
Use(call) == <<"use", call, "none">>
Drop(call, r) == <<"drop", call, r>>
Discard(call, r) == <<"discard", call, r>>
Body ==
    CASE test = "aql_private_memory" ->
           <<Use("kernarg_region"), Make("hsa_queue_create", "queue"), Use("finalize"),
             Use("get_executable_symbols"),
             Make("allocate_global", "data_in"), Make("allocate_global", "data_out"),
             Make("hsa_memory_allocate", "kernarg_buffer"),
             Make("hsa_signal_create", "completion_signal"), Use("dispatch"),
             Discard("hsa_signal_destroy", "completion_signal"),
             Drop("hsa_memory_free", "kernarg_buffer"), Drop("hsa_memory_free", "data_in"),
             Drop("hsa_memory_free", "data_out"), Drop("hsa_executable_destroy", "executable"),
             Drop("hsa_queue_destroy", "queue")>>
      [] test = "aql_group_memory" ->
           <<Make("hsa_queue_create", "queue"), Use("finalize"), Use("get_executable_symbols"),
             Make("allocate_global", "data_in"), Make("allocate_global", "data_out"),
             Use("kernarg_region"), Make("hsa_memory_allocate", "kernarg_buffer"),
             Make("hsa_signal_create", "completion_signal"), Use("dispatch"),
             Discard("hsa_signal_destroy", "completion_signal"),
             Drop("hsa_memory_free", "kernarg_buffer"), Drop("hsa_memory_free", "data_in"),
             Drop("hsa_memory_free", "data_out"), Drop("hsa_queue_destroy", "queue"),
             Drop("hsa_executable_destroy", "executable"),
             Drop("hsa_code_object_destroy", "code_object")>>
      [] OTHER ->
           <<Use("finalize"), Use("get_executable_symbols"), Make("allocate_global", "data_out"),
             Make("hsa_memory_allocate", "kernarg_buffer"),
             Make("hsa_signal_create", "completion_signal"), Use("dispatch"),
             Drop("hsa_memory_free", "data_out"), Drop("hsa_memory_free", "kernarg_buffer"),
             Drop("hsa_signal_destroy", "completion_signal"),
             Drop("hsa_executable_destroy", "executable"),
             Drop("hsa_code_object_destroy", "code_object"), Drop("hsa_queue_destroy", "queue")>>

(* finalize_executable, up to its exit label. *)
FinalizeSteps ==
    <<Make("hsa_ext_program_create", "program"), Use("hsa_ext_program_add_module"),
      Use("hsa_agent_get_info"), Make("hsa_ext_program_finalize", "code_object"),
      Make("hsa_executable_create", "executable"), Use("hsa_executable_load_code_object"),
      Use("hsa_executable_freeze")>>

-----------------------------------------------------------------------------
Init ==
    /\ test \in Tests /\ machine \in Machines
    /\ pc = "hsa_init" /\ ii = 1 /\ step = 1 /\ fstep = 1
    /\ global_region = NoRegion /\ module = "undefined"
    /\ live = [r \in Resources |-> 0] /\ tested = {} /\ faults = {}

EachAgent == test # "code_recursive_kernel_function"

hsa_init ==
    /\ pc = "hsa_init"
    /\ \/ pc' = (IF EachAgent THEN "load" ELSE "select") /\ UNCHANGED faults
       \/ Fail("hsa_init")
    /\ UNCHANGED <<test, machine, ii, step, fstep, global_region, module, live, tested>>

(* load_module_from_file.  fclose(NULL) crashes when the file cannot be    *)
(* opened; rc is 0 after the second fseek, so a failed malloc or a short   *)
(* read returns 0 as well and leaves *module as it was.  The third test    *)
(* does not look at the result.                                            *)
load_module ==
    /\ pc = "load"
    /\ \/ /\ module' = "loaded" /\ Acquire("module_buffer")
          /\ pc' = (IF EachAgent THEN "agents" ELSE "body") /\ UNCHANGED faults
       \/ /\ pc' = "crashed" /\ faults' = faults \cup {"fopen"} /\ UNCHANGED <<module, live>>
       \/ /\ IF EachAgent THEN Fail("fseek") ELSE pc' = "body" /\ faults' = faults \cup {"fseek"}
          /\ UNCHANGED <<module, live>>
       \/ /\ \E call \in {"malloc", "fread"} : faults' = faults \cup {call}
          /\ pc' = (IF EachAgent THEN "agents" ELSE "body")
          /\ UNCHANGED <<module, live>>
    /\ UNCHANGED <<test, machine, ii, step, fstep, global_region, tested>>

(* get_agent_list: one iteration to count the agents, one to store them in *)
(* an array for which malloc is not checked.                               *)
get_agent_list ==
    /\ pc = "agents"
    /\ \/ Acquire("agent_list") /\ pc' = "loop" /\ UNCHANGED faults
       \/ Fail("hsa_iterate_agents") /\ UNCHANGED live
       \/ pc' = "crashed" /\ faults' = faults \cup {"malloc"} /\ UNCHANGED live
    /\ UNCHANGED <<test, machine, ii, step, fstep, global_region, module, tested>>

(* hsa_iterate_agents(get_kernel_dispatch_agent): success is taken for a   *)
(* found agent; without one, agent is whatever was on the stack.  The      *)
(* callback passes over an agent whose features it cannot get.             *)
select_agent ==
    /\ pc = "select"
    /\ \/ /\ ii' = KernelDispatchAgent
          /\ pc' = "select_queue" /\ UNCHANGED faults
       \/ /\ ii' \in {0} \cup {n \in DOMAIN machine : get_kernel_dispatch_agent(machine[n])}
          /\ pc' = "select_queue" /\ faults' = faults \cup {"hsa_agent_get_info"}
       \/ Fail("hsa_iterate_agents") /\ UNCHANGED ii
    /\ UNCHANGED <<test, machine, step, fstep, global_region, module, live, tested>>

select_queue ==
    /\ pc = "select_queue"
    /\ \/ /\ ii' \in IF ii = 0 THEN DOMAIN machine ELSE {ii}
          /\ Acquire("queue") /\ pc' = "select_regions" /\ UNCHANGED faults
       \/ ii = 0 /\ pc' \in {"failed", "crashed"} /\ UNCHANGED <<ii, live, faults>>
       \/ Fail("hsa_queue_create") /\ UNCHANGED <<ii, live>>
    /\ UNCHANGED <<test, machine, step, fstep, global_region, module, tested>>

(* Both regions are required. *)
select_regions ==
    /\ pc = "select_regions"
    /\ global_region' = FineGrainedRegion(Agent.regions)
    /\ \/ /\ pc' = IF NoRegion \in {global_region', KernargRegion(Agent.regions)}
                    THEN "failed" ELSE "load"
          /\ UNCHANGED faults
       \/ Fail("hsa_agent_iterate_regions")
    /\ UNCHANGED <<test, machine, ii, step, fstep, module, live, tested>>

(* The head of the loop: the agent is skipped without kernel dispatch,     *)
(* without a group region where one is needed, and for its fine grained    *)
(* region: aql_private_memory skips agents that have none, aql_group_memory*)
(* those that have one.  An iteration that fails finds nothing, and nobody *)
(* looks at its status.                                                    *)
Skipped(group, fine) ==
    \/ "kernel_dispatch" \notin Agent.feature
    \/ test = "aql_private_memory" /\ fine = NoRegion
    \/ test = "aql_group_memory" /\ (group = NoRegion \/ fine # NoRegion)

(* Mutant of visit_agent: the handle is set to -1 once, before the loop. *)
visit_agent_stale ==
    /\ pc = "loop" /\ ii <= Len(machine)
    /\ LET found == FineGrainedRegion(Agent.regions)
           fine == IF found = NoRegion THEN global_region ELSE found
           skipped == Skipped(GroupRegion(Agent.regions), fine)
       IN  /\ global_region' = fine
           /\ pc' = IF skipped THEN "loop" ELSE "body"
           /\ ii' = IF skipped THEN ii + 1 ELSE ii
    /\ UNCHANGED <<test, machine, step, fstep, module, live, tested, faults>>

visit_agent ==
    /\ pc = "loop" /\ ii <= Len(machine)
    /\ \E group \in {GroupRegion(Agent.regions), NoRegion},
         fine \in {FineGrainedRegion(Agent.regions), NoRegion} :
         LET skipped == Skipped(group, fine)
         IN  /\ global_region' = fine
             /\ pc' = IF skipped THEN "loop" ELSE "body"
             /\ ii' = IF skipped THEN ii + 1 ELSE ii
             /\ faults' = IF /\ group = GroupRegion(Agent.regions)
                             /\ fine = FineGrainedRegion(Agent.regions)
                          THEN faults ELSE faults \cup {"hsa_agent_iterate_regions"}
    /\ UNCHANGED <<test, machine, step, fstep, module, live, tested>>

agent_get_info_fails ==
    /\ pc = "loop" /\ ii <= Len(machine)
    /\ Fail("hsa_agent_get_info")
    /\ UNCHANGED <<test, machine, ii, step, fstep, global_region, module, live, tested>>

-----------------------------------------------------------------------------
(* A call of the body, the one of finalize_executable apart. *)
Possible(call) ==
    CASE call = "allocate_global" -> global_region # NoRegion
      [] call = "kernarg_region" -> KernargRegion(Agent.regions) # NoRegion
      [] OTHER -> TRUE

body_call ==
    /\ pc = "body" /\ step <= Len(Body) /\ Body[step] # Use("finalize")
    /\ LET kind == Body[step][1]
           call == Body[step][2]
           r == Body[step][3]
       IN  \/ /\ Possible(call)
              /\ CASE kind = "make" -> Acquire(r)
                   [] kind = "use" -> UNCHANGED live
                   [] OTHER -> Release(r)
              /\ tested' = IF call = "dispatch" THEN tested \cup {ii} ELSE tested
              /\ step' = step + 1 /\ UNCHANGED <<pc, faults>>
           \/ /\ kind # "discard" /\ Possible(call) /\ Fail(call)
              /\ UNCHANGED <<step, live, tested>>
           \/ /\ ~Possible(call) /\ pc' = "failed"
              /\ UNCHANGED <<step, live, tested, faults>>
           \/ /\ kind = "discard" /\ faults' = faults \cup {call}
              /\ step' = step + 1 /\ UNCHANGED <<pc, live, tested>>
    /\ UNCHANGED <<test, machine, ii, fstep, global_region, module>>

finalize_begin ==
    /\ pc = "body" /\ step <= Len(Body) /\ Body[step] = Use("finalize")
    /\ pc' = "finalize" /\ fstep' = 1
    /\ UNCHANGED <<test, machine, ii, step, global_region, module, live, tested, faults>>

(* A step of finalize_executable; the module is used where it is added.    *)
finalize_step ==
    /\ pc = "finalize" /\ fstep <= Len(FinalizeSteps)
    /\ FinalizeSteps[fstep][2] = "hsa_ext_program_add_module" => module = "loaded"
    /\ IF FinalizeSteps[fstep][1] = "make" THEN Acquire(FinalizeSteps[fstep][3]) ELSE UNCHANGED live
    /\ fstep' = fstep + 1
    /\ UNCHANGED <<test, machine, pc, ii, step, global_region, module, tested, faults>>

(* EXIT_IF: a step fails, with or without a defined module. *)
finalize_step_fails ==
    /\ pc = "finalize" /\ fstep <= Len(FinalizeSteps)
    /\ faults' = faults \cup {FinalizeSteps[fstep][2]}
    /\ pc' = "finalize_error"
    /\ UNCHANGED <<test, machine, ii, step, fstep, global_region, module, live, tested>>

(* A module that was never read is dereferenced. *)
finalize_crashes ==
    /\ pc = "finalize" /\ fstep <= Len(FinalizeSteps)
    /\ FinalizeSteps[fstep][2] = "hsa_ext_program_add_module" /\ module = "undefined"
    /\ pc' = "crashed"
    /\ UNCHANGED <<test, machine, ii, step, fstep, global_region, module, live, tested, faults>>

(* Mutant of finalize_exit: the status of the destroy is the one returned. *)
finalize_exit_overwrites ==
    /\ \/ pc = "finalize" /\ fstep > Len(FinalizeSteps)
       \/ pc = "finalize_error"
    /\ \/ /\ live' = [live EXCEPT !["program"] = IF fstep > 1 THEN @ - 1 ELSE @]
          /\ pc' = "body" /\ step' = step + 1 /\ UNCHANGED faults
       \/ Fail("hsa_ext_program_destroy") /\ UNCHANGED <<live, step>>
    /\ UNCHANGED <<test, machine, ii, fstep, global_region, module, tested>>

(* Mutant of finalize_exit: a successful return comes before the label. *)
finalize_exit_undestroyed ==
    /\ \/ pc = "finalize" /\ fstep > Len(FinalizeSteps)
       \/ pc = "finalize_error"
    /\ IF pc = "finalize"
       THEN pc' = "body" /\ step' = step + 1 /\ UNCHANGED live
       ELSE pc' = "failed" /\ live' = [live EXCEPT !["program"] = IF fstep > 1 THEN @ - 1 ELSE @]
            /\ UNCHANGED step
    /\ UNCHANGED <<test, machine, ii, fstep, global_region, module, tested, faults>>

(* The exit label: the program is destroyed, also one that was not created *)
(* (a null handle); the status of that call is ignored, the one of the     *)
(* failed step is returned and asserted by the test.                       *)
finalize_exit ==
    /\ \/ pc = "finalize" /\ fstep > Len(FinalizeSteps)
       \/ pc = "finalize_error"
    /\ IF pc = "finalize" THEN pc' = "body" /\ step' = step + 1 ELSE pc' = "failed" /\ UNCHANGED step
    /\ \/ /\ live' = [live EXCEPT !["program"] = IF fstep > 1 THEN @ - 1 ELSE @]
          /\ UNCHANGED faults
       \/ faults' = faults \cup {"hsa_ext_program_destroy"} /\ UNCHANGED live
    /\ UNCHANGED <<test, machine, ii, fstep, global_region, module, tested>>

-----------------------------------------------------------------------------
(* The end of the body: the next agent, or the end of the test. *)
body_end ==
    /\ pc = "body" /\ step > Len(Body)
    /\ IF EachAgent
       THEN pc' = "loop" /\ ii' = ii + 1 /\ step' = 1
       ELSE pc' = "shut_down" /\ UNCHANGED <<ii, step>>
    /\ UNCHANGED <<test, machine, fstep, global_region, module, live, tested, faults>>

(* destroy_module frees the buffer; a module that was never set is a null  *)
(* pointer or one that cannot be freed.                                    *)
destroy_module ==
    /\ pc = "loop" /\ ii > Len(machine)
    /\ \/ module = "loaded" /\ Release("module_buffer") /\ pc' = "shut_down"
       \/ module = "undefined" /\ pc' \in {"shut_down", "crashed"} /\ UNCHANGED live
    /\ UNCHANGED <<test, machine, ii, step, fstep, global_region, module, tested, faults>>

(* hsa_shut_down and free_agent_list. *)
shut_down ==
    /\ pc = "shut_down"
    /\ \/ /\ IF EachAgent THEN Release("agent_list") ELSE UNCHANGED live
          /\ pc' = "passed" /\ UNCHANGED faults
       \/ Fail("hsa_shut_down") /\ UNCHANGED live
    /\ UNCHANGED <<test, machine, ii, step, fstep, global_region, module, tested>>

Next ==
    \/ hsa_init \/ load_module \/ get_agent_list
    \/ select_agent \/ select_queue \/ select_regions
    \/ visit_agent \/ agent_get_info_fails
    \/ body_call \/ finalize_begin \/ finalize_step \/ finalize_step_fails
    \/ finalize_crashes \/ finalize_exit \/ body_end
    \/ destroy_module \/ shut_down

Spec == Init /\ [][Next]_vars

-----------------------------------------------------------------------------
(* What the comments ask of an agent: kernel dispatch, fine grained global *)
(* memory and, for aql_group_memory, group memory.                         *)
Capable(n) ==
    /\ "kernel_dispatch" \in machine[n].feature
    /\ FineGrainedRegion(machine[n].regions) # NoRegion
    /\ test = "aql_group_memory" => GroupRegion(machine[n].regions) # NoRegion

(* A test that goes through the agents and passes without a failed call    *)
(* has dispatched its kernel on every agent that has what it needs: only   *)
(* an agent without the memory is skipped (test_aql_group_memory.c:112).   *)
CapableAgentsTested ==
    (EachAgent /\ pc = "passed" /\ faults = {}) => \A n \in DOMAIN machine : Capable(n) => n \in tested

(* Whatever calls fail and whichever agents came before, a kernel runs     *)
(* only on an agent that has a fine grained region of its own, for the     *)
(* data, and one for kernel arguments: a handle is never left over from    *)
(* another agent (test_aql_private_memory.c:100).  The tests that go       *)
(* through the agents also run it only where kernel dispatch and, if       *)
(* needed, group memory are; the one that takes the first agent may not    *)
(* have found one (agent_utils.c:310) and does not promise that.           *)
KernelsHaveTheirMemory ==
    \A n \in tested :
        /\ FineGrainedRegion(machine[n].regions) # NoRegion
        /\ KernargRegion(machine[n].regions) # NoRegion
        /\ EachAgent => Capable(n)

(* The calls whose failure a passing test may have passed over: those      *)
(* whose status is not looked at, the features an agent would not give to  *)
(* the callback, and, in a test for each agent, a module that could not be *)
(* read although load_module_from_file returned 0, as long as no agent     *)
(* needed it.                                                              *)
Unnoticed ==
    {"hsa_ext_program_destroy"}
    \cup (IF EachAgent THEN {"hsa_agent_iterate_regions", "hsa_signal_destroy"}
          ELSE {"hsa_agent_get_info"})
    \cup (IF EachAgent /\ tested = {} THEN {"malloc", "fread"} ELSE {})

(* Every other failing call makes the test fail, also where errors leave   *)
(* through the exit labels of load_module_from_file (finalize_utils.c:109) *)
(* and finalize_executable (finalize_utils.c:191) or are not asserted      *)
(* (test_code_recursive_kernel_function.c:88).                             *)
ErrorsSurface == pc = "passed" => faults \subseteq Unnoticed

(* What the sources never release, although they have a comment for it: a  *)
(* code object for every agent (test_aql_private_memory.c:202), the module *)
(* (test_code_recursive_kernel_function.c:180).                            *)
Forgotten(r) ==
    CASE r = "code_object" /\ test = "aql_private_memory" -> Cardinality(tested)
      [] r = "module_buffer" /\ ~EachAgent -> 1
      [] OTHER -> 0

(* A destroy whose status is ignored has failed. *)
Spilt(r) ==
    \/ r = "completion_signal" /\ "hsa_signal_destroy" \in faults
    \/ r = "program" /\ "hsa_ext_program_destroy" \in faults

(* Whatever calls fail, nothing is released twice, a passing test holds no *)
(* more than what is forgotten or spilt, and the program of                *)
(* finalize_executable is gone however that was left.                      *)
NothingLeaks ==
    \A r \in Resources :
        /\ live[r] >= 0
        /\ pc = "passed" => live[r] <= Forgotten(r) \/ Spilt(r)
        /\ pc = "failed" /\ r = "program" => live[r] = 0 \/ Spilt(r)
=============================================================================
