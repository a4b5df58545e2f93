------------------------------- MODULE AqlQueue -------------------------------
(***************************************************************************)
(* Dispatching kernels through an AQL queue with the helpers of            *)
(* src/src/utils/queue_utils.c and dispatch_utils.c.  Producers reserve    *)
(* write indices, wait for room, copy a packet into its slot, publish it   *)
(* by storing its header, and ring the doorbell.                           *)
(*                                                                         *)
(* The queue and its packet processor belong to the HSA runtime under      *)
(* test.  They are modelled by what the suite relies on: indices are       *)
(* atomic counters, packets are processed in index order, a packet whose   *)
(* header is INVALID blocks the processor, a packet is looked at once a    *)
(* doorbell value at or past its index has been stored, its slot becomes   *)
(* INVALID and the read index moves on when it is launched, and its        *)
(* completion signal is decremented when the kernel ends.                  *)
(*                                                                         *)
(* A scenario says who the producers are, how many packets each sends, how *)
(* large the queue is, and which of the suite's callers they run:          *)
(*   "concurrent"  thread_proc_dispatch of test_queue_dispatch_concurrent: *)
(*                 enqueue_dispatch_packet, then wait for the kernel       *)
(*   "burst"       thread_proc_queue_multiple_dispatch: all packets, then  *)
(*                 one wait                                                *)
(*   "one_d"       calls of dispatch_kernel_1d_data                        *)
(*   "bulk"        one call of enqueue_dispatch_packets                    *)
(*   "gap"         test_queue_multi_gap: one thread reserves three regions *)
(*                 and fills the first and the third, waits for the first, *)
(*                 fills the second, waits for it and for the third, and   *)
(*                 repeats.  Each region, which has its own signal, is a   *)
(*                 producer; the one thread is in one of them at a time.   *)
(***************************************************************************)
EXTENDS Integers, Sequences, FiniteSets

CONSTANTS
    Producers,       \* every thread that may dispatch
    Scenarios        \* the scenarios to explore

Modes == {"concurrent", "burst", "one_d", "bulk", "gap"}

(* size is queue->size, a power of two; early says that hsa_signal_wait_*  *)
(* may resume before its condition holds; regions are the producers of     *)
(* "gap" in the order of the queue, and region their size.                 *)
ASSUME ScenarioAssumption ==
    \A s \in Scenarios : /\ s.mode \in Modes /\ s.producers \subseteq Producers
                         /\ s.size \in Nat \ {0} /\ s.packets \in Nat \ {0}
                         /\ s.early \in BOOLEAN
                         /\ s.regions \in Seq(s.producers) /\ s.region \in Nat
                         /\ s.mode = "gap" => Len(s.regions) = 3 /\ s.packets % s.region = 0

VARIABLES
    scenario,    \* chosen once
    write_index, read_index,
    slots,       \* the ring buffer: header and body of each packet slot
    rung,        \* the highest value stored in the doorbell, -1 before the first
    running,     \* how many kernels of each producer are executing
    signal,      \* the completion signal of each producer
    pc,
    at,          \* the producer's local write_index
    i,           \* the packet of the caller's array it is about to send
    left,        \* packet_count: packets of a bulk request still to send
    claimed,     \* history: the packet each index was reserved for
    launched,    \* history: the packets the processor launched, in order
    completed,   \* history: how many kernels of each producer have ended
    early,       \* history: producers whose wait resumed before their kernels ended
    crossed      \* history: a producer took a slot while the ring was full

queue == <<write_index, read_index, slots, rung>>
device == <<running, signal, completed>>
locals == <<at, i, left>>
lapses == <<early, crossed>>
vars == <<scenario, queue, device, locals, pc, claimed, launched, lapses>>

Mode == scenario.mode
QueueSize == scenario.size
NumPackets == scenario.packets
WaitMayReturnEarly == scenario.early
Region(n) == scenario.regions[n]
RegionSize == scenario.region

Packets == Producers \X (0..NumPackets - 1)
NoPacket == <<>>
Headers == {"INVALID", "VENDOR_SPECIFIC", "KERNEL_DISPATCH"}
Empty == [header |-> "INVALID", body |-> NoPacket]
Slot(index) == index % QueueSize      \* write_index & queue_mask

Larger(a, b) == IF a > b THEN a ELSE b

Init ==
    /\ scenario \in Scenarios
    /\ write_index = 0 /\ read_index = 0 /\ rung = -1
    /\ slots = [s \in 0..QueueSize - 1 |-> Empty]
    /\ running = [p \in Producers |-> 0]
    /\ signal = [p \in Producers |-> IF Mode = "burst" THEN NumPackets ELSE 1]
    /\ pc = [p \in Producers |-> IF p \notin scenario.producers THEN "done"
                                ELSE IF Mode = "gap" /\ p # Region(1) THEN "turn"
                                ELSE "reserve"]
    /\ at = [p \in Producers |-> 0]
    /\ i = [p \in Producers |-> 0]
    /\ left = [p \in Producers |-> 0]
    /\ claimed = <<>> /\ launched = <<>>
    /\ completed = [p \in Producers |-> 0]
    /\ early = {} /\ crossed = FALSE

Goto(p, l) == pc' = [pc EXCEPT ![p] = l]

(***************************************************************************)
(* Producers.                                                              *)
(***************************************************************************)
(* One index is reserved; a caller that waits for each kernel first sets   *)
(* its completion signal back to 1.                                        *)
add_write_index(p) ==
    /\ pc[p] = "reserve" /\ Mode \notin {"bulk", "gap"}
    /\ at' = [at EXCEPT ![p] = write_index]
    /\ write_index' = write_index + 1
    /\ claimed' = Append(claimed, <<p, i[p]>>)
    /\ signal' = IF Mode = "burst" THEN signal ELSE [signal EXCEPT ![p] = 1]
    /\ Goto(p, "spin")
    /\ UNCHANGED <<scenario, read_index, slots, rung, running, i, left, launched, completed, lapses>>

(* The loops that wait for a slot: enqueue_dispatch_packet_at goes on when *)
(* write_index - read_index is the queue size, dispatch_kernel_1d_data     *)
(* only when it is smaller.                                                *)
EnqueueHasRoom(p) == ~(at[p] - read_index > QueueSize)
DispatchHasRoom(p) == ~(at[p] - read_index >= QueueSize)

wait_for_slot(p) ==
    /\ pc[p] = "spin" /\ Mode # "one_d"
    /\ EnqueueHasRoom(p)
    /\ Goto(p, "body")
    /\ crossed' = (crossed \/ at[p] - read_index = QueueSize)
    /\ UNCHANGED <<scenario, queue, device, locals, claimed, launched, early>>

wait_for_slot_1d(p) ==
    /\ pc[p] = "spin" /\ Mode = "one_d"
    /\ DispatchHasRoom(p)
    /\ Goto(p, "clear")
    /\ UNCHANGED <<scenario, queue, device, locals, claimed, launched, lapses>>

(* dispatch_kernel_1d_data clears the whole packet, header included: the   *)
(* packet type 0 is VENDOR_SPECIFIC, not INVALID.                          *)
clear_packet(p) ==
    /\ pc[p] = "clear"
    /\ slots' = [slots EXCEPT ![Slot(at[p])] = [header |-> "VENDOR_SPECIFIC", body |-> NoPacket]]
    /\ Goto(p, "body")
    /\ UNCHANGED <<scenario, write_index, read_index, rung, device, locals, claimed, launched, lapses>>

(* Mutant of copy_body: only the header of the slot is written. *)
copy_body_missing(p) ==
    /\ pc[p] = "body"
    /\ slots' = [slots EXCEPT ![Slot(at[p])].header = "KERNEL_DISPATCH"]
    /\ Goto(p, "header")
    /\ UNCHANGED <<scenario, write_index, read_index, rung, device, locals, claimed, launched, lapses>>

copy_body(p) ==
    /\ pc[p] = "body"
    /\ slots' = [slots EXCEPT ![Slot(at[p])].body = <<p, i[p]>>]
    /\ Goto(p, "header")
    /\ UNCHANGED <<scenario, write_index, read_index, rung, device, locals, claimed, launched, lapses>>

store_header(p) ==
    /\ pc[p] = "header" /\ Mode # "bulk"
    /\ slots' = [slots EXCEPT ![Slot(at[p])].header = "KERNEL_DISPATCH"]
    /\ Goto(p, "ring")
    /\ UNCHANGED <<scenario, write_index, read_index, rung, device, locals, claimed, launched, lapses>>

(* Mutant of ring_doorbell: the doorbell gets the previous index. *)
ring_doorbell_low(p) ==
    /\ pc[p] = "ring" /\ Mode \notin {"bulk", "gap"}
    /\ rung' = Larger(rung, at[p] - 1)
    /\ i' = [i EXCEPT ![p] = i[p] + 1]
    /\ Goto(p, IF Mode = "burst" /\ i'[p] < NumPackets THEN "reserve" ELSE "wait")
    /\ UNCHANGED <<scenario, write_index, read_index, slots, device, at, left, claimed, launched, lapses>>

ring_doorbell(p) ==
    /\ pc[p] = "ring" /\ Mode \notin {"bulk", "gap"}
    /\ rung' = Larger(rung, at[p])
    /\ i' = [i EXCEPT ![p] = i[p] + 1]
    /\ Goto(p, IF Mode = "burst" /\ i'[p] < NumPackets THEN "reserve" ELSE "wait")
    /\ UNCHANGED <<scenario, write_index, read_index, slots, device, at, left, claimed, launched, lapses>>

(* Mutant of wait_completion: the kernel is not waited for. *)
wait_completion_not(p) ==
    /\ pc[p] = "wait" /\ Mode \notin {"one_d", "gap"}
    /\ Goto(p, IF i[p] < NumPackets THEN "reserve" ELSE "done")
    /\ UNCHANGED <<scenario, queue, device, locals, claimed, launched, lapses>>

(* The tests call hsa_signal_wait_relaxed once and go on, whatever value   *)
(* it returned; dispatch_kernel_1d_data calls it again until that is 0.    *)
Resumes(p) == signal[p] = 0 \/ WaitMayReturnEarly
NoteEarly(p) == early' = IF signal[p] = 0 THEN early ELSE early \cup {p}

wait_completion(p) ==
    /\ pc[p] = "wait" /\ Mode \notin {"one_d", "gap"}
    /\ Resumes(p)
    /\ NoteEarly(p)
    /\ Goto(p, IF i[p] < NumPackets THEN "reserve" ELSE "done")
    /\ UNCHANGED <<scenario, queue, device, locals, claimed, launched, crossed>>

(* Mutant of wait_completion_1d: the returned value is not looked at. *)
wait_completion_1d_once(p) ==
    /\ pc[p] = "wait" /\ Mode = "one_d"
    /\ Resumes(p)
    /\ Goto(p, IF i[p] < NumPackets THEN "reserve" ELSE "done")
    /\ UNCHANGED <<scenario, queue, device, locals, claimed, launched, lapses>>

wait_completion_1d(p) ==
    /\ pc[p] = "wait" /\ Mode = "one_d"
    /\ Resumes(p)
    /\ Goto(p, IF signal[p] # 0 THEN "wait"
               ELSE IF i[p] < NumPackets THEN "reserve" ELSE "done")
    /\ UNCHANGED <<scenario, queue, device, locals, claimed, launched, lapses>>

(* enqueue_dispatch_packets reserves all its indices at once ...           *)
add_write_index_bulk(p) ==
    /\ pc[p] = "reserve" /\ Mode = "bulk"
    /\ at' = [at EXCEPT ![p] = write_index]
    /\ write_index' = write_index + NumPackets
    /\ claimed' = claimed \o [n \in 1..NumPackets |-> <<p, n - 1>>]
    /\ left' = [left EXCEPT ![p] = NumPackets]
    /\ Goto(p, "chunk")
    /\ UNCHANGED <<scenario, read_index, slots, rung, device, i, launched, lapses>>

(* ... and sends chunks of at most the queue's size, each of which starts  *)
(* again at packet[0].                                                     *)
dispatch_count(p) == IF left[p] > QueueSize THEN QueueSize ELSE left[p]

(* Mutant of wait_for_chunk: room for all but one packet is enough. *)
wait_for_chunk_early(p) ==
    /\ pc[p] = "chunk"
    /\ ~(at[p] + dispatch_count(p) - read_index > QueueSize + 1)
    /\ i' = [i EXCEPT ![p] = 0]
    /\ Goto(p, "body")
    /\ UNCHANGED <<scenario, queue, device, at, left, claimed, launched, lapses>>

wait_for_chunk(p) ==
    /\ pc[p] = "chunk"
    /\ ~(at[p] + dispatch_count(p) - read_index > QueueSize)
    /\ i' = [i EXCEPT ![p] = 0]
    /\ Goto(p, "body")
    /\ UNCHANGED <<scenario, queue, device, at, left, claimed, launched, lapses>>

store_header_bulk(p) ==
    /\ pc[p] = "header" /\ Mode = "bulk"
    /\ slots' = [slots EXCEPT ![Slot(at[p])].header = "KERNEL_DISPATCH"]
    /\ at' = [at EXCEPT ![p] = at[p] + 1]
    /\ i' = [i EXCEPT ![p] = i[p] + 1]
    /\ Goto(p, IF i'[p] < dispatch_count(p) THEN "body" ELSE "ring")
    /\ UNCHANGED <<scenario, write_index, read_index, rung, device, left, claimed, launched, lapses>>

ring_doorbell_bulk(p) ==
    /\ pc[p] = "ring" /\ Mode = "bulk"
    /\ rung' = Larger(rung, at[p])
    /\ left' = [left EXCEPT ![p] = left[p] - dispatch_count(p)]
    /\ Goto(p, IF left'[p] > 0 THEN "chunk" ELSE "done")
    /\ UNCHANGED <<scenario, write_index, read_index, slots, device, at, i, claimed, launched, lapses>>

(* test_queue_multi_gap reserves its three regions and creates a signal    *)
(* for each ...                                                            *)
reserve_regions(p) ==
    /\ pc[p] = "reserve" /\ Mode = "gap"
    /\ at' = [at EXCEPT ![Region(1)] = write_index,
                         ![Region(2)] = write_index + RegionSize,
                         ![Region(3)] = write_index + 2 * RegionSize]
    /\ write_index' = write_index + 3 * RegionSize
    /\ claimed' = claimed \o [n \in 1..3 * RegionSize |->
                                 <<Region((n - 1) \div RegionSize + 1),
                                   i[p] + ((n - 1) % RegionSize)>>]
    /\ signal' = [q \in Producers |-> RegionSize]
    /\ Goto(p, "spin")
    /\ UNCHANGED <<scenario, read_index, slots, rung, running, completed, i, left, launched, lapses>>

(* ... fills them with enqueue_dispatch_packet_at, each to its end: the    *)
(* first, the third, and after the first wait the second ...               *)
FillNext(p) ==
    CASE p = Region(1) -> [pc EXCEPT ![p] = "filled", ![Region(3)] = "spin"]
      [] p = Region(3) -> [pc EXCEPT ![p] = "filled", ![Region(1)] = "wait"]
      [] p = Region(2) -> [pc EXCEPT ![p] = "wait"]

ring_doorbell_gap(p) ==
    /\ pc[p] = "ring" /\ Mode = "gap"
    /\ rung' = Larger(rung, at[p])
    /\ at' = [at EXCEPT ![p] = at[p] + 1]
    /\ i' = [i EXCEPT ![p] = i[p] + 1]
    /\ pc' = IF i'[p] % RegionSize # 0 THEN [pc EXCEPT ![p] = "spin"] ELSE FillNext(p)
    /\ UNCHANGED <<scenario, write_index, read_index, slots, device, left, claimed, launched, lapses>>

(* ... and waits once for each.  After the first wait it asserts that the  *)
(* other two signals have not changed; after the last it starts again.     *)
WaitNext(p) ==
    CASE p = Region(1) ->
           IF signal[Region(2)] = RegionSize /\ signal[Region(3)] = RegionSize
           THEN [pc EXCEPT ![p] = "turn", ![Region(2)] = "spin"]
           ELSE [pc EXCEPT ![p] = "failed"]
      [] p = Region(2) -> [pc EXCEPT ![p] = "turn", ![Region(3)] = "wait"]
      [] p = Region(3) ->
           [q \in Producers |-> IF q \notin scenario.producers \/ i[p] = NumPackets THEN "done"
                                ELSE IF q = Region(1) THEN "reserve"
                                ELSE "turn"]

wait_region(p) ==
    /\ pc[p] = "wait" /\ Mode = "gap"
    /\ Resumes(p)
    /\ NoteEarly(p)
    /\ pc' = WaitNext(p)
    /\ UNCHANGED <<scenario, queue, device, locals, claimed, launched, crossed>>

(***************************************************************************)
(* The packet processor and the kernels.                                   *)
(***************************************************************************)
launch_packet ==
    LET s == Slot(read_index)
        packet == slots[s].body
    IN /\ rung >= read_index
       /\ slots[s].header # "INVALID"
       /\ launched' = Append(launched, packet)
       /\ running' = IF packet = NoPacket THEN running
                     ELSE [running EXCEPT ![packet[1]] = running[packet[1]] + 1]
       /\ slots' = [slots EXCEPT ![s].header = "INVALID"]
       /\ read_index' = read_index + 1
       /\ UNCHANGED <<scenario, write_index, rung, signal, completed, locals, pc, claimed, lapses>>

complete_kernel(p) ==
    /\ running[p] > 0
    /\ running' = [running EXCEPT ![p] = running[p] - 1]
    /\ signal' = [signal EXCEPT ![p] = signal[p] - 1]
    /\ completed' = [completed EXCEPT ![p] = completed[p] + 1]
    /\ UNCHANGED <<scenario, queue, locals, pc, claimed, launched, lapses>>

(* Two things the code does not rule out take its promises away.  Once a   *)
(* producer has taken a slot of a full ring, packets are overwritten; and  *)
(* a caller whose wait resumed early, unnoticed, reuses what its kernels   *)
(* still use.  The three regions of the gap test belong to one caller.     *)
Spoiled == crossed \/ (Mode = "gap" /\ early # {})
Lapsed(p) == Spoiled \/ p \in early

(* Everybody is done; a caller that lapsed may wait for ever. *)
Finished == (\A p \in Producers : pc[p] = "done" \/ Lapsed(p)) /\ UNCHANGED vars

ProducerStep(p) ==
    \/ add_write_index(p) \/ wait_for_slot(p) \/ wait_for_slot_1d(p)
    \/ clear_packet(p) \/ copy_body(p)
    \/ store_header(p) \/ ring_doorbell(p) \/ wait_completion(p)
    \/ wait_completion_1d(p)
    \/ add_write_index_bulk(p) \/ wait_for_chunk(p) \/ store_header_bulk(p)
    \/ ring_doorbell_bulk(p)
    \/ reserve_regions(p) \/ ring_doorbell_gap(p) \/ wait_region(p)

Next ==
    \/ \E p \in Producers : ProducerStep(p) \/ complete_kernel(p)
    \/ launch_packet
    \/ Finished

Spec == Init /\ [][Next]_vars

(* Threads keep running, the packet processor keeps processing what it was *)
(* told of, and kernels end.                                               *)
Fairness ==
    /\ \A p \in Producers : WF_vars(ProducerStep(p)) /\ WF_vars(complete_kernel(p))
    /\ WF_vars(launch_packet)

FairSpec == Spec /\ Fairness

(***************************************************************************)
(* Properties.                                                             *)
(***************************************************************************)
TypeOK ==
    /\ scenario \in Scenarios
    /\ write_index \in Nat /\ read_index \in Nat
    /\ rung \in Nat \cup {-1}
    /\ slots \in [0..QueueSize - 1 -> [header : Headers, body : Packets \cup {NoPacket}]]
    /\ running \in [Producers -> Nat] /\ completed \in [Producers -> Nat]
    /\ signal \in [Producers -> Int]
    /\ pc \in [Producers -> {"reserve", "spin", "clear", "body", "header", "ring",
                             "wait", "chunk", "turn", "filled", "failed", "done"}]
    /\ at \in [Producers -> Nat] /\ i \in [Producers -> 0..NumPackets]
    /\ left \in [Producers -> 0..NumPackets]
    /\ claimed \in Seq(Packets) /\ launched \in Seq(Packets \cup {NoPacket})
    /\ early \in SUBSET Producers /\ crossed \in BOOLEAN

(* A slot is written although the packet in it was not read. *)
WritesOver(p) ==
    /\ pc[p] = (IF Mode = "one_d" THEN "clear" ELSE "body") /\ pc'[p] # pc[p]
    /\ slots[Slot(at[p])].header # "INVALID"

(* The loop of enqueue_dispatch_packet_at does not "block until the queue  *)
(* has an empty packet slot" (queue_utils.c:63).  What the bounds of the   *)
(* loops do guarantee: a packet that the processor has not read yet is     *)
(* overwritten only after somebody was let past a ring that was exactly    *)
(* full (queue_utils.c:67, delta > size), and neither                      *)
(* enqueue_dispatch_packets nor dispatch_kernel_1d_data ever does it.      *)
OverwritesOnlyWhenFull ==
    [][\A p \in Producers : WritesOver(p) => Spoiled /\ Mode \notin {"bulk", "one_d"}]_vars

(* More packets at once than slots: threads that wait for each kernel, a   *)
(* burst to a queue of its own, the three regions of the gap test.         *)
Overloaded ==
    \/ Mode = "concurrent" /\ Cardinality(scenario.producers) > QueueSize
    \/ Mode = "burst" /\ NumPackets > QueueSize
    \/ Mode = "gap" /\ 3 * RegionSize > QueueSize

(* Callers whose packets fit never meet the full ring, unless one of them  *)
(* went on before its kernel had ended: then even 32 threads and 256 slots *)
(* (test_queue_dispatch_concurrent.c:93) are no protection.                *)
FullOnlyWhenOverloaded == crossed => Overloaded \/ early # {}

(* The processor launches, index by index, the packet each index was       *)
(* reserved for: none is lost, repeated, torn or taken half-written,       *)
(* whatever the order in which producers publish and ring the doorbell,    *)
(* and also while some of them go on too early.                            *)
LaunchesWhatWasReserved ==
    ~Spoiled => /\ Len(launched) = read_index /\ Len(launched) <= Len(claimed)
                /\ \A k \in 1..Len(launched) : launched[k] = claimed[k]

(* A caller none of whose waits resumed early reuses its kernel arguments, *)
(* its packet and its signal only when every kernel it has dispatched has  *)
(* ended (test_queue_dispatch_concurrent.c:184, wait until the kernel      *)
(* complete), whatever the others do: their early waits are confined to    *)
(* their own signals.  The signals of test_queue_multi_gap.c:296 are       *)
(* destroyed only then, and no kernel of a region runs before the region   *)
(* is filled.                                                              *)
Settled(p) == completed[p] = i[p]
ReusesAfterCompletion ==
    \A p \in Producers : ~Lapsed(p) =>
        ((\/ pc[p] = "done" /\ Mode # "bulk"
          \/ pc[p] = "turn"
          \/ pc[p] = "reserve" /\ Mode # "burst") => Settled(p))

(* Every producer gets all its packets through and its kernels done, also  *)
(* when others resume early; the assertions of test_queue_multi_gap.c:299  *)
(* hold although the doorbell was rung past the gap.  A caller that did    *)
(* resume early may wait for ever: its signal passes 0 on the way to -1.   *)
AllDispatched == \A p \in Producers : <>(Lapsed(p) \/ pc[p] = "done")
=============================================================================
