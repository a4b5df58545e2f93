---------------------------- MODULE AqlQueueProofs ----------------------------
(***************************************************************************)
(* Proofs about AqlQueue, for any number of producers, packets and slots.  *)
(*                                                                         *)
(* They cover threads that wait for each kernel                            *)
(* (test_queue_dispatch_concurrent), a burst from one thread to a queue of *)
(* its own (test_queue_multiple_dispatch), calls of                        *)
(* dispatch_kernel_1d_data from one thread, requests of                    *)
(* enqueue_dispatch_packets no longer than the queue, and the rounds of    *)
(* test_queue_multi_gap, whose three regions fit together (line 94, 3 * 32 *)
(* packets and 128 slots).  The threads, and the packets of a burst, may   *)
(* be more than the queue has slots, and every wait may resume early: the  *)
(* theorems say what still holds then, and until when.                     *)
(*                                                                         *)
(* Packet k is the one of write index k - 1.  What is launched and what is *)
(* overwritten depends on where each packet stands between its reservation *)
(* and its launch, so the invariant follows every packet: OwnInv and       *)
(* HoldInv say whose it is, LaunchInv which of them were launched, SlotInv *)
(* what the ring holds for each of the next QueueSize packets, and RoomInv *)
(* that no other packet has been written.                                  *)
(***************************************************************************)
EXTENDS AqlQueue, FiniteSetTheorems, TLAPS

Fits(s) ==
    /\ IsFiniteSet(s.producers)
    /\ \/ s.mode = "concurrent"
       \/ s.mode \in {"burst", "one_d"} /\ \A p, q \in s.producers : p = q
       \/ s.mode = "bulk" /\ s.packets <= s.size
FitsHere == Fits(scenario)

(* The regions are different and fit into the queue together. *)
GapFits(s) ==
    /\ s.mode = "gap"
    /\ s.region \in Nat \ {0} /\ 3 * s.region <= s.size
    /\ s.regions[1] # s.regions[2] /\ s.regions[1] # s.regions[3] /\ s.regions[2] # s.regions[3]
    /\ s.producers = {s.regions[1], s.regions[2], s.regions[3]}
GapHere == GapFits(scenario)

AllFit == \A s \in Scenarios : Fits(s) \/ GapFits(s)

(* The producer is between its reservation and the doorbell. *)
Busy == {"spin", "clear", "body", "header", "ring"}
Holds(p) == pc[p] \in Busy \cup {"chunk"}
Writes(p) == pc[p] \in {"clear", "body", "header"}

Owner(k) == claimed[k][1]
Number(k) == claimed[k][2]

(* How many packets p has reserved, published and seen launched. *)
Claims(p) == IF Mode = "bulk"
             THEN IF p \in scenario.producers /\ pc[p] # "reserve" THEN NumPackets ELSE 0
             ELSE IF pc[p] \in Busy THEN i[p] + 1 ELSE i[p]
Sent(p) == IF pc[p] = "ring" /\ Mode # "bulk" THEN i[p] + 1 ELSE i[p]
Started(p) == completed[p] + running[p]

BulkLabels == {"reserve", "chunk", "body", "header", "ring", "done"}
OtherLabels == Busy \cup {"reserve", "wait", "done"}

PlaceInv ==
    \A p \in Producers :
        /\ p \notin scenario.producers => pc[p] = "done" /\ i[p] = 0
        /\ pc[p] = "clear" => Mode = "one_d"
        /\ Mode = "bulk" =>
             /\ pc[p] \in BulkLabels
             /\ pc[p] \in {"reserve", "chunk"} => i[p] = 0
             /\ pc[p] \in {"body", "header"} => i[p] < NumPackets
             /\ pc[p] \in {"chunk", "body", "header", "ring"} => left[p] = NumPackets
        /\ Mode # "bulk" =>
             /\ pc[p] \in OtherLabels
             /\ pc[p] \in Busy \cup {"reserve"} => i[p] < NumPackets
             /\ Mode = "burst" /\ p \in scenario.producers /\ pc[p] \in {"wait", "done"}
                  => i[p] = NumPackets

OwnInv ==
    /\ Len(claimed) = write_index
    /\ \A k \in 1..write_index : Owner(k) \in Producers
    /\ \A k \in 1..write_index, p \in Producers : Owner(k) = p => Number(k) < Claims(p)
    /\ \A p \in Producers : \A n \in 0..Claims(p) - 1 :
          \E k \in 1..write_index : claimed[k] = <<p, n>>
    /\ \A k, l \in 1..write_index :
          Owner(k) = Owner(l) => (k < l <=> Number(k) < Number(l))

HoldInv ==
    \A p \in Producers : Holds(p) =>
          \A n \in i[p]..Claims(p) - 1 :
              /\ at[p] + (n - i[p]) + 1 <= write_index
              /\ claimed[at[p] + (n - i[p]) + 1] = <<p, n>>

LaunchInv ==
    /\ Len(launched) = read_index /\ read_index <= write_index
    /\ \A k \in 1..read_index : launched[k] = claimed[k]
    /\ \A k \in 1..write_index, p \in Producers :
          Owner(k) = p => (k <= read_index <=> Number(k) < Started(p))
    /\ \A p \in Producers : Started(p) <= Sent(p)

SignalInv ==
    \A p \in Producers :
        /\ Mode = "burst" => signal[p] = NumPackets - completed[p]
        /\ Mode \in {"concurrent", "one_d"} /\ p \notin early =>
             /\ pc[p] \in Busy => signal[p] = i[p] + 1 - completed[p] /\ completed[p] >= i[p]
             /\ pc[p] = "wait" => signal[p] = i[p] - completed[p] /\ completed[p] >= i[p] - 1
             /\ pc[p] \in {"reserve", "done"} => completed[p] = i[p]
        /\ Mode = "burst" /\ p \notin early /\ pc[p] = "done" => completed[p] = i[p]

RoomInv ==
    /\ \A p \in Producers : Writes(p) => at[p] + (Claims(p) - i[p]) <= read_index + QueueSize
    /\ \A k \in 1..write_index, p \in Producers :
          Owner(k) = p /\ Number(k) < Sent(p) => k <= read_index + QueueSize

RungInv ==
    /\ Mode = "one_d" => rung < write_index
    /\ \A p \in Producers : Mode = "one_d" /\ pc[p] \in Busy => rung < at[p]

(* Packet k of producer p: nobody has begun to write it, it is published,  *)
(* its body is copied.                                                     *)
Untouched(k, p) == Number(k) >= Sent(p) /\ ~(Mode = "one_d" /\ pc[p] \in {"body", "header"})
Published(k, p) == Number(k) < Sent(p)
Copied(k, p) == pc[p] = "header" /\ Number(k) = i[p]

SlotInv ==
    \A k \in (read_index + 1)..(read_index + QueueSize) :
        /\ k > write_index => slots[Slot(k - 1)].header = "INVALID"
        /\ k <= write_index => \A p \in Producers : Owner(k) = p =>
             /\ Untouched(k, p) => slots[Slot(k - 1)].header = "INVALID"
             /\ Published(k, p) =>
                  slots[Slot(k - 1)] = [header |-> "KERNEL_DISPATCH", body |-> claimed[k]]
             /\ Copied(k, p) => slots[Slot(k - 1)].body = claimed[k]

FitInv == TypeOK /\ PlaceInv /\ OwnInv /\ HoldInv /\ LaunchInv /\ SignalInv /\ RoomInv /\ RungInv /\ SlotInv

-----------------------------------------------------------------------------
(***************************************************************************)
(* The ring: packets less than a lap apart have different slots, and a     *)
(* packet has the slot of the one a lap before.                            *)
(***************************************************************************)
(* Division with remainder, for write_index & queue_mask. *)
LEMMA Remainder ==
    ASSUME NEW N \in Nat \ {0}, NEW k \in Nat
    PROVE  /\ k % N \in 0..N - 1 /\ k % N \in Nat /\ k \div N \in Nat
           /\ k = N * (k \div N) + (k % N)
    OBVIOUS

(* Two write indices less than a lap apart have different slots. *)
LEMMA SlotsDiffer ==
    ASSUME NEW N \in Nat \ {0}, NEW k \in Nat, NEW l \in Nat, k < l, l < k + N
    PROVE  k % N # l % N
<1> SUFFICES ASSUME k % N = l % N PROVE FALSE
    OBVIOUS
<1> DEFINE a == k \div N
           b == l \div N
<1>a. a \in Nat /\ k % N \in Nat /\ k = N * a + (k % N)
    BY ONLY N \in Nat \ {0}, k \in Nat, Remainder
<1>b. b \in Nat /\ l = N * b + (l % N)
    BY ONLY N \in Nat \ {0}, l \in Nat, Remainder
<1> HIDE DEF a, b
<1>1. /\ a \in Nat /\ b \in Nat /\ k % N \in Nat
      /\ k = N * a + (k % N) /\ l = N * b + (k % N)
    BY <1>a, <1>b
<1>2. N * a + (k % N) < N * b + (k % N)
    BY <1>1
<1>3. N * b - N * a >= N
    BY <1>1, <1>2
<1> QED
    BY <1>1, <1>3

(* A write index one lap on has the same slot. *)
LEMMA SlotsRepeat ==
    ASSUME NEW N \in Nat \ {0}, NEW k \in Nat
    PROVE  (k + N) % N = k % N
<1> DEFINE a == k \div N
           b == (k + N) \div N
           r == k % N
           t == (k + N) % N
<1>1. a \in Nat /\ r \in 0..N - 1 /\ k = N * a + r
    BY Remainder
<1>2. b \in Nat /\ t \in 0..N - 1 /\ k + N = N * b + t
    BY Remainder, k + N \in Nat
<1> HIDE DEF a, b, r, t
<1>3. N * (b - a - 1) = r - t
    BY <1>1, <1>2
<1>4. b - a - 1 \in Int /\ r - t > -N /\ r - t < N
    BY <1>1, <1>2
<1>5. ASSUME NEW c \in Int, N * c > -N, N * c < N PROVE c = 0
    <2>1. CASE c >= 1
        <3>1. N * c >= N
            BY <2>1
        <3> QED
            BY <3>1, <1>5
    <2>2. CASE c <= -1
        <3>1. N * c <= -N
            BY <2>2
        <3> QED
            BY <3>1, <1>5
    <2> QED
        BY <2>1, <2>2, <1>5
<1>6. b - a - 1 = 0
    BY <1>3, <1>4, <1>5
<1>7. r = t
    BY <1>1, <1>2, <1>6
<1> QED
    BY <1>7 DEF r, t

-----------------------------------------------------------------------------
(***************************************************************************)
(* What the types say, and that a packet is reserved once.                 *)
(***************************************************************************)
(* The scenario's parameters. *)
LEMMA Sizes ==
    ASSUME TypeOK, FitsHere
    PROVE  /\ Fits(scenario)
           /\ Mode \in {"concurrent", "burst", "one_d", "bulk"}
           /\ QueueSize \in Nat \ {0} /\ NumPackets \in Nat \ {0}
           /\ scenario.producers \subseteq Producers
           /\ Mode = "bulk" => NumPackets <= QueueSize
    BY ScenarioAssumption DEF TypeOK, FitsHere, Fits, Mode, QueueSize, NumPackets

(* A producer's counters. *)
LEMMA Counters ==
    ASSUME TypeOK, FitsHere, NEW p \in Producers
    PROVE  /\ at[p] \in Nat /\ i[p] \in 0..NumPackets /\ i[p] \in Nat
           /\ completed[p] \in Nat /\ running[p] \in Nat /\ signal[p] \in Int
           /\ Claims(p) \in Nat /\ Sent(p) \in Nat /\ Started(p) \in Nat
<1>1. NumPackets \in Nat \ {0}
    BY Sizes
<1> QED
    BY <1>1 DEF TypeOK, Claims, Sent, Started

(* A reserved packet: who reserved it and which of its packets it is. *)
LEMMA Reserved ==
    ASSUME TypeOK, FitsHere, OwnInv, NEW k \in 1..write_index
    PROVE  /\ claimed[k] \in Packets /\ claimed[k] = <<Owner(k), Number(k)>>
           /\ Owner(k) \in Producers /\ Number(k) \in Nat /\ Number(k) < NumPackets
           /\ Number(k) < Claims(Owner(k))
<1>1. NumPackets \in Nat \ {0}
    BY Sizes
<1>2. claimed[k] \in Packets
    BY DEF TypeOK, OwnInv
<1> QED
    BY <1>1, <1>2 DEF OwnInv, Packets, Owner, Number

(* No packet is reserved twice. *)
LEMMA ReservedOnce ==
    ASSUME TypeOK, FitsHere, OwnInv, NEW k \in 1..write_index, NEW l \in 1..write_index,
           Owner(k) = Owner(l), Number(k) = Number(l)
    PROVE  k = l
<1>1. Number(k) \in Nat /\ k \in Nat /\ l \in Nat /\ write_index \in Nat
    BY Reserved DEF TypeOK
<1>2. ~(k < l) /\ ~(l < k)
    BY <1>1 DEF OwnInv
<1> QED
    BY <1>1, <1>2

(* The packet a producer is about to write or publish is the one at its    *)
(* local write_index, which was not launched yet.                          *)
LEMMA Current ==
    ASSUME TypeOK, FitsHere, OwnInv, HoldInv, LaunchInv, NEW p \in Producers,
           Holds(p), i[p] < Claims(p)
    PROVE  /\ at[p] + 1 \in 1..write_index
           /\ claimed[at[p] + 1] = <<p, i[p]>>
           /\ Owner(at[p] + 1) = p /\ Number(at[p] + 1) = i[p]
           /\ \A k \in 1..write_index : Owner(k) = p /\ Number(k) = i[p] => k = at[p] + 1
           /\ Sent(p) = i[p] => at[p] >= read_index
<1>1. /\ at[p] \in Nat /\ i[p] \in Nat /\ Claims(p) \in Nat /\ Started(p) \in Nat
      /\ Sent(p) \in Nat /\ read_index \in Nat
    BY Counters DEF TypeOK
<1>2. i[p] \in i[p]..Claims(p) - 1 /\ at[p] + (i[p] - i[p]) + 1 = at[p] + 1
    BY <1>1
<1>3. at[p] + 1 <= write_index /\ claimed[at[p] + 1] = <<p, i[p]>>
    BY <1>2 DEF HoldInv
<1>4. at[p] + 1 \in 1..write_index
    BY <1>1, <1>3 DEF TypeOK
<1>5. Owner(at[p] + 1) = p /\ Number(at[p] + 1) = i[p]
    BY <1>3 DEF Owner, Number
<1>6. \A k \in 1..write_index : Owner(k) = p /\ Number(k) = i[p] => k = at[p] + 1
    BY <1>4, <1>5, ReservedOnce
<1>7. ASSUME Sent(p) = i[p] PROVE at[p] >= read_index
    <2>1. Started(p) <= i[p]
        BY <1>7 DEF LaunchInv
    <2>2. ~(at[p] + 1 <= read_index)
        BY <2>1, <1>1, <1>4, <1>5 DEF LaunchInv
    <2> QED
        BY <2>2, <1>1
<1> QED
    BY <1>3, <1>4, <1>5, <1>6, <1>7

(***************************************************************************)
(* Room.  A thread that waits for each kernel, to its end, has one packet  *)
(* in the queue, so the packets in the queue have different owners and are *)
(* no more than the threads; a burst never has more than its packets.      *)
(***************************************************************************)
(* The packets not yet launched are their owners' last. *)
LEMMA OneEach ==
    ASSUME TypeOK, FitsHere, OwnInv, LaunchInv, SignalInv, PlaceInv,
           Mode = "concurrent", early = {}, NEW k \in 1..write_index, k > read_index
    PROVE  Number(k) = Claims(Owner(k)) - 1 /\ Owner(k) \in scenario.producers
<1> DEFINE p == Owner(k)
<1>1. p \in Producers /\ Number(k) \in Nat /\ Number(k) < Claims(p)
    BY Reserved
<1>2. /\ i[p] \in Nat /\ completed[p] \in Nat /\ running[p] \in Nat
      /\ Started(p) = completed[p] + running[p]
    BY <1>1, Counters DEF Started
<1>3. Number(k) >= Started(p)
    BY <1>1, <1>2 DEF LaunchInv, TypeOK
<1>4. pc[p] \in OtherLabels /\ Claims(p) = IF pc[p] \in Busy THEN i[p] + 1 ELSE i[p]
    BY <1>1 DEF PlaceInv, Claims
<1>5. completed[p] >= Claims(p) - 1
    BY <1>1, <1>2, <1>4 DEF SignalInv, OtherLabels
<1>a. Claims(p) \in Nat
    BY <1>1, Counters
<1> HIDE DEF p
<1>6. Number(k) = Claims(p) - 1
    BY <1>1, <1>2, <1>3, <1>5, <1>a
<1>7. p \in scenario.producers
    BY <1>1, <1>4 DEF PlaceInv, Busy
<1> QED
    BY <1>6, <1>7 DEF p

(* Nobody reserves an index more than a lap ahead of the processor while   *)
(* no wait has resumed early and the callers are not too many.             *)
LEMMA Room ==
    ASSUME TypeOK, FitsHere, OwnInv, LaunchInv, SignalInv, PlaceInv,
           Mode \in {"concurrent", "burst"}, early = {}, ~Overloaded
    PROVE  write_index <= read_index + QueueSize
<1> DEFINE P == scenario.producers
<1>1. /\ QueueSize \in Nat \ {0} /\ NumPackets \in Nat \ {0} /\ IsFiniteSet(P)
    BY Sizes DEF Fits
<1>2. write_index \in Nat /\ read_index \in Nat
    BY DEF TypeOK
<1>3. CASE Mode = "concurrent"
    <2> SUFFICES ASSUME write_index > read_index + QueueSize PROVE FALSE
        BY <1>1, <1>2
    <2> DEFINE S == (read_index + 1)..write_index
               f == [k \in S |-> Owner(k)]
    <2>1. Cardinality(P) <= QueueSize /\ Cardinality(P) \in Nat
        BY <1>1, <1>3, FS_CardinalityType DEF Overloaded
    <2>2. IsFiniteSet(S) /\ Cardinality(S) = write_index - read_index
        <3>1. read_index + 1 \in Int /\ write_index \in Int /\ ~(read_index + 1 > write_index)
            BY <1>1, <1>2
        <3>2. /\ IsFiniteSet(S)
              /\ Cardinality(S) = IF read_index + 1 > write_index THEN 0
                                  ELSE write_index - (read_index + 1) + 1
            BY ONLY <3>1, FS_Interval
        <3> QED
            BY <1>2, <3>1, <3>2
    <2>3. f \in [S -> P]
        BY <1>2, <1>3, OneEach
    <2>4. Cardinality(P) < Cardinality(S)
        BY <1>1, <1>2, <2>1, <2>2
    <2>5. PICK x \in S, y \in S : x # y /\ f[x] = f[y]
        <3> HIDE DEF P, S, f
        <3> QED
            BY ONLY <1>1, <2>2, <2>3, <2>4, FS_PigeonHole
    <2>6. x \in 1..write_index /\ y \in 1..write_index /\ x > read_index /\ y > read_index
        BY <1>2
    <2>7. Owner(x) = Owner(y)
        BY <2>5
    <2>8. Number(x) = Number(y)
        BY <1>3, <2>6, <2>7, OneEach
    <2> QED
        BY <2>5, <2>6, <2>7, <2>8, ReservedOnce
<1>5. CASE Mode = "burst"
    <2> SUFFICES ASSUME write_index > NumPackets PROVE FALSE
        BY <1>1, <1>2, <1>5 DEF Overloaded
    <2> DEFINE S == 1..write_index
               T == 0..NumPackets - 1
               f == [k \in S |-> Number(k)]
    <2>1. IsFiniteSet(S) /\ Cardinality(S) = write_index
        BY <1>1, <1>2, FS_Interval
    <2>2. IsFiniteSet(T) /\ Cardinality(T) = NumPackets
        BY <1>1, FS_Interval
    <2>3. f \in [S -> T]
        BY <1>1, Reserved
    <2>4. Cardinality(T) < Cardinality(S)
        BY <2>1, <2>2
    <2>5. PICK x \in S, y \in S : x # y /\ f[x] = f[y]
        <3> HIDE DEF P, S, T, f
        <3> QED
            BY ONLY <2>1, <2>2, <2>3, <2>4, FS_PigeonHole
    <2>6. ASSUME NEW k \in S PROVE Owner(k) \in P
        <3>1. Owner(k) \in Producers /\ Number(k) \in Nat /\ Number(k) < Claims(Owner(k))
            BY Reserved
        <3> QED
            BY <1>5, <3>1 DEF Claims, PlaceInv, Busy
    <2>7. Owner(x) = Owner(y)
        BY <1>5, <2>6, Sizes DEF Fits, Mode
    <2> QED
        BY <2>5, <2>7, ReservedOnce
<1> QED
    BY <1>3, <1>5

-----------------------------------------------------------------------------
(***************************************************************************)
(* What a step that leaves a producer's counters alone preserves.          *)
(***************************************************************************)
(* Nothing is reserved. *)
LEMMA SameOwn ==
    ASSUME OwnInv, claimed' = claimed, write_index' = write_index,
           \A q \in Producers : Claims(q)' = Claims(q)
    PROVE  OwnInv'
<1>1. \A k : Owner(k)' = Owner(k) /\ Number(k)' = Number(k)
    BY DEF Owner, Number
<1>2. \A p \in Producers : \A n \in 0..Claims(p)' - 1 :
          \E k \in 1..write_index : claimed[k] = <<p, n>>
    BY DEF OwnInv
<1>3. \A k \in 1..write_index, p \in Producers : Owner(k)' = p => Number(k)' < Claims(p)'
    BY <1>1 DEF OwnInv
<1>4. \A k, l \in 1..write_index :
          Owner(k)' = Owner(l)' => (k < l <=> Number(k)' < Number(l)')
    BY <1>1 DEF OwnInv
<1>5. Len(claimed) = write_index /\ \A k \in 1..write_index : Owner(k)' \in Producers
    BY <1>1 DEF OwnInv
<1> QED
    BY <1>2, <1>3, <1>4, <1>5 DEF OwnInv

(* A producer keeps its indices, or goes on to the next one. *)
LEMMA SameHold ==
    ASSUME TypeOK, TypeOK', FitsHere, HoldInv, claimed' = claimed, write_index' = write_index,
           \A q \in Producers :
              Holds(q)' => /\ Holds(q) /\ Claims(q)' = Claims(q)
                           /\ at'[q] - i'[q] = at[q] - i[q] /\ i'[q] >= i[q]
    PROVE  HoldInv'
<1> SUFFICES ASSUME NEW q \in Producers, Holds(q)', NEW n \in i'[q]..(Claims(q)' - 1)
             PROVE  /\ at'[q] + (n - i'[q]) + 1 <= write_index
                    /\ claimed[at'[q] + (n - i'[q]) + 1] = <<q, n>>
    BY DEF HoldInv
<1>1. /\ at[q] \in Nat /\ i[q] \in Nat /\ at'[q] \in Nat /\ i'[q] \in Nat
      /\ Claims(q) \in Nat /\ n \in Int
    <2>1. NumPackets \in Nat /\ NumPackets' \in Nat
        BY Sizes, ScenarioAssumption DEF TypeOK, NumPackets
    <2>2. at'[q] \in Nat /\ i'[q] \in Nat
        BY <2>1 DEF TypeOK
    <2>3. at[q] \in Nat /\ i[q] \in Nat /\ Claims(q) \in Nat
        BY Counters
    <2> QED
        BY <2>2, <2>3
<1>2. n \in i[q]..Claims(q) - 1 /\ at'[q] + (n - i'[q]) + 1 = at[q] + (n - i[q]) + 1
    BY <1>1
<1> QED
    BY <1>2 DEF HoldInv

(* Nothing is launched. *)
LEMMA SameLaunch ==
    ASSUME LaunchInv, UNCHANGED <<claimed, write_index, launched, read_index>>,
           \A q \in Producers : Started(q)' = Started(q) /\ Started(q) <= Sent(q)'
    PROVE  LaunchInv'
<1>1. \A k : Owner(k)' = Owner(k) /\ Number(k)' = Number(k)
    BY DEF Owner, Number
<1> QED
    BY <1>1 DEF LaunchInv

(* Nothing is written. *)
LEMMA SameRoom ==
    ASSUME RoomInv, UNCHANGED <<claimed, write_index, read_index, scenario>>,
           \A q \in Producers : Sent(q)' = Sent(q),
           \A q \in Producers :
              Writes(q)' => /\ Writes(q) /\ at'[q] = at[q] /\ i'[q] = i[q]
                            /\ Claims(q)' = Claims(q)
    PROVE  RoomInv'
<1>1. \A k : Owner(k)' = Owner(k) /\ Number(k)' = Number(k)
    BY DEF Owner, Number
<1> QED
    BY <1>1 DEF RoomInv, QueueSize

LEMMA SameSlots ==
    ASSUME SlotInv, UNCHANGED <<claimed, write_index, read_index, scenario, slots>>,
           \A q \in Producers :
              /\ Sent(q)' = Sent(q)
              /\ pc'[q] = "header" => pc[q] = "header" /\ i'[q] = i[q]
              /\ pc[q] \in {"body", "header"} /\ Mode = "one_d" => pc'[q] \in {"body", "header"}
    PROVE  SlotInv'
<1>1. \A k : Owner(k)' = Owner(k) /\ Number(k)' = Number(k) /\ Slot(k)' = Slot(k)
    BY DEF Owner, Number, Slot, QueueSize
<1>2. \A k : \A q \in Producers : /\ Untouched(k, q)' => Untouched(k, q)
                                  /\ Published(k, q)' => Published(k, q)
                                  /\ Copied(k, q)' => Copied(k, q)
    BY <1>1 DEF Untouched, Published, Copied, Mode
<1> QED
    BY <1>1, <1>2 DEF SlotInv, QueueSize

(* Two different packets of the next lap have different slots. *)
LEMMA Elsewhere ==
    ASSUME TypeOK, FitsHere, NEW k \in (read_index + 1)..(read_index + QueueSize),
           NEW l \in (read_index + 1)..(read_index + QueueSize), k # l
    PROVE  Slot(k - 1) # Slot(l - 1)
<1>1. QueueSize \in Nat \ {0} /\ read_index \in Nat
    BY Sizes DEF TypeOK
<1>2. k - 1 \in Nat /\ l - 1 \in Nat
    BY <1>1
<1>3. CASE k < l
    <2>1. k - 1 < l - 1 /\ l - 1 < (k - 1) + QueueSize
        BY <1>1, <1>3
    <2> QED
        BY <1>1, <1>2, <2>1, SlotsDiffer DEF Slot
<1>4. CASE l < k
    <2>1. l - 1 < k - 1 /\ k - 1 < (l - 1) + QueueSize
        BY <1>1, <1>4
    <2> QED
        BY <1>1, <1>2, <2>1, SlotsDiffer DEF Slot
<1> QED
    BY <1>1, <1>3, <1>4

-----------------------------------------------------------------------------
(***************************************************************************)
(* The initial states and the steps.                                       *)
(***************************************************************************)
LEMMA InitFit ==
    ASSUME Init, FitsHere
    PROVE  FitInv
<1>1. /\ scenario \in Scenarios /\ QueueSize \in Nat \ {0} /\ NumPackets \in Nat \ {0}
      /\ Mode \in {"concurrent", "burst", "one_d", "bulk"}
    BY ScenarioAssumption DEF Init, FitsHere, Fits, Mode, QueueSize, NumPackets
<1>2. /\ write_index = 0 /\ read_index = 0 /\ rung = -1
      /\ claimed = <<>> /\ launched = <<>>
    BY DEF Init
<1>a. \A p \in Producers :
         /\ p \in scenario.producers => pc[p] = "reserve"
         /\ p \notin scenario.producers => pc[p] = "done"
         /\ pc[p] \in {"reserve", "done"}
    BY <1>1 DEF Init
<1>b. \A p \in Producers :
         /\ i[p] = 0 /\ completed[p] = 0 /\ running[p] = 0
         /\ Mode = "burst" => signal[p] = NumPackets
    BY DEF Init
<1>3. TypeOK
    <2>1. /\ running \in [Producers -> Nat] /\ completed \in [Producers -> Nat]
          /\ signal \in [Producers -> Int] /\ at \in [Producers -> Nat]
          /\ i \in [Producers -> 0..NumPackets] /\ left \in [Producers -> 0..NumPackets]
        BY <1>1 DEF Init
    <2>2. pc \in [Producers -> {"reserve", "spin", "clear", "body", "header", "ring",
                                "wait", "chunk", "turn", "filled", "failed", "done"}]
        BY DEF Init
    <2>3. slots \in [0..QueueSize - 1 -> [header : Headers, body : Packets \cup {NoPacket}]]
        BY DEF Init, Empty, Headers
    <2>4. early \in SUBSET Producers /\ crossed \in BOOLEAN
        BY DEF Init
    <2> QED
        BY <1>1, <1>2, <2>1, <2>2, <2>3, <2>4 DEF TypeOK
<1>4. PlaceInv
    <2> SUFFICES ASSUME NEW p \in Producers
                 PROVE  /\ p \notin scenario.producers => pc[p] = "done" /\ i[p] = 0
                        /\ pc[p] \in {"reserve", "done"}
                        /\ pc[p] = "reserve" => i[p] = 0 /\ i[p] < NumPackets
                        /\ p \in scenario.producers => pc[p] = "reserve"
        BY <1>b DEF PlaceInv, BulkLabels, OtherLabels, Busy
    <2> QED
        BY <1>1, <1>a, <1>b
<1>5. \A p \in Producers : Claims(p) = 0 /\ Sent(p) = 0 /\ Started(p) = 0
                           /\ ~Holds(p) /\ ~Writes(p)
    <2> SUFFICES ASSUME NEW p \in Producers
                 PROVE  Claims(p) = 0 /\ Sent(p) = 0 /\ Started(p) = 0 /\ ~Holds(p) /\ ~Writes(p)
        OBVIOUS
    <2>1. ~Holds(p) /\ ~Writes(p) /\ pc[p] \notin Busy
        BY <1>a DEF Holds, Writes, Busy
    <2>2. Started(p) = 0
        BY <1>b DEF Started
    <2>3. Sent(p) = 0
        BY <1>a, <1>b DEF Sent
    <2>4. Claims(p) = 0
        BY <1>a, <1>b, <2>1 DEF Claims
    <2> QED
        BY <2>1, <2>2, <2>3, <2>4
<1>6. OwnInv /\ HoldInv /\ LaunchInv /\ RoomInv
    BY <1>2, <1>5 DEF OwnInv, HoldInv, LaunchInv, RoomInv
<1>7. SignalInv
    <2> SUFFICES ASSUME NEW p \in Producers
                 PROVE  /\ Mode = "burst" => signal[p] = NumPackets - completed[p]
                        /\ pc[p] \in {"reserve", "done"} /\ completed[p] = i[p]
        BY DEF SignalInv, Busy
    <2> QED
        BY <1>1, <1>a, <1>b
<1>8. RungInv
    BY <1>2, <1>a DEF RungInv, Busy
<1>9. SlotInv
    <2>1. ASSUME NEW k \in 1..QueueSize PROVE slots[Slot(k - 1)].header = "INVALID"
        <3>1. k - 1 \in Nat /\ (k - 1) % QueueSize \in 0..QueueSize - 1
            BY <1>1, Remainder
        <3> QED
            BY <3>1 DEF Init, Empty, Slot
    <2> QED
        BY <1>1, <1>2, <2>1 DEF SlotInv
<1> QED
    BY <1>3, <1>4, <1>6, <1>7, <1>8, <1>9 DEF FitInv

(* In the scenarios that fit nobody takes a step of test_queue_multi_gap. *)
LEMMA FitSteps ==
    ASSUME TypeOK, FitsHere, [Next]_vars
    PROVE  \/ \E p \in Producers :
                \/ add_write_index(p) \/ add_write_index_bulk(p)
                \/ wait_for_slot(p) \/ wait_for_slot_1d(p) \/ wait_for_chunk(p)
                \/ clear_packet(p) \/ copy_body(p) \/ store_header(p) \/ store_header_bulk(p)
                \/ ring_doorbell(p) \/ ring_doorbell_bulk(p)
                \/ wait_completion(p) \/ wait_completion_1d(p) \/ complete_kernel(p)
           \/ launch_packet
           \/ UNCHANGED vars
<1>1. Mode # "gap"
    BY Sizes
<1> QED
    BY <1>1 DEF Next, ProducerStep, Finished, reserve_regions, ring_doorbell_gap, wait_region

(* A slot is one of the ring's. *)
LEMMA SlotInRing ==
    ASSUME TypeOK, FitsHere, NEW k \in Nat
    PROVE  Slot(k) \in 0..QueueSize - 1 /\ Slot(k) \in DOMAIN slots
<1>1. QueueSize \in Nat \ {0}
    BY Sizes
<1>2. k % QueueSize \in 0..QueueSize - 1
    BY <1>1, Remainder
<1> QED
    BY <1>2 DEF Slot, TypeOK

(* Every step keeps the types. *)
LEMMA NextType ==
    ASSUME TypeOK, PlaceInv, FitsHere, [Next]_vars
    PROVE  TypeOK'
<1>1. /\ NumPackets \in Nat \ {0} /\ QueueSize \in Nat \ {0} /\ 0 \in 0..NumPackets
      /\ Mode = "bulk" => NumPackets <= QueueSize
    BY Sizes
<1>a. /\ scenario' = scenario /\ NumPackets' = NumPackets /\ QueueSize' = QueueSize
      /\ Packets' = Packets
    <2>1. scenario' = scenario
        BY FitSteps DEF add_write_index, add_write_index_bulk, wait_for_slot, wait_for_slot_1d,
           wait_for_chunk, clear_packet, copy_body, store_header, store_header_bulk,
           ring_doorbell, ring_doorbell_bulk, wait_completion, wait_completion_1d,
           complete_kernel, launch_packet, vars
    <2> QED
        BY <2>1 DEF NumPackets, QueueSize, Packets
<1> USE <1>a DEF TypeOK, Goto, queue, device, locals, lapses
<1>2. ASSUME NEW p \in Producers,
             add_write_index(p) \/ add_write_index_bulk(p)
      PROVE  TypeOK'
    <2>1. /\ i[p] \in 0..NumPackets /\ p \notin scenario.producers => pc[p] = "done"
          /\ Mode # "bulk" /\ pc[p] = "reserve" => i[p] < NumPackets
        BY <1>2 DEF PlaceInv, Busy
    <2>2. CASE add_write_index(p)
        <3>1. <<p, i[p]>> \in Packets
            BY <1>1, <2>1, <2>2 DEF add_write_index, Packets
        <3>2. claimed' \in Seq(Packets)
            BY <3>1, <2>2 DEF add_write_index
        <3> QED
            BY SMTT(20), <1>1, <3>2, <2>2 DEF add_write_index
    <2>3. CASE add_write_index_bulk(p)
        <3>1. [n \in 1..NumPackets |-> <<p, n - 1>>] \in Seq(Packets)
            <4>1. \A n \in 1..NumPackets : <<p, n - 1>> \in Packets
                BY <1>1 DEF Packets
            <4> QED
                BY <1>1, <4>1
        <3>2. claimed' \in Seq(Packets)
            BY <3>1, <2>3 DEF add_write_index_bulk
        <3>3. write_index' \in Nat /\ at' \in [Producers -> Nat]
            BY <1>1, <2>3 DEF add_write_index_bulk
        <3>4. left' \in [Producers -> 0..NumPackets]
            BY <1>1, <2>3 DEF add_write_index_bulk
        <3> QED
            BY <3>2, <3>3, <3>4, <2>3 DEF add_write_index_bulk
    <2> QED
        BY <1>2, <2>2, <2>3
<1>3. ASSUME NEW p \in Producers,
             wait_for_slot(p) \/ wait_for_slot_1d(p) \/ wait_completion(p) \/ wait_completion_1d(p)
      PROVE  TypeOK'
    <2>1. UNCHANGED <<scenario, queue, device, locals, claimed, launched>>
        BY <1>3 DEF wait_for_slot, wait_for_slot_1d, wait_completion, wait_completion_1d
    <2>2. pc' \in [Producers -> {"reserve", "spin", "clear", "body", "header", "ring",
                                 "wait", "chunk", "turn", "filled", "failed", "done"}]
        BY <1>3 DEF wait_for_slot, wait_for_slot_1d, wait_completion, wait_completion_1d
    <2>3. early' \in SUBSET Producers
        BY <1>3 DEF wait_for_slot, wait_for_slot_1d, wait_completion, wait_completion_1d, NoteEarly
    <2>4. crossed' \in BOOLEAN
        BY <1>3 DEF wait_for_slot, wait_for_slot_1d, wait_completion, wait_completion_1d
    <2> QED
        BY <2>1, <2>2, <2>3, <2>4
<1>4. ASSUME NEW p \in Producers, wait_for_chunk(p)
      PROVE  TypeOK'
    BY <1>1, <1>4 DEF wait_for_chunk
<1>5. ASSUME NEW p \in Producers,
             clear_packet(p) \/ copy_body(p) \/ store_header(p) \/ store_header_bulk(p)
      PROVE  TypeOK'
    <2>1. /\ at[p] \in Nat /\ Slot(at[p]) \in 0..QueueSize - 1
          /\ slots[Slot(at[p])] \in [header : Headers, body : Packets \cup {NoPacket}]
        BY SlotInRing
    <2>2. CASE clear_packet(p)
        BY <2>1, <2>2 DEF clear_packet, Headers
    <2>3. CASE copy_body(p)
        <3>1. i[p] < NumPackets /\ i[p] \in 0..NumPackets
            BY <2>3 DEF copy_body, PlaceInv, Busy
        <3>2. <<p, i[p]>> \in Packets
            BY <1>1, <3>1 DEF Packets
        <3>3. slots' \in [0..QueueSize - 1 -> [header : Headers, body : Packets \cup {NoPacket}]]
            BY <2>1, <2>3, <3>2 DEF copy_body
        <3> QED
            BY <2>3, <3>3 DEF copy_body
    <2>4. CASE store_header(p)
        BY <2>1, <2>4 DEF store_header, Headers
    <2>5. CASE store_header_bulk(p)
        <3>1. i[p] < NumPackets /\ i[p] \in 0..NumPackets
            BY <2>5 DEF store_header_bulk, PlaceInv
        <3>2. slots' \in [0..QueueSize - 1 -> [header : Headers, body : Packets \cup {NoPacket}]]
            BY <2>1, <2>5 DEF store_header_bulk, Headers
        <3>3. i' \in [Producers -> 0..NumPackets]
            BY SMTT(20), <1>1, <2>5, <3>1 DEF store_header_bulk
        <3> QED
            BY SMTT(20), <2>5, <3>2, <3>3 DEF store_header_bulk
    <2> QED
        BY <1>5, <2>2, <2>3, <2>4, <2>5
<1>6. ASSUME NEW p \in Producers, ring_doorbell(p)
      PROVE  TypeOK'
    <2>1. i[p] < NumPackets /\ i[p] \in 0..NumPackets
        BY <1>6 DEF ring_doorbell, PlaceInv, Busy
    <2>2. i' \in [Producers -> 0..NumPackets]
        BY <1>1, <1>6, <2>1 DEF ring_doorbell
    <2> QED
        BY <1>6, <2>2 DEF ring_doorbell, Larger
<1>7. ASSUME NEW p \in Producers, ring_doorbell_bulk(p)
      PROVE  TypeOK'
    <2>1. left[p] = NumPackets /\ dispatch_count(p) = NumPackets
        BY <1>1, <1>7 DEF ring_doorbell_bulk, PlaceInv, dispatch_count
    <2>2. left' \in [Producers -> 0..NumPackets]
        BY <1>1, <1>7, <2>1 DEF ring_doorbell_bulk
    <2> QED
        BY <1>7, <2>2 DEF ring_doorbell_bulk, Larger
<1>8. ASSUME NEW p \in Producers, complete_kernel(p)
      PROVE  TypeOK'
    <2>1. running' \in [Producers -> Nat]
        BY <1>8 DEF complete_kernel
    <2>2. signal' \in [Producers -> Int] /\ completed' \in [Producers -> Nat]
        BY <1>8 DEF complete_kernel
    <2> QED
        BY <1>8, <2>1, <2>2 DEF complete_kernel
<1>9. ASSUME launch_packet
      PROVE  TypeOK'
    <2> DEFINE s == Slot(read_index)
               packet == slots[s].body
    <2>1. /\ s \in 0..QueueSize - 1
          /\ slots[s] \in [header : Headers, body : Packets \cup {NoPacket}]
        BY SlotInRing
    <2>2. packet \in Packets \cup {NoPacket}
        BY <2>1
    <2> HIDE DEF s
    <2>3. /\ launched' = Append(launched, packet)
          /\ running' = IF packet = NoPacket THEN running
                        ELSE [running EXCEPT ![packet[1]] = running[packet[1]] + 1]
          /\ slots' = [slots EXCEPT ![s].header = "INVALID"]
          /\ read_index' = read_index + 1
          /\ UNCHANGED <<scenario, write_index, rung, signal, completed, locals, pc, claimed, lapses>>
        BY <1>9 DEF launch_packet, s
    <2> HIDE DEF packet
    <2>4. launched' \in Seq(Packets \cup {NoPacket})
        BY <2>2, <2>3
    <2>5. running' \in [Producers -> Nat]
        BY SMTT(20), <2>2, <2>3 DEF Packets
    <2>6. slots' \in [0..QueueSize - 1 -> [header : Headers, body : Packets \cup {NoPacket}]]
        BY <2>1, <2>3 DEF Headers
    <2>7. read_index' \in Nat /\ rung' \in Nat \cup {-1}
        BY <2>3
    <2>8. UNCHANGED <<scenario, write_index, signal, completed, at, i, left, pc, claimed,
                      early, crossed>>
        BY <2>3
    <2> QED
        BY <2>4, <2>5, <2>6, <2>7, <2>8
<1>10. ASSUME UNCHANGED vars
       PROVE  TypeOK'
    BY <1>10 DEF vars
<1> QED
    BY <1>2, <1>3, <1>4, <1>5, <1>6, <1>7, <1>8, <1>9, <1>10, FitSteps

(***************************************************************************)
(* Each step keeps the invariant.  Most leave the three counters of every  *)
(* producer alone: only a reservation changes Claims, only a header Sent   *)
(* and only a launch Started.                                              *)
(***************************************************************************)
(* wait_for_slot and wait_for_slot_1d: the producer may write its packet. *)
LEMMA SpinFit ==
    ASSUME FitInv, FitsHere, TypeOK', NEW p \in Producers,
           wait_for_slot(p) \/ wait_for_slot_1d(p), ~crossed'
    PROVE  FitInv'
<1> USE DEF FitInv
<1>1. /\ pc[p] = "spin" /\ UNCHANGED <<scenario, queue, device, locals, claimed, launched, early>>
      /\ pc' = [pc EXCEPT ![p] = IF Mode = "one_d" THEN "clear" ELSE "body"]
    BY DEF wait_for_slot, wait_for_slot_1d, Goto, lapses
<1>2. UNCHANGED <<scenario, write_index, read_index, slots, rung, running, signal, completed,
                  at, i, left, claimed, launched, early>>
    BY <1>1 DEF queue, device, locals
<1>3. Mode' = Mode /\ NumPackets' = NumPackets /\ QueueSize' = QueueSize
    BY <1>2 DEF Mode, NumPackets, QueueSize
<1>4. /\ pc'[p] \in {"clear", "body"} /\ (pc'[p] = "clear" => Mode = "one_d")
      /\ \A q \in Producers : q # p => pc'[q] = pc[q]
    BY <1>1 DEF TypeOK
<1>5. Mode # "bulk" /\ i[p] < NumPackets /\ p \in scenario.producers
    BY <1>1 DEF PlaceInv, BulkLabels, Busy
<1>6. \A q \in Producers : /\ Claims(q)' = Claims(q) /\ Started(q)' = Started(q)
                           /\ Sent(q)' = Sent(q) /\ Holds(q)' = Holds(q)
    BY <1>1, <1>2, <1>3, <1>4, <1>5 DEF Claims, Started, Sent, Holds, Busy
<1>7. PlaceInv'
    BY <1>1, <1>2, <1>3, <1>4, <1>5 DEF PlaceInv, OtherLabels, BulkLabels, Busy
<1>8. OwnInv'
    BY <1>2, <1>6, SameOwn
<1>9. HoldInv'
    <2>1. \A q \in Producers : i[q] >= i[q]
        BY Counters
    <2> QED
        BY <1>2, <1>6, <2>1, SameHold
<1>10. LaunchInv'
    BY <1>2, <1>6, SameLaunch DEF LaunchInv
<1>11. SignalInv'
    BY <1>1, <1>2, <1>3, <1>4 DEF SignalInv, Busy
<1>12. RoomInv'
    <2>1. Claims(p) = i[p] + 1 /\ i[p] \in Nat /\ at[p] \in Nat
        BY <1>1, <1>5, Counters DEF Claims, Busy
    <2>a. write_index \in Nat /\ read_index \in Nat
        BY DEF TypeOK
    <2>2. QueueSize \in Nat
        BY Sizes
    <2>3. at[p] + (Claims(p) - i[p]) <= read_index + QueueSize
        <3>1. CASE wait_for_slot(p)
            <4>1. ~(at[p] - read_index > QueueSize)
                BY <3>1 DEF wait_for_slot, EnqueueHasRoom
            <4>2. at[p] - read_index # QueueSize
                <5> SUFFICES ASSUME at[p] - read_index = QueueSize PROVE FALSE
                    OBVIOUS
                <5>1. crossed' = (crossed \/ at[p] - read_index = QueueSize)
                    BY <3>1 DEF wait_for_slot
                <5>2. crossed' = TRUE
                    BY ONLY <5>1, at[p] - read_index = QueueSize
                <5> QED
                    BY <5>2
            <4>3. at[p] + 1 <= read_index + QueueSize
                BY <2>1, <2>a, <2>2, <4>1, <4>2
            <4> QED
                BY <2>1, <2>a, <2>2, <4>3
        <3>2. CASE wait_for_slot_1d(p)
            BY <2>1, <2>a, <2>2, <3>2 DEF wait_for_slot_1d, DispatchHasRoom
        <3> QED
            BY <3>1, <3>2
    <2>4. \A k : Owner(k)' = Owner(k) /\ Number(k)' = Number(k)
        BY <1>2 DEF Owner, Number
    <2>5. \A q \in Producers : q # p /\ Writes(q)' => Writes(q)
        BY <1>4 DEF Writes
    <2>6. \A q \in Producers :
             Writes(q)' => at'[q] + (Claims(q)' - i'[q]) <= read_index' + QueueSize'
        BY <1>2, <1>3, <1>6, <2>3, <2>5 DEF RoomInv
    <2>7. \A k \in 1..write_index', q \in Producers :
             Owner(k)' = q /\ Number(k)' < Sent(q)' => k <= read_index' + QueueSize'
        BY <1>2, <1>3, <1>6, <2>4 DEF RoomInv
    <2> QED
        BY <2>6, <2>7 DEF RoomInv
<1>13. RungInv'
    BY <1>1, <1>2, <1>3, <1>4 DEF RungInv, Busy
<1>14. SlotInv'
    BY <1>1, <1>2, <1>4, <1>6, SameSlots
<1> QED
    BY <1>7, <1>8, <1>9, <1>10, <1>11, <1>12, <1>13, <1>14

(* wait_for_chunk: the packets of a bulk request have room. *)
LEMMA ChunkFit ==
    ASSUME FitInv, FitsHere, TypeOK', NEW p \in Producers, wait_for_chunk(p)
    PROVE  FitInv'
<1> USE DEF FitInv
<1>1. /\ pc[p] = "chunk" /\ pc' = [pc EXCEPT ![p] = "body"] /\ i' = [i EXCEPT ![p] = 0]
      /\ UNCHANGED <<scenario, write_index, read_index, slots, rung, running, signal, completed,
                     at, left, claimed, launched, early>>
    BY DEF wait_for_chunk, Goto, queue, device, lapses
<1>2. Mode' = Mode /\ NumPackets' = NumPackets /\ QueueSize' = QueueSize
    BY <1>1 DEF Mode, NumPackets, QueueSize
<1>3. NumPackets \in Nat \ {0} /\ QueueSize \in Nat \ {0}
    BY Sizes
<1>4. Mode = "bulk" /\ i[p] = 0 /\ left[p] = NumPackets /\ p \in scenario.producers
    BY <1>1 DEF PlaceInv, OtherLabels, Busy
<1>5. /\ pc'[p] = "body" /\ \A q \in Producers : q # p => pc'[q] = pc[q]
      /\ \A q \in Producers : i'[q] = i[q]
    BY <1>1, <1>4 DEF TypeOK
<1>6. \A q \in Producers : /\ Claims(q)' = Claims(q) /\ Started(q)' = Started(q)
                           /\ Sent(q)' = Sent(q) /\ Holds(q)' = Holds(q)
    BY <1>1, <1>2, <1>4, <1>5 DEF Claims, Started, Sent, Holds, Busy
<1>7. PlaceInv'
    BY <1>1, <1>2, <1>3, <1>4, <1>5 DEF PlaceInv, BulkLabels
<1>8. OwnInv'
    BY <1>1, <1>6, SameOwn
<1>9. HoldInv'
    <2>1. \A q \in Producers : i[q] >= i[q]
        BY Counters
    <2> QED
        BY <1>1, <1>5, <1>6, <2>1, SameHold
<1>10. LaunchInv'
    BY <1>1, <1>6, SameLaunch DEF LaunchInv
<1>11. SignalInv'
    BY <1>2, <1>4 DEF SignalInv
<1>12. RoomInv'
    <2>1. Claims(p) = NumPackets /\ at[p] \in Nat /\ read_index \in Nat
        BY <1>1, <1>4, Counters DEF Claims, TypeOK
    <2>2. dispatch_count(p) = NumPackets
        BY <1>3, <1>4, Sizes DEF dispatch_count
    <2>3. at[p] + (Claims(p) - i[p]) <= read_index + QueueSize
        BY <1>3, <1>4, <2>1, <2>2 DEF wait_for_chunk
    <2>4. \A k : Owner(k)' = Owner(k) /\ Number(k)' = Number(k)
        BY <1>1 DEF Owner, Number
    <2>5. \A q \in Producers : q # p /\ Writes(q)' => Writes(q)
        BY <1>5 DEF Writes
    <2>6. \A q \in Producers :
             Writes(q)' => at'[q] + (Claims(q)' - i'[q]) <= read_index' + QueueSize'
        BY <1>1, <1>2, <1>5, <1>6, <2>3, <2>5 DEF RoomInv
    <2>7. \A k \in 1..write_index', q \in Producers :
             Owner(k)' = q /\ Number(k)' < Sent(q)' => k <= read_index' + QueueSize'
        BY <1>1, <1>2, <1>6, <2>4 DEF RoomInv
    <2> QED
        BY <2>6, <2>7 DEF RoomInv
<1>13. RungInv'
    BY <1>2, <1>4 DEF RungInv
<1>14. SlotInv'
    BY <1>1, <1>4, <1>5, <1>6, SameSlots
<1> QED
    BY <1>7, <1>8, <1>9, <1>10, <1>11, <1>12, <1>13, <1>14

(* ring_doorbell: the packet is sent; a burst goes on, the others wait. *)
LEMMA RingFit ==
    ASSUME FitInv, FitsHere, TypeOK', NEW p \in Producers, ring_doorbell(p)
    PROVE  FitInv'
<1> USE DEF FitInv
<1>1. /\ pc[p] = "ring" /\ Mode # "bulk"
      /\ rung' = (IF rung > at[p] THEN rung ELSE at[p]) /\ i' = [i EXCEPT ![p] = i[p] + 1]
      /\ UNCHANGED <<scenario, write_index, read_index, slots, running, signal, completed,
                     at, left, claimed, launched, early>>
    BY DEF ring_doorbell, Larger, device, lapses
<1>2. Mode' = Mode /\ NumPackets' = NumPackets /\ QueueSize' = QueueSize
    BY <1>1 DEF Mode, NumPackets, QueueSize
<1>3. NumPackets \in Nat \ {0} /\ i[p] \in Nat /\ at[p] \in Nat /\ completed[p] \in Nat
    BY Sizes, Counters
<1>4. i[p] < NumPackets /\ p \in scenario.producers
    BY <1>1 DEF PlaceInv, Busy
<1>5. /\ i'[p] = i[p] + 1
      /\ \A q \in Producers : q # p => pc'[q] = pc[q] /\ i'[q] = i[q]
    BY <1>1 DEF TypeOK, ring_doorbell, Goto
<1>6. pc'[p] = IF Mode = "burst" /\ i[p] + 1 < NumPackets THEN "reserve" ELSE "wait"
    BY <1>5 DEF TypeOK, ring_doorbell, Goto
<1>7. \A q \in Producers : /\ Claims(q)' = Claims(q) /\ Started(q)' = Started(q)
                           /\ Sent(q)' = Sent(q)
    BY <1>1, <1>2, <1>5, <1>6 DEF Claims, Started, Sent, Busy
<1>8. PlaceInv'
    BY <1>1, <1>2, <1>3, <1>4, <1>5, <1>6 DEF PlaceInv, OtherLabels, Busy
<1>9. OwnInv'
    BY <1>1, <1>7, SameOwn
<1>10. HoldInv'
    <2>1. \A q \in Producers : i[q] >= i[q]
        BY Counters
    <2>2. \A q \in Producers : Holds(q)' => Holds(q) /\ q # p
        BY <1>5, <1>6 DEF Holds, Busy
    <2> QED
        BY <1>1, <1>5, <1>7, <2>1, <2>2, SameHold
<1>11. LaunchInv'
    BY <1>1, <1>7, SameLaunch DEF LaunchInv
<1>12. SignalInv'
    BY <1>1, <1>2, <1>3, <1>5, <1>6 DEF SignalInv, Busy
<1>13. RoomInv'
    <2>1. \A q \in Producers : Writes(q)' => Writes(q) /\ q # p
        BY <1>5, <1>6 DEF Writes
    <2> QED
        BY <1>1, <1>5, <1>7, <2>1, SameRoom
<1>14. RungInv'
    <2> SUFFICES ASSUME Mode = "one_d" PROVE RungInv'
        BY <1>2 DEF RungInv
    <2>1. rung < write_index /\ pc[p] \in Busy /\ rung \in Int /\ write_index \in Nat
        BY <1>1 DEF RungInv, Busy, TypeOK
    <2>2. at[p] < write_index
        <3>1. Claims(p) = i[p] + 1 /\ Holds(p)
            BY <1>1 DEF Claims, Holds, Busy
        <3>2. at[p] + 1 \in 1..write_index
            BY <1>3, <3>1, Current
        <3> QED
            BY <1>3, <2>1, <3>2
    <2>3. \A q \in Producers : pc'[q] \notin Busy
        <3>1. ASSUME NEW q \in Producers, q # p PROVE pc'[q] = "done"
            <4>1. q \notin scenario.producers
                BY <1>4, <3>1, Sizes DEF Fits, Mode
            <4> QED
                BY <1>5, <3>1, <4>1 DEF PlaceInv
        <3> QED
            BY <1>6, <3>1 DEF Busy
    <2> QED
        BY <1>1, <1>3, <2>1, <2>2, <2>3 DEF RungInv
<1>15. SlotInv'
    <2>1. \A q \in Producers :
             /\ pc'[q] = "header" => pc[q] = "header" /\ i'[q] = i[q]
             /\ pc[q] \in {"body", "header"} => pc'[q] \in {"body", "header"}
        BY <1>1, <1>5, <1>6
    <2> QED
        BY <1>1, <1>7, <2>1, SameSlots
<1> QED
    BY <1>8, <1>9, <1>10, <1>11, <1>12, <1>13, <1>14, <1>15

(* ring_doorbell_bulk: the request is sent and the call returns. *)
LEMMA RingBulkFit ==
    ASSUME FitInv, FitsHere, TypeOK', NEW p \in Producers, ring_doorbell_bulk(p)
    PROVE  FitInv'
<1> USE DEF FitInv
<1>1. /\ pc[p] = "ring" /\ Mode = "bulk" /\ left' = [left EXCEPT ![p] = left[p] - dispatch_count(p)]
      /\ UNCHANGED <<scenario, write_index, read_index, slots, running, signal, completed,
                     at, i, claimed, launched, early>>
    BY DEF ring_doorbell_bulk, device, lapses
<1>2. Mode' = Mode /\ NumPackets' = NumPackets /\ QueueSize' = QueueSize
    BY <1>1 DEF Mode, NumPackets, QueueSize
<1>3. NumPackets \in Nat \ {0} /\ QueueSize \in Nat /\ NumPackets <= QueueSize
    BY <1>1, Sizes
<1>4. left[p] = NumPackets /\ p \in scenario.producers
    BY <1>1 DEF PlaceInv
<1>5. dispatch_count(p) = NumPackets
    BY <1>3, <1>4 DEF dispatch_count
<1>6. left'[p] = 0
    BY <1>1, <1>3, <1>4, <1>5 DEF TypeOK
<1>7. /\ pc'[p] = "done"
      /\ \A q \in Producers : q # p => pc'[q] = pc[q] /\ left'[q] = left[q]
    BY <1>1, <1>6 DEF TypeOK, ring_doorbell_bulk, Goto
<1>8. \A q \in Producers : /\ Claims(q)' = Claims(q) /\ Started(q)' = Started(q)
                           /\ Sent(q)' = Sent(q)
    BY <1>1, <1>2, <1>4, <1>7 DEF Claims, Started, Sent, Busy
<1>9. PlaceInv'
    BY <1>1, <1>2, <1>4, <1>7 DEF PlaceInv, BulkLabels
<1>10. OwnInv'
    BY <1>1, <1>8, SameOwn
<1>11. HoldInv'
    <2>1. \A q \in Producers : i[q] >= i[q]
        BY Counters
    <2>2. \A q \in Producers : Holds(q)' => Holds(q)
        BY <1>7 DEF Holds, Busy
    <2> QED
        BY <1>1, <1>8, <2>1, <2>2, SameHold
<1>12. LaunchInv'
    BY <1>1, <1>8, SameLaunch DEF LaunchInv
<1>13. SignalInv' /\ RungInv'
    BY <1>1, <1>2 DEF SignalInv, RungInv
<1>14. RoomInv'
    <2>1. \A q \in Producers : Writes(q)' => Writes(q)
        BY <1>7 DEF Writes
    <2> QED
        BY <1>1, <1>8, <2>1, SameRoom
<1>15. SlotInv'
    <2>1. \A q \in Producers :
             /\ pc'[q] = "header" => pc[q] = "header"
             /\ pc[q] \in {"body", "header"} => pc'[q] \in {"body", "header"}
        BY <1>1, <1>7
    <2> QED
        BY <1>1, <1>8, <2>1, SameSlots
<1> QED
    BY <1>9, <1>10, <1>11, <1>12, <1>13, <1>14, <1>15

(* wait_completion and wait_completion_1d: when the signal is 0 every      *)
(* kernel has ended; a caller that goes on before that is noted in early.  *)
LEMMA WaitFit ==
    ASSUME FitInv, FitsHere, TypeOK', NEW p \in Producers, wait_completion(p) \/ wait_completion_1d(p)
    PROVE  FitInv'
<1> USE DEF FitInv
<1>1. /\ pc[p] = "wait" /\ pc' = [pc EXCEPT ![p] = pc'[p]]
      /\ pc'[p] \in {"wait", IF i[p] < NumPackets THEN "reserve" ELSE "done"}
      /\ UNCHANGED <<scenario, write_index, read_index, slots, rung, running, signal, completed,
                     at, i, left, claimed, launched>>
    BY DEF TypeOK, wait_completion, wait_completion_1d, Goto, queue, device, locals
<1>2. Mode' = Mode /\ NumPackets' = NumPackets /\ QueueSize' = QueueSize
    BY <1>1 DEF Mode, NumPackets, QueueSize
<1>3. /\ NumPackets \in Nat \ {0} /\ i[p] \in 0..NumPackets /\ i[p] \in Nat
      /\ completed[p] \in Nat
    BY Sizes, Counters
<1>4. Mode \in {"concurrent", "burst", "one_d"} /\ p \in scenario.producers
    <2>1. Mode # "bulk" /\ p \in scenario.producers
        BY <1>1 DEF PlaceInv, BulkLabels
    <2> QED
        BY <2>1, Sizes
<1>5. early \subseteq early' /\ (pc'[p] = "wait" \/ signal[p] = 0 \/ p \in early')
    BY <1>1 DEF wait_completion, wait_completion_1d, NoteEarly, Goto, lapses, TypeOK
<1>6. /\ Mode = "burst" => i[p] = NumPackets
      /\ signal[p] = 0 /\ p \notin early => completed[p] = i[p]
    BY <1>1, <1>3, <1>4 DEF SignalInv, PlaceInv
<1>7. \A q \in Producers : q # p => pc'[q] = pc[q]
    BY <1>1 DEF TypeOK
<1>8. \A q \in Producers : /\ Claims(q)' = Claims(q) /\ Started(q)' = Started(q)
                           /\ Sent(q)' = Sent(q) /\ Holds(q)' = Holds(q) /\ Writes(q)' = Writes(q)
    BY <1>1, <1>2, <1>4, <1>7 DEF Claims, Started, Sent, Busy, Holds, Writes
<1>9. PlaceInv'
    BY <1>1, <1>2, <1>3, <1>4, <1>6, <1>7 DEF PlaceInv, OtherLabels, Busy
<1>10. OwnInv'
    BY <1>1, <1>8, SameOwn
<1>11. HoldInv'
    <2>1. \A q \in Producers : i[q] >= i[q]
        BY Counters
    <2> QED
        BY <1>1, <1>8, <2>1, SameHold
<1>12. LaunchInv'
    BY <1>1, <1>8, SameLaunch DEF LaunchInv
<1>13. SignalInv'
    <2> SUFFICES ASSUME NEW q \in Producers
                 PROVE  /\ Mode = "burst" => signal[q] = NumPackets - completed[q]
                        /\ Mode \in {"concurrent", "one_d"} /\ q \notin early' =>
                             /\ pc'[q] \in Busy =>
                                  signal[q] = i[q] + 1 - completed[q] /\ completed[q] >= i[q]
                             /\ pc'[q] = "wait" =>
                                  signal[q] = i[q] - completed[q] /\ completed[q] >= i[q] - 1
                             /\ pc'[q] \in {"reserve", "done"} => completed[q] = i[q]
                        /\ Mode = "burst" /\ q \notin early' /\ pc'[q] = "done" =>
                             completed[q] = i[q]
        BY <1>1, <1>2 DEF SignalInv
    <2>1. CASE q # p
        BY <1>5, <1>7, <2>1 DEF SignalInv
    <2>2. CASE q = p
        BY <1>1, <1>5, <1>6, <2>2 DEF SignalInv, Busy
    <2> QED
        BY <2>1, <2>2
<1>14. RoomInv'
    BY <1>1, <1>8, SameRoom
<1>15. RungInv'
    BY <1>1, <1>2, <1>7 DEF RungInv, Busy
<1>16. SlotInv'
    <2>1. \A q \in Producers :
             /\ pc'[q] = "header" => pc[q] = "header"
             /\ pc[q] \in {"body", "header"} => pc'[q] \in {"body", "header"}
        BY <1>1, <1>7
    <2> QED
        BY <1>1, <1>8, <2>1, SameSlots
<1> QED
    BY <1>9, <1>10, <1>11, <1>12, <1>13, <1>14, <1>15, <1>16

(* complete_kernel: a launched kernel ends. *)
LEMMA CompleteFit ==
    ASSUME FitInv, FitsHere, TypeOK', NEW p \in Producers, complete_kernel(p)
    PROVE  FitInv'
<1> USE DEF FitInv
<1>1. /\ running[p] > 0 /\ running' = [running EXCEPT ![p] = running[p] - 1]
      /\ signal' = [signal EXCEPT ![p] = signal[p] - 1]
      /\ completed' = [completed EXCEPT ![p] = completed[p] + 1]
      /\ UNCHANGED <<scenario, write_index, read_index, slots, rung, at, i, left, pc,
                     claimed, launched, early>>
    BY DEF complete_kernel, queue, locals, lapses
<1>2. Mode' = Mode /\ NumPackets' = NumPackets /\ QueueSize' = QueueSize
    BY <1>1 DEF Mode, NumPackets, QueueSize
<1>3. /\ NumPackets \in Nat \ {0} /\ i[p] \in Nat /\ running[p] \in Nat
      /\ completed[p] \in Nat /\ signal[p] \in Int
    BY Sizes, Counters
<1>4. /\ running'[p] = running[p] - 1 /\ completed'[p] = completed[p] + 1
      /\ signal'[p] = signal[p] - 1
      /\ \A q \in Producers : q # p => /\ running'[q] = running[q] /\ signal'[q] = signal[q]
                                       /\ completed'[q] = completed[q]
    BY <1>1 DEF TypeOK
<1>5. \A q \in Producers : /\ Claims(q)' = Claims(q) /\ Sent(q)' = Sent(q)
                           /\ Holds(q)' = Holds(q) /\ Writes(q)' = Writes(q)
    BY <1>1, <1>2 DEF Claims, Sent, Holds, Writes
<1>6. \A q \in Producers : Started(q)' = Started(q)
    BY <1>3, <1>4 DEF Started
<1>7. PlaceInv'
    BY <1>1, <1>2 DEF PlaceInv
<1>8. OwnInv'
    BY <1>1, <1>5, SameOwn
<1>9. HoldInv'
    <2>1. \A q \in Producers : i[q] >= i[q]
        BY Counters
    <2> QED
        BY <1>1, <1>5, <2>1, SameHold
<1>10. LaunchInv'
    BY <1>1, <1>5, <1>6, SameLaunch DEF LaunchInv
<1>11. SignalInv'
    <2>1. completed[p] + running[p] <= Sent(p)
        BY DEF LaunchInv, Started
    <2>2. completed[p] < Sent(p)
        BY <1>1, <1>3, <2>1, Counters
    <2>3. pc[p] \in {"reserve", "done"} => completed[p] < i[p]
        BY <2>2 DEF Sent
    <2> QED
        BY <1>1, <1>2, <1>3, <1>4, <2>3 DEF SignalInv
<1>12. RoomInv'
    BY <1>1, <1>5, SameRoom
<1>13. RungInv'
    BY <1>1, <1>2 DEF RungInv
<1>14. SlotInv'
    BY <1>1, <1>5, SameSlots
<1> QED
    BY <1>7, <1>8, <1>9, <1>10, <1>11, <1>12, <1>13, <1>14

(* The packet a producer is writing is one of the next lap. *)
LEMMA CurrentSlot ==
    ASSUME FitInv, FitsHere, NEW p \in Producers, Writes(p), i[p] < Claims(p)
    PROVE  /\ at[p] \in Nat /\ i[p] \in Nat /\ Claims(p) \in Nat
           /\ Sent(p) = i[p] /\ Holds(p)
           /\ at[p] + 1 \in 1..write_index
           /\ at[p] + 1 \in (read_index + 1)..(read_index + QueueSize)
           /\ claimed[at[p] + 1] = <<p, i[p]>>
           /\ Owner(at[p] + 1) = p /\ Number(at[p] + 1) = i[p]
           /\ \A k \in 1..write_index : Owner(k) = p /\ Number(k) = i[p] => k = at[p] + 1
<1> USE DEF FitInv
<1>1. /\ i[p] \in Nat /\ at[p] \in Nat /\ Claims(p) \in Nat /\ Sent(p) = i[p] /\ Holds(p)
    BY Counters DEF Writes, Sent, Holds, Busy
<1>2. QueueSize \in Nat \ {0}
    BY Sizes
<1>3. read_index \in Nat /\ write_index \in Nat
    BY DEF TypeOK
<1>4. /\ at[p] + 1 \in 1..write_index /\ claimed[at[p] + 1] = <<p, i[p]>>
      /\ Owner(at[p] + 1) = p /\ Number(at[p] + 1) = i[p] /\ at[p] >= read_index
      /\ \A k \in 1..write_index : Owner(k) = p /\ Number(k) = i[p] => k = at[p] + 1
    BY <1>1, Current
<1>5. at[p] + (Claims(p) - i[p]) <= read_index + QueueSize
    BY DEF RoomInv
<1>6. at[p] + 1 \in (read_index + 1)..(read_index + QueueSize)
    BY <1>1, <1>2, <1>3, <1>4, <1>5
<1> QED
    BY <1>1, <1>4, <1>6

(* A producer writes the slot of its current packet c: what the ring holds *)
(* for every other packet stays as it was.                                 *)
LEMMA WriteSlot ==
    ASSUME FitInv, FitsHere, NEW p \in Producers, Writes(p), i[p] < Claims(p),
           NEW c \in Nat, c = at[p] + 1,
           UNCHANGED <<claimed, write_index, read_index, scenario>>,
           \A s \in 0..QueueSize - 1 : s # Slot(c - 1) => slots'[s] = slots[s],
           \A q \in Producers : q # p => Sent(q)' = Sent(q) /\ pc'[q] = pc[q] /\ i'[q] = i[q],
           Sent(p)' = i[p] \/ Sent(p)' = i[p] + 1,
           pc'[p] = "header" => i'[p] = i[p],
           Untouched(c, p)' => slots'[Slot(c - 1)].header = "INVALID",
           Published(c, p)' =>
              slots'[Slot(c - 1)] = [header |-> "KERNEL_DISPATCH", body |-> claimed[c]],
           Copied(c, p)' => slots'[Slot(c - 1)].body = claimed[c]
    PROVE  SlotInv'
<1> USE DEF FitInv
<1>1. i[p] \in Nat /\ at[p] \in Nat /\ Claims(p) \in Nat /\ Sent(p) = i[p]
    BY CurrentSlot
<1>2. /\ QueueSize \in Nat \ {0} /\ read_index \in Nat /\ write_index \in Nat
      /\ QueueSize' = QueueSize /\ Mode' = Mode
    <2>1. QueueSize \in Nat \ {0}
        BY Sizes
    <2> QED
        BY <2>1 DEF TypeOK, QueueSize, Mode
<1>3. /\ c \in 1..write_index /\ c >= read_index + 1 /\ Owner(c) = p
      /\ \A k \in 1..write_index : Owner(k) = p /\ Number(k) = i[p] => k = c
    BY <1>2, CurrentSlot
<1>4. c <= read_index + QueueSize
    BY <1>2, CurrentSlot
<1>5. \A k : Owner(k)' = Owner(k) /\ Number(k)' = Number(k) /\ Slot(k)' = Slot(k)
    BY <1>2 DEF Owner, Number, Slot
<1>6. ASSUME NEW k \in (read_index + 1)..(read_index + QueueSize), k # c
      PROVE  slots'[Slot(k - 1)] = slots[Slot(k - 1)]
    <2>1. c \in (read_index + 1)..(read_index + QueueSize) /\ k - 1 \in Nat
        BY <1>2, <1>3, <1>4
    <2>2. Slot(k - 1) # Slot(c - 1)
        BY <1>6, <2>1, Elsewhere
    <2>3. Slot(k - 1) \in 0..QueueSize - 1
        BY <2>1, SlotInRing
    <2> QED
        BY <2>2, <2>3
<1>7. ASSUME NEW k \in (read_index + 1)..(read_index + QueueSize), k > write_index
      PROVE  slots'[Slot(k - 1)].header = "INVALID"
    <2>1. k # c
        BY <1>2, <1>3, <1>7
    <2> QED
        BY <1>6, <1>7, <2>1 DEF SlotInv
<1>8. ASSUME NEW k \in (read_index + 1)..(read_index + QueueSize), k <= write_index,
             NEW q \in Producers, Owner(k) = q
      PROVE  /\ Untouched(k, q)' => slots'[Slot(k - 1)].header = "INVALID"
             /\ Published(k, q)' =>
                  slots'[Slot(k - 1)] = [header |-> "KERNEL_DISPATCH", body |-> claimed[k]]
             /\ Copied(k, q)' => slots'[Slot(k - 1)].body = claimed[k]
    <2>0. k \in 1..write_index
        BY <1>2, <1>8
    <2>1. CASE k = c
        BY <1>3, <1>8, <2>1
    <2>2. CASE k # c
        <3>1. /\ Untouched(k, q) => slots[Slot(k - 1)].header = "INVALID"
              /\ Published(k, q) =>
                   slots[Slot(k - 1)] = [header |-> "KERNEL_DISPATCH", body |-> claimed[k]]
              /\ Copied(k, q) => slots[Slot(k - 1)].body = claimed[k]
            BY <1>8 DEF SlotInv
        <3>2. /\ Untouched(k, q)' => Untouched(k, q)
              /\ Published(k, q)' => Published(k, q)
              /\ Copied(k, q)' => Copied(k, q)
            <4>1. CASE q # p
                BY <1>2, <1>5, <4>1 DEF Untouched, Published, Copied
            <4>2. CASE q = p
                <5>1. Number(k) # i[p] /\ Number(k) \in Nat /\ Number(k) < Claims(p)
                    BY <1>3, <1>8, <2>0, <2>2, <4>2, Reserved
                <5>2. Copied(k, q)' => Copied(k, q)
                    BY <1>5, <4>2, <5>1 DEF Copied
                <5>3. Published(k, q)' => Published(k, q)
                    BY <1>1, <1>5, <4>2, <5>1 DEF Published
                <5>4. Untouched(k, q)' => Untouched(k, q)
                    <6>1. Untouched(k, q)' => Number(k) >= Sent(p)
                        BY <1>1, <1>5, <4>2, <5>1 DEF Untouched
                    <6>2. Mode # "bulk" => Claims(p) = i[p] + 1
                        BY <1>1 DEF Claims, Writes, Busy
                    <6>3. Number(k) >= Sent(p) => Mode # "one_d"
                        BY <1>1, <5>1, <6>2
                    <6> QED
                        BY <4>2, <6>1, <6>3 DEF Untouched
                <5> QED
                    BY <5>2, <5>3, <5>4
            <4> QED
                BY <4>1, <4>2
        <3>3. slots'[Slot(k - 1)] = slots[Slot(k - 1)]
            BY <1>6, <2>2
        <3>4. Untouched(k, q)' => slots'[Slot(k - 1)].header = "INVALID"
            BY <3>1, <3>2, <3>3
        <3>5. Published(k, q)' =>
                slots'[Slot(k - 1)] = [header |-> "KERNEL_DISPATCH", body |-> claimed[k]]
            BY <3>1, <3>2, <3>3
        <3>6. Copied(k, q)' => slots'[Slot(k - 1)].body = claimed[k]
            BY <3>1, <3>2, <3>3
        <3> QED
            BY <3>4, <3>5, <3>6
    <2> QED
        BY <2>1, <2>2
<1> QED
    BY <1>2, <1>5, <1>7, <1>8 DEF SlotInv

(* clear_packet and copy_body: the producer fills its slot. *)
LEMMA FillFit ==
    ASSUME FitInv, FitsHere, TypeOK', NEW p \in Producers, clear_packet(p) \/ copy_body(p)
    PROVE  FitInv'
<1> USE DEF FitInv
<1>1. /\ pc[p] \in {"clear", "body"}
      /\ pc' = [pc EXCEPT ![p] = IF pc[p] = "clear" THEN "body" ELSE "header"]
      /\ UNCHANGED <<scenario, write_index, read_index, rung, running, signal, completed,
                     at, i, left, claimed, launched, early>>
    BY DEF clear_packet, copy_body, Goto, device, locals, lapses
<1>2. Mode' = Mode /\ NumPackets' = NumPackets /\ QueueSize' = QueueSize
    BY <1>1 DEF Mode, NumPackets, QueueSize
<1>3. NumPackets \in Nat \ {0} /\ i[p] \in Nat /\ at[p] \in Nat
    BY Sizes, Counters
<1>4. i[p] < NumPackets /\ p \in scenario.producers /\ (pc[p] = "clear" => Mode = "one_d")
    BY <1>1 DEF PlaceInv, Busy
<1>5. /\ pc'[p] = (IF pc[p] = "clear" THEN "body" ELSE "header")
      /\ \A q \in Producers : q # p => pc'[q] = pc[q]
    BY <1>1 DEF TypeOK
<1>6. \A q \in Producers : /\ Claims(q)' = Claims(q) /\ Started(q)' = Started(q)
                           /\ Sent(q)' = Sent(q) /\ Holds(q)' = Holds(q) /\ Writes(q)' = Writes(q)
    BY <1>1, <1>2, <1>4, <1>5 DEF Claims, Started, Sent, Busy, Holds, Writes
<1>7. PlaceInv'
    BY <1>1, <1>2, <1>3, <1>4, <1>5 DEF PlaceInv, BulkLabels, OtherLabels, Busy
<1>8. OwnInv'
    BY <1>1, <1>6, SameOwn
<1>9. HoldInv'
    <2>1. \A q \in Producers : i[q] >= i[q]
        BY Counters
    <2> QED
        BY <1>1, <1>6, <2>1, SameHold
<1>10. LaunchInv'
    BY <1>1, <1>6, SameLaunch DEF LaunchInv
<1>11. SignalInv'
    BY <1>1, <1>2, <1>5 DEF SignalInv, Busy
<1>12. RoomInv'
    BY <1>1, <1>6, SameRoom
<1>13. RungInv'
    BY <1>1, <1>2, <1>5 DEF RungInv, Busy
<1>14. SlotInv'
    <2>1. i[p] < Claims(p) /\ Writes(p)
        BY <1>1, <1>3, <1>4 DEF Claims, Writes, Busy
    <2>2. PICK c \in Nat : c = at[p] + 1
        BY <1>3
    <2>3. /\ c \in 1..write_index /\ c \in (read_index + 1)..(read_index + QueueSize)
          /\ Slot(c - 1) = Slot(at[p]) /\ c - 1 = at[p]
          /\ Owner(c) = p /\ Number(c) = i[p] /\ claimed[c] = <<p, i[p]>> /\ Sent(p) = i[p]
        BY <1>3, <2>1, <2>2, CurrentSlot
    <2>4. Owner(c)' = p /\ Number(c)' = i[p]
        BY <1>1, <2>3 DEF Owner, Number
    <2>5. /\ Slot(c - 1) \in 0..QueueSize - 1
          /\ slots \in [0..QueueSize - 1 -> [header : Headers, body : Packets \cup {NoPacket}]]
        <3>1. Slot(c - 1) \in 0..QueueSize - 1
            BY <1>3, <2>3, SlotInRing
        <3> QED
            BY <3>1 DEF TypeOK
    <2>6. /\ \A s \in 0..QueueSize - 1 : s # Slot(c - 1) => slots'[s] = slots[s]
          /\ pc[p] = "body" => /\ slots'[Slot(c - 1)].header = slots[Slot(c - 1)].header
                               /\ slots'[Slot(c - 1)].body = <<p, i[p]>>
        <3>1. CASE clear_packet(p)
            BY <2>3, <2>5, <3>1 DEF clear_packet
        <3>2. CASE copy_body(p)
            <4>1. slots' = [slots EXCEPT ![Slot(c - 1)].body = <<p, i[p]>>]
                BY <2>3, <3>2 DEF copy_body
            <4>2. slots[Slot(c - 1)] \in [header : Headers, body : Packets \cup {NoPacket}]
                BY <2>5
            <4> QED
                BY <2>5, <4>1, <4>2
        <3> QED
            BY <3>1, <3>2
    <2>7. Untouched(c, p)' => slots'[Slot(c - 1)].header = "INVALID"
        <3> SUFFICES ASSUME Untouched(c, p)' PROVE slots'[Slot(c - 1)].header = "INVALID"
            OBVIOUS
        <3>1. Mode # "one_d"
            BY <1>1, <1>2, <1>5 DEF Untouched
        <3>2. pc[p] = "body" /\ Untouched(c, p)
            BY <1>1, <1>3, <1>4, <2>3, <3>1 DEF Untouched
        <3>3. slots[Slot(c - 1)].header = "INVALID"
            <4>1. c <= write_index
                BY <2>3 DEF TypeOK
            <4> QED
                BY <2>3, <3>2, <4>1 DEF SlotInv
        <3> QED
            BY <2>6, <3>2, <3>3
    <2>8. ~Published(c, p)'
        BY <1>3, <1>6, <2>3, <2>4 DEF Published
    <2>9. Copied(c, p)' => slots'[Slot(c - 1)].body = claimed[c]
        <3> SUFFICES ASSUME Copied(c, p)' PROVE slots'[Slot(c - 1)].body = claimed[c]
            OBVIOUS
        <3>1. pc[p] = "body"
            BY <1>1, <1>5 DEF Copied
        <3> QED
            BY <2>3, <2>6, <3>1
    <2>10. Sent(p)' = i[p]
        BY <1>6, <2>3
    <2>11. \A q \in Producers : q # p => Sent(q)' = Sent(q) /\ pc'[q] = pc[q] /\ i'[q] = i[q]
        BY <1>1, <1>5, <1>6
    <2> QED
        BY <1>1, <2>1, <2>2, <2>6, <2>7, <2>8, <2>9, <2>10, <2>11, WriteSlot
<1> QED
    BY <1>7, <1>8, <1>9, <1>10, <1>11, <1>12, <1>13, <1>14

(* store_header and store_header_bulk: the producer publishes its packet. *)
LEMMA HeaderFit ==
    ASSUME FitInv, FitsHere, TypeOK', NEW p \in Producers, store_header(p) \/ store_header_bulk(p)
    PROVE  FitInv'
<1> USE DEF FitInv
<1>1. /\ pc[p] = "header" /\ slots' = [slots EXCEPT ![Slot(at[p])].header = "KERNEL_DISPATCH"]
      /\ UNCHANGED <<scenario, write_index, read_index, rung, running, signal, completed,
                     left, claimed, launched, early>>
    BY DEF store_header, store_header_bulk, device, locals, lapses
<1>2. Mode' = Mode /\ NumPackets' = NumPackets /\ QueueSize' = QueueSize
    BY <1>1 DEF Mode, NumPackets, QueueSize
<1>3. /\ NumPackets \in Nat \ {0} /\ QueueSize \in Nat /\ i[p] \in Nat /\ at[p] \in Nat
      /\ Mode = "bulk" => NumPackets <= QueueSize
    BY Sizes, Counters
<1>4. /\ i[p] < NumPackets /\ p \in scenario.producers
      /\ Mode = "bulk" => left[p] = NumPackets
    BY <1>1 DEF PlaceInv, Busy
<1>5. \A q \in Producers : q # p => pc'[q] = pc[q] /\ at'[q] = at[q] /\ i'[q] = i[q]
    BY DEF TypeOK, store_header, store_header_bulk, Goto, locals
<1>6. /\ Mode # "bulk" => pc'[p] = "ring" /\ at'[p] = at[p] /\ i'[p] = i[p]
      /\ Mode = "bulk" => /\ at'[p] = at[p] + 1 /\ i'[p] = i[p] + 1
                          /\ pc'[p] = IF i[p] + 1 < NumPackets THEN "body" ELSE "ring"
    <2>1. CASE store_header(p)
        BY <2>1 DEF TypeOK, store_header, Goto, locals
    <2>2. CASE store_header_bulk(p)
        <3>1. Mode = "bulk" /\ dispatch_count(p) = NumPackets
            BY <1>3, <1>4, <2>2 DEF store_header_bulk, dispatch_count
        <3>2. i'[p] = i[p] + 1 /\ at'[p] = at[p] + 1
            BY <2>2 DEF TypeOK, store_header_bulk
        <3>3. pc'[p] = IF i[p] + 1 < NumPackets THEN "body" ELSE "ring"
            BY <2>2, <3>1, <3>2 DEF TypeOK, store_header_bulk, Goto
        <3> QED
            BY <3>1, <3>2, <3>3
    <2> QED
        BY <2>1, <2>2
<1>7. /\ pc'[p] \in {"body", "ring"} /\ (pc'[p] = "body" => Mode = "bulk")
      /\ at'[p] \in Nat /\ i'[p] \in Nat /\ i'[p] >= i[p] /\ at'[p] - i'[p] = at[p] - i[p]
    BY <1>3, <1>6
<1>8. /\ Sent(p) = i[p] /\ Sent(p)' = i[p] + 1
      /\ \A q \in Producers : q # p => Sent(q)' = Sent(q)
    BY <1>1, <1>2, <1>5, <1>6 DEF Sent
<1>9. \A q \in Producers : /\ Claims(q)' = Claims(q) /\ Started(q)' = Started(q)
                           /\ Holds(q)' = Holds(q)
    BY <1>1, <1>2, <1>4, <1>5, <1>6 DEF Claims, Started, Holds, Busy
<1>10. i[p] < Claims(p) /\ Writes(p)
    BY <1>1, <1>3, <1>4 DEF Claims, Writes, Busy
<1>11. PlaceInv'
    <2>1. \A q \in Producers : q # p => (PlaceInv!(q))'
        BY <1>1, <1>2, <1>5 DEF PlaceInv
    <2>2. (PlaceInv!(p))'
        BY <1>1, <1>2, <1>3, <1>4, <1>6 DEF PlaceInv, BulkLabels, OtherLabels, Busy
    <2> QED
        BY <2>1, <2>2 DEF PlaceInv
<1>12. OwnInv'
    BY <1>1, <1>9, SameOwn
<1>13. HoldInv'
    <2>1. \A q \in Producers : i'[q] >= i[q] /\ at'[q] - i'[q] = at[q] - i[q]
        BY <1>5, <1>7, Counters
    <2> QED
        BY <1>1, <1>9, <2>1, SameHold
<1>14. LaunchInv'
    <2>1. \A q \in Producers : Started(q) <= Sent(q)'
        <3>1. \A q \in Producers : Started(q) <= Sent(q)
            BY DEF LaunchInv
        <3>2. Started(p) \in Nat
            BY Counters
        <3> QED
            BY <1>3, <1>8, <3>1, <3>2
    <2> QED
        BY <1>1, <1>9, <2>1, SameLaunch
<1>15. SignalInv'
    BY <1>1, <1>2, <1>5, <1>6 DEF SignalInv, Busy
<1>16. RungInv'
    BY <1>1, <1>2, <1>5, <1>6 DEF RungInv, Busy
<1>17. PICK c \in Nat : c = at[p] + 1
    BY <1>3
<1>18. /\ c \in 1..write_index /\ c \in (read_index + 1)..(read_index + QueueSize)
       /\ Slot(c - 1) = Slot(at[p]) /\ c - 1 = at[p]
       /\ Owner(c) = p /\ Number(c) = i[p] /\ claimed[c] = <<p, i[p]>>
       /\ \A k \in 1..write_index : Owner(k) = p /\ Number(k) = i[p] => k = c
    BY <1>3, <1>10, <1>17, CurrentSlot
<1>19. RoomInv'
    <2>1. \A k : Owner(k)' = Owner(k) /\ Number(k)' = Number(k)
        BY <1>1 DEF Owner, Number
    <2>2. ASSUME NEW q \in Producers, Writes(q)'
          PROVE  at'[q] + (Claims(q)' - i'[q]) <= read_index' + QueueSize'
        <3>1. Writes(q) /\ at'[q] + (Claims(q) - i'[q]) = at[q] + (Claims(q) - i[q])
            <4>1. CASE q = p
                BY <1>3, <1>7, <1>10, <4>1, Counters
            <4>2. CASE q # p
                BY <1>5, <2>2, <4>2 DEF Writes
            <4> QED
                BY <4>1, <4>2
        <3> QED
            BY <1>1, <1>2, <1>9, <3>1 DEF RoomInv
    <2>3. ASSUME NEW k \in 1..write_index', NEW q \in Producers,
                 Owner(k)' = q, Number(k)' < Sent(q)'
          PROVE  k <= read_index' + QueueSize'
        <3>1. k \in 1..write_index /\ Owner(k) = q
            BY <1>1, <2>1, <2>3
        <3>2. CASE Number(k) < Sent(q)
            BY <1>1, <1>2, <3>1, <3>2 DEF RoomInv
        <3>3. CASE ~(Number(k) < Sent(q))
            <4>1. q = p
                BY <1>8, <2>1, <2>3, <3>3
            <4>2. Number(k) \in Nat
                BY <3>1, Reserved
            <4>3. Number(k) = i[p]
                BY <1>3, <1>8, <2>1, <2>3, <3>3, <4>1, <4>2
            <4>4. k = c
                BY <1>18, <3>1, <4>1, <4>3
            <4>5. c <= read_index + QueueSize
                BY <1>3, <1>18 DEF TypeOK
            <4> QED
                BY <1>1, <1>2, <4>4, <4>5
        <3> QED
            BY <3>2, <3>3
    <2> QED
        BY <2>2, <2>3 DEF RoomInv
<1>20. SlotInv'
    <2>1. /\ Slot(c - 1) \in 0..QueueSize - 1
          /\ slots \in [0..QueueSize - 1 -> [header : Headers, body : Packets \cup {NoPacket}]]
        <3>1. Slot(c - 1) \in 0..QueueSize - 1
            BY <1>3, <1>18, SlotInRing
        <3> QED
            BY <3>1 DEF TypeOK
    <2>2. Owner(c)' = p /\ Number(c)' = i[p]
        BY <1>1, <1>18 DEF Owner, Number
    <2>3. slots[Slot(c - 1)].body = claimed[c]
        <3>1. c <= write_index
            BY <1>18 DEF TypeOK
        <3>2. Copied(c, p)
            BY <1>1, <1>18 DEF Copied
        <3> QED
            BY <1>18, <3>1, <3>2 DEF SlotInv
    <2>4. /\ \A s \in 0..QueueSize - 1 : s # Slot(c - 1) => slots'[s] = slots[s]
          /\ slots'[Slot(c - 1)] = [header |-> "KERNEL_DISPATCH", body |-> claimed[c]]
        <3>1. slots' = [slots EXCEPT ![Slot(c - 1)].header = "KERNEL_DISPATCH"]
            BY <1>1, <1>18
        <3>2. slots[Slot(c - 1)] \in [header : Headers, body : Packets \cup {NoPacket}]
            BY <2>1
        <3> QED
            BY <2>1, <2>3, <3>1, <3>2
    <2>5. ~Untouched(c, p)'
        BY <1>3, <1>8, <2>2 DEF Untouched
    <2>6. ~Copied(c, p)'
        BY <1>7 DEF Copied
    <2>7. \A q \in Producers : q # p => Sent(q)' = Sent(q) /\ pc'[q] = pc[q] /\ i'[q] = i[q]
        BY <1>5, <1>8
    <2>8. Sent(p)' = i[p] + 1 /\ pc'[p] # "header"
        BY <1>7, <1>8
    <2> QED
        BY <1>1, <1>10, <1>17, <2>4, <2>5, <2>6, <2>7, <2>8, WriteSlot
<1> QED
    BY <1>11, <1>12, <1>13, <1>14, <1>15, <1>16, <1>19, <1>20

(* A producer that writes has a packet to write. *)
LEMMA HasCurrent ==
    ASSUME FitInv, FitsHere, NEW p \in Producers, Writes(p)
    PROVE  i[p] < Claims(p)
<1> USE DEF FitInv
<1>1. NumPackets \in Nat \ {0} /\ i[p] \in Nat
    BY Sizes, Counters
<1>2. p \in scenario.producers /\ i[p] < NumPackets
    BY DEF PlaceInv, Writes, Busy
<1> QED
    BY <1>1, <1>2 DEF Claims, Writes, Busy

(* The packet the processor launches is published, is the one its index    *)
(* was reserved for, and is the next of its producer.                      *)
LEMMA LaunchedPacket ==
    ASSUME FitInv, FitsHere, launch_packet
    PROVE  /\ read_index + 1 \in 1..write_index
           /\ \E p \in Producers :
                 /\ claimed[read_index + 1] = <<p, Started(p)>>
                 /\ Owner(read_index + 1) = p /\ Number(read_index + 1) = Started(p)
                 /\ Started(p) < Sent(p)
           /\ slots[Slot(read_index)].body = claimed[read_index + 1]
<1> USE DEF FitInv
<1>1. QueueSize \in Nat \ {0}
    BY Sizes
<1>2. read_index \in Nat /\ write_index \in Nat /\ rung \in Int
    BY DEF TypeOK
<1>3. PICK c \in Nat : c = read_index + 1
    BY <1>2
<1>4. /\ c \in (read_index + 1)..(read_index + QueueSize) /\ c - 1 = read_index
      /\ rung >= read_index /\ slots[Slot(c - 1)].header # "INVALID"
    BY SMTT(20), <1>1, <1>2, <1>3 DEF launch_packet
<1>5. c <= write_index /\ c \in 1..write_index
    <2>1. ~(c > write_index)
        BY <1>4 DEF SlotInv
    <2> QED
        BY <1>2, <1>3, <2>1
<1>6. PICK p \in Producers : p = Owner(c)
    BY <1>5, Reserved
<1>7. /\ claimed[c] = <<p, Number(c)>> /\ Number(c) \in Nat /\ Number(c) < Claims(p)
      /\ Started(p) \in Nat /\ Sent(p) \in Nat /\ Claims(p) \in Nat /\ i[p] \in Nat
    BY <1>5, <1>6, Reserved, Counters
<1>8. Published(c, p)
    <2> SUFFICES ASSUME ~Published(c, p) PROVE FALSE
        OBVIOUS
    <2>1. ~Untouched(c, p)
        BY <1>4, <1>5, <1>6 DEF SlotInv
    <2>2. Mode = "one_d" /\ pc[p] \in {"body", "header"} /\ Number(c) >= Sent(p)
        BY <1>7, <2>1 DEF Untouched, Published
    <2>3. Writes(p) /\ Sent(p) = i[p] /\ Claims(p) = i[p] + 1
        BY <2>2 DEF Writes, Sent, Claims, Busy
    <2>4. Number(c) = i[p]
        BY <1>7, <2>2, <2>3
    <2>5. i[p] < Claims(p)
        BY <1>7, <2>3
    <2>6. at[p] \in Nat /\ at[p] + 1 = c
        BY <1>5, <1>6, <2>3, <2>4, <2>5, CurrentSlot
    <2>7. rung < at[p]
        BY <2>2 DEF RungInv, Busy
    <2> QED
        BY <1>2, <1>3, <1>4, <2>6, <2>7
<1>9. slots[Slot(c - 1)].body = claimed[c]
    <2>1. slots[Slot(c - 1)] = [header |-> "KERNEL_DISPATCH", body |-> claimed[c]]
        BY <1>4, <1>5, <1>6, <1>8 DEF SlotInv
    <2> QED
        BY <2>1
<1>10. Number(c) >= Started(p)
    BY <1>2, <1>3, <1>5, <1>6, <1>7 DEF LaunchInv
<1>11. ~(Number(c) > Started(p))
    <2> SUFFICES ASSUME Number(c) > Started(p) PROVE FALSE
        OBVIOUS
    <2>1. PICK n \in Nat : n = Number(c) - 1
        BY <1>7
    <2>2. n \in 0..Claims(p) - 1
        BY <1>7, <2>1
    <2>3. PICK l \in 1..write_index : claimed[l] = <<p, n>>
        BY <2>2 DEF OwnInv
    <2>4. Owner(l) = p /\ Number(l) = n
        BY <2>3 DEF Owner, Number
    <2>5. l < c
        BY <1>5, <1>6, <1>7, <2>1, <2>4 DEF OwnInv
    <2>6. l <= read_index
        BY <1>2, <1>3, <2>5
    <2>7. n < Started(p)
        BY <2>4, <2>6 DEF LaunchInv
    <2> QED
        BY <1>7, <2>1, <2>7
<1>12. Number(c) = Started(p)
    BY <1>7, <1>10, <1>11
<1> QED
    BY <1>3, <1>4, <1>5, <1>6, <1>7, <1>8, <1>9, <1>12 DEF Published

(* launch_packet: the processor takes the packet at the read index. *)
LEMMA LaunchFit ==
    ASSUME FitInv, FitsHere, TypeOK', launch_packet
    PROVE  FitInv'
<1> USE DEF FitInv
<1>1. QueueSize \in Nat \ {0}
    BY Sizes
<1>2. read_index \in Nat /\ write_index \in Nat
    BY DEF TypeOK
<1>3. PICK c \in Nat : c = read_index + 1
    BY <1>2
<1>4. PICK p \in Producers :
         /\ claimed[c] = <<p, Started(p)>> /\ Owner(c) = p /\ Number(c) = Started(p)
         /\ Started(p) < Sent(p)
    BY <1>3, LaunchedPacket
<1>5. c \in 1..write_index /\ slots[Slot(c - 1)].body = claimed[c] /\ c - 1 = read_index
    BY <1>2, <1>3, LaunchedPacket
<1>6. claimed[c] # NoPacket /\ claimed[c][1] = p
    BY <1>4 DEF NoPacket
<1>7. /\ launched' = Append(launched, claimed[c])
      /\ running' = [running EXCEPT ![p] = running[p] + 1]
      /\ slots' = [slots EXCEPT ![Slot(c - 1)].header = "INVALID"]
      /\ read_index' = c
      /\ UNCHANGED <<scenario, write_index, rung, signal, completed, at, i, left, pc, claimed, early>>
    BY <1>3, <1>5, <1>6 DEF launch_packet, locals, lapses
<1>8. Mode' = Mode /\ NumPackets' = NumPackets /\ QueueSize' = QueueSize
    BY <1>7 DEF Mode, NumPackets, QueueSize
<1>9. \A q \in Producers : /\ Claims(q)' = Claims(q) /\ Sent(q)' = Sent(q)
                           /\ Holds(q)' = Holds(q) /\ Writes(q)' = Writes(q)
    BY <1>7, <1>8 DEF Claims, Sent, Holds, Writes
<1>10. /\ Started(p)' = Started(p) + 1 /\ Started(p) \in Nat /\ Sent(p) \in Nat
       /\ \A q \in Producers : q # p => Started(q)' = Started(q)
    <2>1. completed[p] \in Nat /\ running[p] \in Nat /\ Started(p) \in Nat /\ Sent(p) \in Nat
        BY Counters
    <2>2. /\ running'[p] = running[p] + 1
          /\ \A q \in Producers : q # p => running'[q] = running[q]
        BY <1>7 DEF TypeOK
    <2> QED
        BY <1>7, <2>1, <2>2 DEF Started
<1>11. \A k : Owner(k)' = Owner(k) /\ Number(k)' = Number(k) /\ Slot(k)' = Slot(k)
    BY <1>7, <1>8 DEF Owner, Number, Slot
<1>12. PlaceInv' /\ RungInv' /\ SignalInv'
    BY <1>7, <1>8 DEF PlaceInv, RungInv, SignalInv
<1>13. OwnInv'
    BY <1>7, <1>9, SameOwn
<1>14. HoldInv'
    <2>1. \A q \in Producers : i[q] >= i[q]
        BY Counters
    <2> QED
        BY <1>7, <1>9, <2>1, SameHold
<1>15. LaunchInv'
    <2>1. Len(launched) = read_index /\ \A k \in 1..read_index : launched[k] = claimed[k]
        BY DEF LaunchInv
    <2>2. launched \in Seq(Packets \cup {NoPacket})
        BY DEF TypeOK
    <2>3. Len(launched') = c /\ \A k \in 1..c : launched'[k] = claimed[k]
        BY <1>2, <1>3, <1>7, <2>1, <2>2
    <2>4. ASSUME NEW k \in 1..write_index, NEW q \in Producers, Owner(k) = q
          PROVE  k <= c <=> Number(k) < Started(q)'
        <3>1. k <= read_index <=> Number(k) < Started(q)
            BY <2>4 DEF LaunchInv
        <3>2. Number(k) \in Nat /\ Number(c) \in Nat
            BY <1>5, Reserved
        <3>3. CASE q # p
            BY <1>2, <1>3, <1>4, <1>10, <2>4, <3>1, <3>3
        <3>4. CASE q = p
            <4>1. (k < c <=> Number(k) < Number(c)) /\ (c < k <=> Number(c) < Number(k))
                BY <1>4, <1>5, <2>4, <3>4 DEF OwnInv
            <4>2. k = c => Number(k) = Number(c)
                OBVIOUS
            <4> QED
                BY <1>2, <1>4, <1>10, <3>2, <3>4, <4>1, <4>2
        <3> QED
            BY <3>3, <3>4
    <2>5. \A q \in Producers : Started(q)' <= Sent(q)'
        BY <1>4, <1>9, <1>10 DEF LaunchInv
    <2>6. c <= write_index
        BY <1>2, <1>5
    <2> QED
        BY <1>7, <1>11, <2>3, <2>4, <2>5, <2>6 DEF LaunchInv
<1>16. RoomInv'
    <2>1. ASSUME NEW q \in Producers, Writes(q)
          PROVE  at[q] + (Claims(q) - i[q]) <= c + QueueSize
        <3>1. at[q] \in Nat /\ Claims(q) \in Nat /\ i[q] \in Nat
            BY Counters
        <3>2. at[q] + (Claims(q) - i[q]) <= read_index + QueueSize
            BY <2>1 DEF RoomInv
        <3> QED
            BY <1>1, <1>2, <1>3, <3>1, <3>2
    <2>2. ASSUME NEW k \in 1..write_index, NEW q \in Producers, Owner(k) = q, Number(k) < Sent(q)
          PROVE  k <= c + QueueSize
        <3>1. k <= read_index + QueueSize
            BY <2>2 DEF RoomInv
        <3> QED
            BY <1>1, <1>2, <1>3, <3>1
    <2> QED
        BY <1>7, <1>8, <1>9, <1>11, <2>1, <2>2 DEF RoomInv
<1>17. SlotInv'
    <2>1. /\ Slot(c - 1) \in 0..QueueSize - 1
          /\ slots \in [0..QueueSize - 1 -> [header : Headers, body : Packets \cup {NoPacket}]]
        <3>1. Slot(c - 1) \in 0..QueueSize - 1
            BY <1>2, <1>5, SlotInRing
        <3> QED
            BY <3>1 DEF TypeOK
    <2>2. /\ slots'[Slot(c - 1)].header = "INVALID"
          /\ \A s \in 0..QueueSize - 1 : s # Slot(c - 1) => slots'[s] = slots[s]
        <3>1. slots[Slot(c - 1)] \in [header : Headers, body : Packets \cup {NoPacket}]
            BY <2>1
        <3> QED
            BY <1>7, <2>1, <3>1
    <2>3. \A k : \A q \in Producers : /\ Untouched(k, q)' <=> Untouched(k, q)
                                      /\ Published(k, q)' <=> Published(k, q)
                                      /\ Copied(k, q)' <=> Copied(k, q)
        BY <1>7, <1>8, <1>9, <1>11 DEF Untouched, Published, Copied
    <2>4. ASSUME NEW k \in (c + 1)..(read_index + QueueSize)
          PROVE  /\ k > write_index => slots'[Slot(k - 1)].header = "INVALID"
                 /\ k <= write_index => \A q \in Producers : Owner(k) = q =>
                      /\ Untouched(k, q) => slots'[Slot(k - 1)].header = "INVALID"
                      /\ Published(k, q) =>
                           slots'[Slot(k - 1)] = [header |-> "KERNEL_DISPATCH", body |-> claimed[k]]
                      /\ Copied(k, q) => slots'[Slot(k - 1)].body = claimed[k]
        <3>1. /\ k \in (read_index + 1)..(read_index + QueueSize) /\ k # c
              /\ c \in (read_index + 1)..(read_index + QueueSize) /\ k - 1 \in Nat
            BY <1>1, <1>2, <1>3
        <3>2. Slot(k - 1) # Slot(c - 1)
            BY <3>1, Elsewhere
        <3>3. slots'[Slot(k - 1)] = slots[Slot(k - 1)]
            BY <2>2, <3>1, <3>2, SlotInRing
        <3> QED
            BY <3>1, <3>3 DEF SlotInv
    <2>5. ASSUME NEW k \in Nat, k = c + QueueSize
          PROVE  /\ slots'[Slot(k - 1)].header = "INVALID"
                 /\ k <= write_index =>
                      \A q \in Producers : Owner(k) = q => ~Published(k, q) /\ ~Copied(k, q)
        <3>1. k - 1 = (c - 1) + QueueSize /\ c - 1 \in Nat
            BY <1>1, <1>2, <1>5, <2>5
        <3>2. Slot(k - 1) = Slot(c - 1)
            BY <1>1, <3>1, SlotsRepeat DEF Slot
        <3>3. ASSUME k <= write_index, NEW q \in Producers, Owner(k) = q
              PROVE  ~Published(k, q) /\ ~Copied(k, q)
            <4>1. k \in 1..write_index /\ ~(k <= read_index + QueueSize)
                BY <1>1, <1>2, <1>3, <2>5, <3>3
            <4>2. ~Published(k, q)
                BY <3>3, <4>1 DEF RoomInv, Published
            <4>3. ASSUME Copied(k, q) PROVE FALSE
                <5>1. Writes(q) /\ Number(k) = i[q]
                    BY <4>3 DEF Copied, Writes
                <5>2. i[q] < Claims(q)
                    BY <5>1, HasCurrent
                <5>3. k = at[q] + 1 /\ at[q] + 1 \in (read_index + 1)..(read_index + QueueSize)
                    BY <3>3, <4>1, <5>1, <5>2, CurrentSlot
                <5> QED
                    BY <1>1, <1>2, <4>1, <5>3
            <4> QED
                BY <4>2, <4>3
        <3> QED
            BY <2>2, <3>2, <3>3
    <2>6. ASSUME NEW k \in (c + 1)..(c + QueueSize)
          PROVE  /\ k > write_index => slots'[Slot(k - 1)].header = "INVALID"
                 /\ k <= write_index => \A q \in Producers : Owner(k) = q =>
                      /\ Untouched(k, q) => slots'[Slot(k - 1)].header = "INVALID"
                      /\ Published(k, q) =>
                           slots'[Slot(k - 1)] = [header |-> "KERNEL_DISPATCH", body |-> claimed[k]]
                      /\ Copied(k, q) => slots'[Slot(k - 1)].body = claimed[k]
        <3>1. CASE k = c + QueueSize
            BY <1>1, <2>5, <3>1
        <3>2. CASE k # c + QueueSize
            <4>1. k \in (c + 1)..(read_index + QueueSize)
                BY <1>1, <1>2, <1>3, <3>2
            <4> QED
                BY <2>4, <4>1
        <3> QED
            BY <3>1, <3>2
    <2>7. ASSUME NEW k \in (c + 1)..(c + QueueSize), k <= write_index,
                 NEW q \in Producers, Owner(k) = q
          PROVE  /\ Untouched(k, q)' => slots'[Slot(k - 1)].header = "INVALID"
                 /\ Published(k, q)' =>
                      slots'[Slot(k - 1)] = [header |-> "KERNEL_DISPATCH", body |-> claimed[k]]
                 /\ Copied(k, q)' => slots'[Slot(k - 1)].body = claimed[k]
        <3>1. Untouched(k, q)' => slots'[Slot(k - 1)].header = "INVALID"
            BY <2>3, <2>6, <2>7
        <3>2. Published(k, q)' =>
                slots'[Slot(k - 1)] = [header |-> "KERNEL_DISPATCH", body |-> claimed[k]]
            BY <2>3, <2>6, <2>7
        <3>3. Copied(k, q)' => slots'[Slot(k - 1)].body = claimed[k]
            BY <2>3, <2>6, <2>7
        <3> QED
            BY <3>1, <3>2, <3>3
    <2>8. ASSUME NEW k \in (c + 1)..(c + QueueSize), k > write_index
          PROVE  slots'[Slot(k - 1)].header = "INVALID"
        BY <2>6, <2>8
    <2> QED
        BY <1>7, <1>8, <1>11, <2>7, <2>8 DEF SlotInv
<1> QED
    BY <1>12, <1>13, <1>14, <1>15, <1>16, <1>17

(* A producer that has published all it reserved reserves m more packets:  *)
(* the common part of add_write_index and add_write_index_bulk.            *)
LEMMA ReserveFit ==
    ASSUME FitInv, FitsHere, TypeOK', NEW p \in Producers, NEW m \in Nat \ {0},
           Claims(p) = i[p], Sent(p) = i[p], Claims(p)' = i[p] + m,
           \A q \in Producers :
              /\ q # p => Claims(q)' = Claims(q) /\ Holds(q)' = Holds(q) /\ at'[q] = at[q]
              /\ Sent(q)' = Sent(q) /\ Started(q)' = Started(q)
              /\ Writes(q)' => Writes(q) /\ q # p,
           at'[p] = write_index, write_index' = write_index + m, Len(claimed') = write_index + m,
           UNCHANGED <<scenario, read_index, slots, i, launched>>,
           \A k \in 1..write_index : claimed'[k] = claimed[k],
           \A k \in write_index + 1..write_index + m :
              claimed'[k] = <<p, i[p] + (k - write_index - 1)>>,
           \A q \in Producers :
              /\ pc'[q] = "header" => pc[q] = "header" /\ q # p
              /\ pc[q] \in {"body", "header"} => pc'[q] \in {"body", "header"}
    PROVE  OwnInv' /\ HoldInv' /\ LaunchInv' /\ RoomInv' /\ SlotInv'
<1> USE DEF FitInv
<1> DEFINE Old == 1..write_index
           New == write_index + 1..write_index + m
<1>1. QueueSize \in Nat \ {0} /\ i[p] \in Nat /\ at[p] \in Nat
    BY Sizes, Counters
<1>2. write_index \in Nat /\ read_index \in Nat
    BY DEF TypeOK
<1>3. /\ QueueSize' = QueueSize /\ Mode' = Mode /\ \A k : Slot(k)' = Slot(k)
    BY DEF QueueSize, Mode, Slot
<1>4. /\ \A k \in Old : Owner(k)' = Owner(k) /\ Number(k)' = Number(k)
      /\ \A k \in New : Owner(k)' = p /\ Number(k)' = i[p] + (k - write_index - 1)
    BY DEF Owner, Number
<1>5. \A k \in 1..write_index' : k \in Old \/ k \in New
    BY <1>2
<1>6. \A k \in Old : /\ k \in Nat /\ k <= write_index /\ Owner(k) \in Producers
                     /\ Number(k) \in Nat /\ Number(k) < Claims(Owner(k))
    BY <1>2, Reserved
<1>7. \A k \in New : k \in Nat /\ k > write_index /\ k <= write_index + m /\ Number(k)' \in Nat
    BY <1>1, <1>2, <1>4
<1>8. OwnInv'
    <2>1. Len(claimed') = write_index'
        OBVIOUS
    <2>2. \A k \in 1..write_index' : Owner(k)' \in Producers
        BY <1>4, <1>5, <1>6
    <2>3. ASSUME NEW k \in 1..write_index', NEW q \in Producers, Owner(k)' = q
          PROVE  Number(k)' < Claims(q)'
        <3>1. CASE k \in Old
            <4>1. Number(k) < Claims(q) /\ Number(k) \in Nat
                BY <1>4, <1>6, <2>3, <3>1
            <4> QED
                BY <1>1, <1>4, <3>1, <4>1
        <3>2. CASE k \in New
            BY <1>1, <1>2, <1>4, <1>7, <2>3, <3>2
        <3> QED
            BY <1>5, <3>1, <3>2
    <2>4. ASSUME NEW q \in Producers, NEW n \in 0..Claims(q)' - 1
          PROVE  \E k \in 1..write_index' : claimed'[k] = <<q, n>>
        <3>1. CASE n \in 0..Claims(q) - 1
            <4>1. PICK k \in 1..write_index : claimed[k] = <<q, n>>
                BY <3>1 DEF OwnInv
            <4> QED
                BY <1>2, <4>1
        <3>2. CASE n \notin 0..Claims(q) - 1
            <4>1. q = p /\ n \in i[p]..i[p] + m - 1
                BY <1>1, <3>2
            <4>2. write_index + 1 + (n - i[p]) \in New
                BY SMTT(20), <1>1, <1>2, <4>1
            <4>3. claimed'[write_index + 1 + (n - i[p])] = <<p, n>>
                BY SMTT(20), <1>1, <1>2, <4>1, <4>2
            <4> QED
                BY SMTT(20), <1>2, <1>7, <4>1, <4>2, <4>3
        <3> QED
            BY <3>1, <3>2
    <2>5. ASSUME NEW k \in 1..write_index', NEW l \in 1..write_index', Owner(k)' = Owner(l)'
          PROVE  k < l <=> Number(k)' < Number(l)'
        <3>1. CASE k \in Old /\ l \in Old
            BY <1>4, <2>5, <3>1 DEF OwnInv
        <3>2. CASE k \in Old /\ l \in New
            <4>1. Number(k)' < i[p] /\ Number(k)' \in Nat
                BY <1>4, <1>6, <2>5, <3>2
            <4> QED
                BY SMTT(20), <1>1, <1>2, <1>4, <1>6, <1>7, <3>2, <4>1
        <3>3. CASE k \in New /\ l \in Old
            <4>1. Number(l)' < i[p] /\ Number(l)' \in Nat
                BY <1>4, <1>6, <2>5, <3>3
            <4> QED
                BY SMTT(20), <1>1, <1>2, <1>4, <1>6, <1>7, <3>3, <4>1
        <3>4. CASE k \in New /\ l \in New
            BY SMTT(20), <1>1, <1>2, <1>4, <1>7, <3>4
        <3> QED
            BY <1>5, <3>1, <3>2, <3>3, <3>4
    <2> QED
        BY <2>1, <2>2, <2>3, <2>4, <2>5 DEF OwnInv
<1>9. HoldInv'
    <2> SUFFICES ASSUME NEW q \in Producers, Holds(q)', NEW n \in i[q]..(Claims(q)' - 1)
                 PROVE  /\ at'[q] + (n - i[q]) + 1 <= write_index'
                        /\ claimed'[at'[q] + (n - i[q]) + 1] = <<q, n>>
        BY DEF HoldInv
    <2>1. i[q] \in Nat /\ at[q] \in Nat /\ n \in Int /\ Claims(q) \in Nat
        BY Counters
    <2>2. CASE q = p
        <3>1. write_index + (n - i[p]) + 1 \in New
            BY SMTT(20), <1>1, <1>2, <2>1, <2>2
        <3>2. claimed'[write_index + (n - i[p]) + 1] = <<p, n>>
            BY SMTT(20), <1>1, <1>2, <2>1, <2>2, <3>1
        <3> QED
            BY <1>7, <2>2, <3>1, <3>2
    <2>3. CASE q # p
        <3>1. /\ at[q] + (n - i[q]) + 1 <= write_index
              /\ claimed[at[q] + (n - i[q]) + 1] = <<q, n>>
            BY <2>3 DEF HoldInv
        <3>2. at[q] + (n - i[q]) + 1 \in Old
            BY <1>2, <2>1, <3>1
        <3> QED
            BY SMTT(20), <1>2, <2>1, <2>3, <3>1, <3>2
    <2> QED
        BY <2>2, <2>3
<1>10. LaunchInv'
    <2>1. /\ Len(launched) = read_index /\ read_index <= write_index
          /\ \A k \in 1..read_index : launched[k] = claimed[k]
        BY DEF LaunchInv
    <2>2. read_index <= write_index' /\ \A k \in 1..read_index : launched[k] = claimed'[k]
        BY <1>2, <2>1
    <2>3. ASSUME NEW k \in 1..write_index', NEW q \in Producers, Owner(k)' = q
          PROVE  k <= read_index <=> Number(k)' < Started(q)'
        <3>1. CASE k \in Old
            BY <1>4, <2>3, <3>1 DEF LaunchInv
        <3>2. CASE k \in New
            <4>1. q = p /\ Started(p) <= i[p] /\ Started(p) \in Nat
                BY <1>4, <2>3, <3>2, Counters DEF LaunchInv
            <4>2. ~(Number(k)' < Started(p))
                BY <1>1, <1>2, <1>4, <1>7, <3>2, <4>1
            <4> QED
                BY <1>2, <1>7, <2>1, <3>2, <4>1, <4>2
        <3> QED
            BY <1>5, <3>1, <3>2
    <2>4. \A q \in Producers : Started(q)' <= Sent(q)'
        BY DEF LaunchInv
    <2> QED
        BY <2>1, <2>2, <2>3, <2>4 DEF LaunchInv
<1>11. RoomInv'
    <2>1. ASSUME NEW q \in Producers, Writes(q)'
          PROVE  at'[q] + (Claims(q)' - i[q]) <= read_index + QueueSize
        BY <2>1 DEF RoomInv
    <2>2. ASSUME NEW k \in 1..write_index', NEW q \in Producers, Owner(k)' = q,
                 Number(k)' < Sent(q)'
          PROVE  k <= read_index + QueueSize
        <3>1. CASE k \in Old
            BY <1>4, <2>2, <3>1 DEF RoomInv
        <3>2. CASE k \in New
            BY <1>1, <1>2, <1>4, <1>7, <2>2, <3>2
        <3> QED
            BY <1>5, <3>1, <3>2
    <2> QED
        BY <1>3, <2>1, <2>2 DEF RoomInv
<1>12. SlotInv'
    <2>1. ASSUME NEW k \in (read_index + 1)..(read_index + QueueSize), k > write_index'
          PROVE  slots[Slot(k - 1)].header = "INVALID"
        <3>1. k > write_index
            BY <1>1, <1>2, <2>1
        <3> QED
            BY <3>1 DEF SlotInv
    <2>2. ASSUME NEW k \in (read_index + 1)..(read_index + QueueSize), k <= write_index',
                 NEW q \in Producers, Owner(k)' = q
          PROVE  /\ Untouched(k, q)' => slots[Slot(k - 1)].header = "INVALID"
                 /\ Published(k, q)' =>
                      slots[Slot(k - 1)] = [header |-> "KERNEL_DISPATCH", body |-> claimed'[k]]
                 /\ Copied(k, q)' => slots[Slot(k - 1)].body = claimed'[k]
        <3>1. k \in 1..write_index'
            BY <1>1, <1>2, <2>2
        <3>2. CASE k \in Old
            <4>1. k <= write_index /\ Owner(k) = q /\ claimed'[k] = claimed[k]
                BY <1>4, <1>6, <2>2, <3>2
            <4>2. /\ Untouched(k, q)' => Untouched(k, q)
                  /\ Published(k, q)' => Published(k, q)
                  /\ Copied(k, q)' => Copied(k, q)
                BY <1>3, <1>4, <3>2 DEF Untouched, Published, Copied
            <4>3. Untouched(k, q)' => slots[Slot(k - 1)].header = "INVALID"
                BY <4>1, <4>2 DEF SlotInv
            <4>4. Published(k, q)' =>
                    slots[Slot(k - 1)] = [header |-> "KERNEL_DISPATCH", body |-> claimed'[k]]
                BY <4>1, <4>2 DEF SlotInv
            <4>5. Copied(k, q)' => slots[Slot(k - 1)].body = claimed'[k]
                BY <4>1, <4>2 DEF SlotInv
            <4> QED
                BY <4>3, <4>4, <4>5
        <3>3. CASE k \in New
            <4>1. q = p /\ Number(k)' >= i[p] /\ Number(k)' \in Nat
                BY <1>1, <1>2, <1>4, <1>7, <2>2, <3>3
            <4>2. ~Published(k, q)' /\ ~Copied(k, q)'
                BY <1>1, <4>1 DEF Published, Copied
            <4>3. slots[Slot(k - 1)].header = "INVALID"
                BY <1>7, <3>3 DEF SlotInv
            <4> QED
                BY <4>2, <4>3
        <3> QED
            BY <1>5, <3>1, <3>2, <3>3
    <2> QED
        BY <1>3, <2>1, <2>2 DEF SlotInv
<1> QED
    BY <1>8, <1>9, <1>10, <1>11, <1>12

(* add_write_index: one index is reserved. *)
LEMMA AddFit ==
    ASSUME FitInv, FitsHere, TypeOK', NEW p \in Producers, add_write_index(p)
    PROVE  FitInv'
<1> USE DEF FitInv
<1>1. /\ pc[p] = "reserve" /\ pc' = [pc EXCEPT ![p] = "spin"]
      /\ at' = [at EXCEPT ![p] = write_index] /\ write_index' = write_index + 1
      /\ claimed' = Append(claimed, <<p, i[p]>>)
      /\ signal' = (IF Mode = "burst" THEN signal ELSE [signal EXCEPT ![p] = 1])
      /\ UNCHANGED <<scenario, read_index, slots, rung, running, i, left, launched, completed,
                     early>>
    BY DEF add_write_index, Goto, lapses
<1>2. Mode' = Mode /\ NumPackets' = NumPackets /\ QueueSize' = QueueSize
    BY <1>1 DEF Mode, NumPackets, QueueSize
<1>3. /\ Mode \in {"concurrent", "burst", "one_d"} /\ i[p] \in Nat /\ completed[p] \in Nat
      /\ NumPackets \in Nat
    BY Sizes, Counters DEF add_write_index
<1>4. p \in scenario.producers /\ i[p] < NumPackets
    BY <1>1, <1>3 DEF PlaceInv
<1>5. /\ pc'[p] = "spin" /\ at'[p] = write_index
      /\ \A q \in Producers : q # p => pc'[q] = pc[q] /\ at'[q] = at[q]
      /\ write_index \in Nat /\ rung \in Int
    BY <1>1 DEF TypeOK
<1>6. /\ Claims(p) = i[p] /\ Sent(p) = i[p] /\ Claims(p)' = i[p] + 1
      /\ \A q \in Producers :
            /\ q # p => Claims(q)' = Claims(q) /\ Holds(q)' = Holds(q)
            /\ Sent(q)' = Sent(q) /\ Started(q)' = Started(q)
            /\ Writes(q)' => Writes(q) /\ q # p
    BY <1>1, <1>2, <1>3, <1>5 DEF Claims, Sent, Started, Holds, Writes, Busy
<1>7. PlaceInv'
    BY <1>1, <1>2, <1>3, <1>4, <1>5 DEF PlaceInv, OtherLabels, Busy
<1>8. SignalInv'
    <2>1. \A q \in Producers : q # p => signal'[q] = signal[q]
        BY <1>1 DEF TypeOK
    <2>2. Mode # "burst" => signal'[p] = 1
        BY <1>1 DEF TypeOK
    <2>3. Mode # "burst" /\ p \notin early => completed[p] = i[p]
        BY <1>1, <1>3 DEF SignalInv
    <2>4. Mode = "burst" => signal' = signal
        BY <1>1
    <2> QED
        BY <1>1, <1>2, <1>3, <1>5, <2>1, <2>2, <2>3, <2>4 DEF SignalInv, Busy
<1>9. RungInv'
    BY <1>1, <1>2, <1>5 DEF RungInv, Busy
<1>10. /\ Len(claimed') = write_index + 1
       /\ \A k \in 1..write_index : claimed'[k] = claimed[k]
       /\ \A k \in write_index + 1..write_index + 1 :
             claimed'[k] = <<p, i[p] + (k - write_index - 1)>>
    <2>1. claimed \in Seq(Packets) /\ Len(claimed) = write_index
        BY DEF TypeOK, OwnInv
    <2>2. /\ Len(claimed') = write_index + 1 /\ claimed'[write_index + 1] = <<p, i[p]>>
          /\ \A k \in 1..write_index : claimed'[k] = claimed[k]
        BY <1>1, <1>5, <2>1
    <2>3. \A k \in write_index + 1..write_index + 1 :
             k = write_index + 1 /\ i[p] + (k - write_index - 1) = i[p]
        BY <1>3, <1>5
    <2> QED
        BY <2>2, <2>3
<1>11. \A q \in Producers :
          /\ pc'[q] = "header" => pc[q] = "header" /\ q # p
          /\ pc[q] \in {"body", "header"} => pc'[q] \in {"body", "header"}
    BY <1>1, <1>5
<1>12. OwnInv' /\ HoldInv' /\ LaunchInv' /\ RoomInv' /\ SlotInv'
    BY <1>1, <1>5, <1>6, <1>10, <1>11, ReserveFit
<1> QED
    BY <1>7, <1>8, <1>9, <1>12

(* add_write_index_bulk: all the indices of a request are reserved. *)
LEMMA AddBulkFit ==
    ASSUME FitInv, FitsHere, TypeOK', NEW p \in Producers, add_write_index_bulk(p)
    PROVE  FitInv'
<1> USE DEF FitInv
<1>1. /\ pc[p] = "reserve" /\ Mode = "bulk" /\ pc' = [pc EXCEPT ![p] = "chunk"]
      /\ at' = [at EXCEPT ![p] = write_index] /\ write_index' = write_index + NumPackets
      /\ claimed' = claimed \o [n \in 1..NumPackets |-> <<p, n - 1>>]
      /\ left' = [left EXCEPT ![p] = NumPackets]
      /\ UNCHANGED <<scenario, read_index, slots, rung, running, signal, completed, i, launched>>
    BY DEF add_write_index_bulk, Goto, device
<1>2. Mode' = Mode /\ NumPackets' = NumPackets /\ QueueSize' = QueueSize
    BY <1>1 DEF Mode, NumPackets, QueueSize
<1>3. NumPackets \in Nat \ {0} /\ i[p] \in Nat
    BY Sizes, Counters
<1>4. p \in scenario.producers /\ i[p] = 0
    BY <1>1 DEF PlaceInv
<1>5. /\ pc'[p] = "chunk" /\ at'[p] = write_index /\ left'[p] = NumPackets
      /\ \A q \in Producers : q # p => pc'[q] = pc[q] /\ at'[q] = at[q] /\ left'[q] = left[q]
      /\ write_index \in Nat
    BY <1>1 DEF TypeOK
<1>6. /\ Claims(p) = i[p] /\ Sent(p) = i[p] /\ Claims(p)' = i[p] + NumPackets
      /\ \A q \in Producers :
            /\ q # p => Claims(q)' = Claims(q) /\ Holds(q)' = Holds(q)
            /\ Sent(q)' = Sent(q) /\ Started(q)' = Started(q)
            /\ Writes(q)' => Writes(q) /\ q # p
    BY <1>1, <1>2, <1>3, <1>4, <1>5 DEF Claims, Sent, Started, Holds, Writes, Busy
<1>7. PlaceInv'
    BY <1>1, <1>2, <1>3, <1>4, <1>5 DEF PlaceInv, BulkLabels
<1>8. SignalInv' /\ RungInv'
    BY <1>1, <1>2 DEF SignalInv, RungInv
<1>9. /\ Len(claimed') = write_index + NumPackets
      /\ \A k \in 1..write_index : claimed'[k] = claimed[k]
      /\ \A k \in write_index + 1..write_index + NumPackets :
            claimed'[k] = <<p, i[p] + (k - write_index - 1)>>
    <2> DEFINE request == [n \in 1..NumPackets |-> <<p, n - 1>>]
    <2>1. claimed \in Seq(Packets) /\ Len(claimed) = write_index
        BY DEF TypeOK, OwnInv
    <2>2. request \in Seq(Packets) /\ Len(request) = NumPackets
        <3>1. \A n \in 1..NumPackets : <<p, n - 1>> \in Packets
            BY <1>3 DEF Packets
        <3> QED
            BY <1>3, <3>1
    <2>3. \A n \in 1..NumPackets : request[n] = <<p, n - 1>>
        OBVIOUS
    <2> HIDE DEF request
    <2>4. claimed' = claimed \o request
        BY <1>1 DEF request
    <2>a. Len(claimed') = write_index + NumPackets
        <3>1. Len(claimed \o request) = Len(claimed) + Len(request)
            BY <2>1, <2>2
        <3> QED
            BY <2>1, <2>2, <2>4, <3>1
    <2>5. ASSUME NEW k \in 1..write_index
          PROVE  claimed'[k] = claimed[k]
        BY <1>3, <1>5, <2>1, <2>2, <2>4
    <2>6. ASSUME NEW k \in write_index + 1..write_index + NumPackets
          PROVE  claimed'[k] = <<p, i[p] + (k - write_index - 1)>>
        <3>1. claimed'[k] = request[k - write_index]
            BY <1>3, <1>5, <2>1, <2>2, <2>4
        <3>2. k - write_index \in 1..NumPackets
            BY <1>3, <1>5
        <3>3. request[k - write_index] = <<p, k - write_index - 1>>
            BY <2>3, <3>2
        <3>4. i[p] + (k - write_index - 1) = k - write_index - 1
            BY <1>4, <1>5, <3>2
        <3> QED
            BY <3>1, <3>3, <3>4
    <2> QED
        BY <2>a, <2>5, <2>6
<1>10. \A q \in Producers :
          /\ pc'[q] = "header" => pc[q] = "header" /\ q # p
          /\ pc[q] \in {"body", "header"} => pc'[q] \in {"body", "header"}
    BY <1>1, <1>5
<1>11. OwnInv' /\ HoldInv' /\ LaunchInv' /\ RoomInv' /\ SlotInv'
    BY <1>1, <1>3, <1>5, <1>6, <1>9, <1>10, ReserveFit
<1> QED
    BY <1>7, <1>8, <1>11

(* A step that changes nothing. *)
LEMMA StutterFit ==
    ASSUME FitInv, FitsHere, TypeOK', UNCHANGED vars
    PROVE  FitInv'
<1> USE DEF FitInv
<1>1. UNCHANGED <<scenario, write_index, read_index, slots, rung, running, signal, completed,
                  at, i, left, pc, claimed, launched, early>>
    BY DEF vars, queue, device, locals, lapses
<1>2. Mode' = Mode /\ NumPackets' = NumPackets /\ QueueSize' = QueueSize
    BY <1>1 DEF Mode, NumPackets, QueueSize
<1>3. \A q \in Producers : /\ Claims(q)' = Claims(q) /\ Sent(q)' = Sent(q)
                           /\ Started(q)' = Started(q)
                           /\ Holds(q)' = Holds(q) /\ Writes(q)' = Writes(q)
    BY <1>1, <1>2 DEF Claims, Sent, Started, Holds, Writes
<1>4. PlaceInv' /\ SignalInv' /\ RungInv'
    BY <1>1, <1>2 DEF PlaceInv, SignalInv, RungInv
<1>5. OwnInv'
    BY <1>1, <1>3, SameOwn
<1>6. HoldInv'
    <2>1. \A q \in Producers : i[q] >= i[q]
        BY Counters
    <2> QED
        BY <1>1, <1>3, <2>1, SameHold
<1>7. LaunchInv'
    BY <1>1, <1>3, SameLaunch DEF LaunchInv
<1>8. RoomInv'
    BY <1>1, <1>3, SameRoom
<1>9. SlotInv'
    BY <1>1, <1>3, SameSlots
<1> QED
    BY <1>4, <1>5, <1>6, <1>7, <1>8, <1>9

LEMMA NextFit ==
    ASSUME FitInv, FitsHere, [Next]_vars, ~crossed'
    PROVE  FitInv'
<1>1. TypeOK'
    BY NextType DEF FitInv
<1>2. TypeOK
    BY DEF FitInv
<1> QED
    BY <1>1, <1>2, FitSteps, AddFit, AddBulkFit, SpinFit, ChunkFit, FillFit, HeaderFit,
       RingFit, RingBulkFit, WaitFit, CompleteFit, LaunchFit, StutterFit

-----------------------------------------------------------------------------
(***************************************************************************)
(* The gap test.  One thread reserves three regions, a round of the queue. *)
(* The invariant follows the round: where its packets are, up to where     *)
(* each region is filled, which of its packets were launched.              *)
(***************************************************************************)
Regions == 1..3
GapBusy == {"spin", "body", "header", "ring"}

(* The first index of the round, and of each of its regions. *)
First == write_index - 3 * RegionSize
Start(r) == First + (CASE r = 1 -> 0 [] r = 2 -> RegionSize [] r = 3 -> 2 * RegionSize)

(* In a round whose packets have the numbers from B on: how many packets   *)
(* of region r are published, and how many are launched.                   *)
Filled(B, r) == Sent(Region(r)) - B
Gone(r) == IF read_index < Start(r) THEN 0
           ELSE IF read_index > Start(r) + RegionSize THEN RegionSize
           ELSE read_index - Start(r)
Ready(B, k) == \E r \in Regions : Start(r) <= k /\ k < Start(r) + Filled(B, r)

(* The thread is in one region after the other. *)
NotBegun(B, r) == pc[Region(r)] = "turn" /\ i[Region(r)] = B
Filling(B, r) == pc[Region(r)] \in GapBusy /\ i[Region(r)] \in B..B + RegionSize - 1
Full(B, r, label) == pc[Region(r)] = label /\ i[Region(r)] = B + RegionSize
Awaited(B, r) == Full(B, r, "turn") /\ completed[Region(r)] = B + RegionSize

GapStage(B) ==
    \/ Filling(B, 1) /\ NotBegun(B, 2) /\ NotBegun(B, 3)
    \/ Full(B, 1, "filled") /\ NotBegun(B, 2) /\ Filling(B, 3)
    \/ Full(B, 1, "wait") /\ NotBegun(B, 2) /\ Full(B, 3, "filled")
    \/ Awaited(B, 1) /\ Filling(B, 2) /\ Full(B, 3, "filled")
    \/ Awaited(B, 1) /\ Full(B, 2, "wait") /\ Full(B, 3, "filled")
    \/ Awaited(B, 1) /\ Awaited(B, 2) /\ Full(B, 3, "wait")

GapRegion(B, r) ==
    LET p == Region(r)
    IN  /\ at[p] = Start(r) + (i[p] - B)
        /\ \A o \in 0..RegionSize - 1 : claimed[Start(r) + o + 1] = <<p, B + o>>
        /\ signal[p] = B + RegionSize - completed[p]
        /\ Started(p) = B + Gone(r) /\ completed[p] >= B
        /\ pc[p] = "header" => slots[Slot(at[p])].body = <<p, i[p]>>

GapSlots(B) ==
    \A k \in read_index..read_index + QueueSize - 1 :
        /\ Ready(B, k) => slots[Slot(k)] = [header |-> "KERNEL_DISPATCH", body |-> claimed[k + 1]]
        /\ ~Ready(B, k) => slots[Slot(k)].header = "INVALID"

(* Within a round. *)
GapOpen(B) ==
    /\ First >= 0 /\ First <= read_index /\ B % RegionSize = 0 /\ B + RegionSize <= NumPackets
    /\ GapStage(B)
    /\ \A r \in Regions : GapRegion(B, r)
    /\ \A k \in First..read_index - 1 : Ready(B, k)
    /\ GapSlots(B)

(* Between two rounds, and after the last. *)
GapClosed ==
    /\ \/ /\ pc[Region(1)] = "reserve" /\ i[Region(1)] < NumPackets
          /\ pc[Region(2)] = "turn" /\ pc[Region(3)] = "turn"
       \/ \A r \in Regions : pc[Region(r)] = "done"
    /\ read_index = write_index
    /\ i[Region(1)] % RegionSize = 0
    /\ \A r \in Regions : /\ i[Region(r)] = i[Region(1)]
                          /\ completed[Region(r)] = i[Region(r)] /\ running[Region(r)] = 0
    /\ \A k \in read_index..read_index + QueueSize - 1 : slots[Slot(k)].header = "INVALID"

GapHistory ==
    /\ Len(claimed) = write_index /\ Len(launched) = read_index /\ read_index <= write_index
    /\ \A k \in 1..read_index : launched[k] = claimed[k]
    /\ \A p \in Producers \ scenario.producers :
          pc[p] = "done" /\ i[p] = 0 /\ completed[p] = 0 /\ running[p] = 0

GapInv == TypeOK /\ GapHistory /\ (GapClosed \/ \E B \in 0..NumPackets : GapOpen(B))

(* The scenario's parameters. *)
LEMMA GapSizes ==
    ASSUME TypeOK, GapHere
    PROVE  /\ Mode = "gap"
           /\ RegionSize \in Nat \ {0} /\ QueueSize \in Nat \ {0} /\ NumPackets \in Nat \ {0}
           /\ 3 * RegionSize <= QueueSize /\ NumPackets % RegionSize = 0
           /\ Region(1) \in Producers /\ Region(2) \in Producers /\ Region(3) \in Producers
           /\ Region(1) # Region(2) /\ Region(1) # Region(3) /\ Region(2) # Region(3)
           /\ scenario.producers = {Region(1), Region(2), Region(3)}
<1>1. scenario \in Scenarios
    BY DEF TypeOK
<1>2. /\ scenario.producers \subseteq Producers
      /\ scenario.size \in Nat \ {0} /\ scenario.packets \in Nat \ {0}
      /\ scenario.mode = "gap" => scenario.packets % scenario.region = 0
    BY <1>1, ScenarioAssumption
<1> QED
    BY <1>2 DEF GapHere, GapFits, Mode, RegionSize, QueueSize, NumPackets, Region

(* Dividing a place in the round by the size of a region. *)
LEMMA Quotient ==
    ASSUME NEW N \in Nat \ {0}, NEW k \in Nat, NEW a \in Nat, NEW o \in 0..N - 1, k = N * a + o
    PROVE  k \div N = a /\ k % N = o
<1> DEFINE b == k \div N
           r == k % N
<1>1. b \in Nat /\ r \in 0..N - 1 /\ k = N * b + r
    BY Remainder
<1> HIDE DEF b, r
<1>2. N * (b - a) = o - r
    BY <1>1
<1>3. CASE b - a >= 1
    <2>1. N * (b - a) >= N
        BY <1>1, <1>3
    <2> QED BY <1>1, <1>2, <2>1
<1>4. CASE b - a <= -1
    <2>1. N * (b - a) <= -N
        BY <1>1, <1>4
    <2> QED BY <1>1, <1>2, <2>1
<1>5. b = a
    BY <1>1, <1>3, <1>4
<1>6. r = o
    BY <1>1, <1>5
<1> QED BY <1>5, <1>6 DEF b, r

(* Packet n of a region whose first has number B is the last exactly if    *)
(* its successor is a multiple of the size.                                *)
LEMMA RegionEnds ==
    ASSUME NEW N \in Nat \ {0}, NEW B \in Nat, B % N = 0, NEW n \in B + 1..B + N
    PROVE  n % N = 0 <=> n = B + N
<1>1. CASE n = B + N
    BY <1>1, SlotsRepeat
<1>2. CASE n < B + N
    <2>1. n \in Nat /\ B < n
        OBVIOUS
    <2>2. B % N # n % N
        BY <1>2, <2>1, SlotsDiffer
    <2> QED BY <1>2, <2>2
<1> QED BY <1>1, <1>2

(* Multiples of the size are at least a region apart. *)
LEMMA RegionsApart ==
    ASSUME NEW N \in Nat \ {0}, NEW B \in Nat, NEW M \in Nat, B % N = 0, M % N = 0, B < M
    PROVE  B + N <= M
<1> SUFFICES ASSUME M < B + N PROVE FALSE
    OBVIOUS
<1> QED BY SlotsDiffer

(* The numbers of a round. *)
LEMMA GapNumbers ==
    ASSUME TypeOK, GapHere, NEW B \in 0..NumPackets, GapOpen(B)
    PROVE  /\ B \in Nat /\ write_index \in Nat /\ read_index \in Nat
           /\ First \in Nat /\ First + 3 * RegionSize = write_index /\ First <= read_index
           /\ Start(1) = First /\ Start(2) = First + RegionSize /\ Start(3) = First + 2 * RegionSize
           /\ \A r \in Regions :
                 /\ Region(r) \in Producers /\ Region(r) \in scenario.producers
                 /\ Start(r) \in Nat
                 /\ at[Region(r)] \in Nat /\ i[Region(r)] \in Nat
                 /\ completed[Region(r)] \in Nat /\ running[Region(r)] \in Nat
<1>1. /\ RegionSize \in Nat \ {0} /\ NumPackets \in Nat \ {0}
      /\ Region(1) \in Producers /\ Region(2) \in Producers /\ Region(3) \in Producers
      /\ scenario.producers = {Region(1), Region(2), Region(3)}
    BY GapSizes
<1>2. B \in Nat /\ write_index \in Nat /\ read_index \in Nat /\ First \in Nat
      /\ First + 3 * RegionSize = write_index /\ First <= read_index
    BY <1>1 DEF GapOpen, TypeOK, First
<1>3. Start(1) = First /\ Start(2) = First + RegionSize /\ Start(3) = First + 2 * RegionSize
    BY <1>1, <1>2 DEF Start
<1> SUFFICES ASSUME NEW r \in Regions
             PROVE  /\ Region(r) \in Producers /\ Region(r) \in scenario.producers
                    /\ Start(r) \in Nat
                    /\ at[Region(r)] \in Nat /\ i[Region(r)] \in Nat
                    /\ completed[Region(r)] \in Nat /\ running[Region(r)] \in Nat
    BY <1>2, <1>3
<1>4. r = 1 \/ r = 2 \/ r = 3
    BY DEF Regions
<1>5. Region(r) \in Producers /\ Region(r) \in scenario.producers /\ Start(r) \in Nat
    BY <1>1, <1>2, <1>3, <1>4
<1>6. i[Region(r)] \in 0..NumPackets
    BY <1>5 DEF TypeOK
<1>7. at[Region(r)] \in Nat /\ completed[Region(r)] \in Nat /\ running[Region(r)] \in Nat
    BY <1>5 DEF TypeOK
<1> QED BY <1>1, <1>5, <1>6, <1>7

(* What is published of each region. *)
LEMMA GapFilled ==
    ASSUME TypeOK, GapHere, NEW B \in 0..NumPackets, GapOpen(B), NEW r \in Regions
    PROVE  /\ i[Region(r)] \in B..B + RegionSize
           /\ Sent(Region(r)) = IF pc[Region(r)] = "ring" THEN i[Region(r)] + 1 ELSE i[Region(r)]
           /\ Filled(B, r) \in 0..RegionSize
           /\ pc[Region(r)] \in GapBusy => Filling(B, r)
<1>1. RegionSize \in Nat \ {0} /\ Mode = "gap" /\ B \in Nat
    BY GapSizes, GapNumbers
<1>2. \/ Filling(B, r) \/ NotBegun(B, r)
      \/ \E l \in {"filled", "wait", "turn"} : Full(B, r, l)
    <2>1. CASE r = 1
        BY <2>1 DEF GapOpen, GapStage, Awaited
    <2>2. CASE r = 2
        BY <2>2 DEF GapOpen, GapStage, Awaited
    <2>3. CASE r = 3
        BY <2>3 DEF GapOpen, GapStage, Awaited
    <2> QED BY <2>1, <2>2, <2>3 DEF Regions
<1>3. Sent(Region(r)) = IF pc[Region(r)] = "ring" THEN i[Region(r)] + 1 ELSE i[Region(r)]
    BY <1>1 DEF Sent
<1>4. i[Region(r)] \in B..B + RegionSize
    BY <1>1, <1>2 DEF Filling, NotBegun, Full
<1>5. pc[Region(r)] \in GapBusy => Filling(B, r)
    BY <1>2 DEF NotBegun, Full, GapBusy
<1>6. Filled(B, r) \in 0..RegionSize
    BY <1>1, <1>3, <1>4, <1>5 DEF Filled, Filling, GapBusy
<1> QED BY <1>3, <1>4, <1>5, <1>6

(* The next packets have different slots. *)
LEMMA GapApart ==
    ASSUME TypeOK, GapHere,
           NEW k \in read_index..read_index + QueueSize - 1,
           NEW l \in read_index..read_index + QueueSize - 1, k # l
    PROVE  Slot(k) # Slot(l)
<1>1. QueueSize \in Nat \ {0} /\ read_index \in Nat /\ k \in Nat /\ l \in Nat
    BY GapSizes DEF TypeOK
<1>2. CASE k < l
    <2>1. l < k + QueueSize
        BY <1>1
    <2> QED BY <1>1, <1>2, <2>1, SlotsDiffer DEF Slot
<1>3. CASE l < k
    <2>1. k < l + QueueSize
        BY <1>1
    <2> QED BY <1>1, <1>3, <2>1, SlotsDiffer DEF Slot
<1> QED BY <1>1, <1>2, <1>3

(* The packet the thread is about to write: its index, its slot, which is  *)
(* empty, and whom it was reserved for.                                    *)
LEMMA GapCurrent ==
    ASSUME TypeOK, GapHere, NEW B \in 0..NumPackets, GapOpen(B),
           NEW r \in Regions, Filling(B, r), pc[Region(r)] # "ring"
    PROVE  /\ at[Region(r)] \in read_index..read_index + QueueSize - 1 /\ at[Region(r)] \in Nat
           /\ Slot(at[Region(r)]) \in 0..QueueSize - 1
           /\ ~Ready(B, at[Region(r)])
           /\ at[Region(r)] = Start(r) + Filled(B, r) /\ Filled(B, r) = i[Region(r)] - B
           /\ Filled(B, r) \in 0..RegionSize - 1
           /\ claimed[at[Region(r)] + 1] = <<Region(r), i[Region(r)]>>
           /\ slots[Slot(at[Region(r)])].header = "INVALID"
<1> DEFINE p == Region(r)
           f == Filled(B, r)
<1>1. /\ RegionSize \in Nat \ {0} /\ QueueSize \in Nat \ {0} /\ 3 * RegionSize <= QueueSize
      /\ B \in Nat /\ read_index \in Nat /\ First \in Nat /\ First <= read_index
      /\ Start(1) = First /\ Start(2) = First + RegionSize /\ Start(3) = First + 2 * RegionSize
      /\ at[p] \in Nat /\ i[p] \in Nat
    BY GapSizes, GapNumbers
<1>2. f = i[p] - B /\ f \in 0..RegionSize - 1
    BY <1>1, GapFilled DEF Filled, Filling
<1>3. at[p] = Start(r) + f
    BY <1>2 DEF GapOpen, GapRegion
<1>4. ~Ready(B, at[p])
    <2> SUFFICES ASSUME NEW s \in Regions, Start(s) <= at[p], at[p] < Start(s) + Filled(B, s)
                 PROVE  FALSE
        BY DEF Ready
    <2>1. Filled(B, s) \in 0..RegionSize
        BY GapFilled
    <2>2. CASE s = r
        BY <1>1, <1>2, <1>3, <2>2
    <2>3. CASE s # r
        BY <1>1, <1>2, <1>3, <2>1, <2>3 DEF Regions
    <2> QED BY <2>2, <2>3
<1>5. at[p] >= First /\ at[p] < First + 3 * RegionSize
    BY <1>1, <1>2, <1>3 DEF Regions
<1>6. at[p] >= read_index
    <2> SUFFICES ASSUME at[p] < read_index PROVE FALSE
        BY <1>1
    <2>1. at[p] \in First..read_index - 1
        BY <1>1, <1>5
    <2> QED BY <1>4, <2>1 DEF GapOpen
<1>7. at[p] \in read_index..read_index + QueueSize - 1
    BY <1>1, <1>5, <1>6
<1>8. slots[Slot(at[p])].header = "INVALID"
    BY <1>4, <1>7 DEF GapOpen, GapSlots
<1>9. Slot(at[p]) \in 0..QueueSize - 1
    BY <1>1, Remainder DEF Slot
<1>10. claimed[at[p] + 1] = <<p, i[p]>>
    <2>1. claimed[Start(r) + f + 1] = <<p, B + f>>
        BY <1>2 DEF GapOpen, GapRegion
    <2>2. B + f = i[p]
        BY <1>1, <1>2
    <2> QED BY <1>3, <2>1, <2>2
<1> QED BY <1>1, <1>2, <1>3, <1>4, <1>7, <1>8, <1>9, <1>10

(* A step of the thread within the round: it is enough to look at the      *)
(* thread's place, at what is published, and at the slots.                 *)
LEMMA RoundKept ==
    ASSUME TypeOK, GapHere, GapHistory, NEW B \in 0..NumPackets, GapOpen(B),
           UNCHANGED <<scenario, write_index, read_index, claimed, launched>>,
           UNCHANGED <<running, signal, completed>>,
           \A q \in Producers \ scenario.producers : pc'[q] = pc[q] /\ i'[q] = i[q],
           GapStage(B)', GapSlots(B)',
           \A r \in Regions :
              /\ at'[Region(r)] = Start(r) + (i'[Region(r)] - B)
              /\ pc'[Region(r)] = "header" =>
                    slots'[Slot(at'[Region(r)])].body = <<Region(r), i'[Region(r)]>>,
           \A k \in First..read_index - 1 : Ready(B, k)'
    PROVE  GapHistory' /\ GapOpen(B)' /\ B \in 0..NumPackets'
<1>1. /\ RegionSize' = RegionSize /\ QueueSize' = QueueSize /\ NumPackets' = NumPackets
      /\ \A r \in Regions : Region(r)' = Region(r)
      /\ First' = First /\ \A r \in Regions : Start(r)' = Start(r)
    BY DEF RegionSize, QueueSize, NumPackets, Region, First, Start
<1>2. \A r \in Regions : /\ Gone(r)' = Gone(r) /\ Started(Region(r))' = Started(Region(r))
    BY <1>1 DEF Gone, Started
<1>3. GapHistory'
    BY DEF GapHistory
<1>4. \A r \in Regions : GapRegion(B, r)'
    <2> SUFFICES ASSUME NEW r \in Regions PROVE GapRegion(B, r)'
        OBVIOUS
    <2>1. GapRegion(B, r)
        BY DEF GapOpen
    <2>2. \A k \in Nat : Slot(k)' = Slot(k)
        BY <1>1 DEF Slot
    <2>3. pc'[Region(r)] = "header" =>
             slots'[Slot(at[Region(r)])'].body = <<Region(r), i'[Region(r)]>>
        BY <1>1 DEF Slot
    <2> QED BY <1>1, <1>2, <2>1, <2>3 DEF GapRegion
<1>5. \A k \in First'..read_index' - 1 : Ready(B, k)'
    BY <1>1
<1> QED BY <1>1, <1>3, <1>4, <1>5 DEF GapOpen

(* What is published stays so while no header is stored. *)
LEMMA ReadyKept ==
    ASSUME TypeOK, GapHere, NEW B \in 0..NumPackets, GapOpen(B),
           UNCHANGED <<scenario, write_index>>,
           \A r \in Regions : Sent(Region(r))' = Sent(Region(r))
    PROVE  \A k \in Nat : Ready(B, k)' <=> Ready(B, k)
<1>1. \A r \in Regions : Region(r)' = Region(r) /\ Start(r)' = Start(r)
    BY DEF Region, Start, First, RegionSize
<1>2. \A r \in Regions : Filled(B, r)' = Filled(B, r)
    BY <1>1 DEF Filled
<1> QED BY <1>1, <1>2 DEF Ready

(* A producer that is at work is a region of an open round. *)
LEMMA GapWorker ==
    ASSUME GapInv, GapHere, NEW p \in Producers, pc[p] \in GapBusy \cup {"wait"}
    PROVE  \E r \in Regions : \E B \in 0..NumPackets : p = Region(r) /\ GapOpen(B)
<1>1. p \in scenario.producers
    BY DEF GapInv, GapHistory, GapBusy
<1>2. PICK r \in Regions : p = Region(r)
    BY <1>1, GapSizes DEF GapInv, Regions
<1>3. ~GapClosed
    <2> SUFFICES ASSUME GapClosed PROVE FALSE
        OBVIOUS
    <2>1. pc[p] \in {"reserve", "turn", "done"}
        BY <1>2 DEF GapClosed, Regions
    <2> QED BY <2>1 DEF GapBusy
<1> QED BY <1>2, <1>3 DEF GapInv

(* A thread that goes on filling its region. *)
LEMMA StageFills ==
    ASSUME GapHere, NEW B, NEW r \in Regions, GapStage(B), Filling(B, r),
           UNCHANGED <<scenario, completed>>, Filling(B, r)',
           \A s \in Regions \ {r} : pc'[Region(s)] = pc[Region(s)] /\ i'[Region(s)] = i[Region(s)]
    PROVE  GapStage(B)'
<1>1. \A s \in Regions : Region(s)' = Region(s)
    BY DEF Region
<1>2. RegionSize' = RegionSize
    BY DEF RegionSize
<1>3. \A s \in Regions \ {r} :
         /\ NotBegun(B, s)' = NotBegun(B, s) /\ Awaited(B, s)' = Awaited(B, s)
         /\ \A l \in {"filled", "wait"} : Full(B, s, l)' = Full(B, s, l)
    BY <1>1, <1>2 DEF NotBegun, Awaited, Full
<1>4. /\ ~NotBegun(B, r) /\ ~Awaited(B, r)
      /\ \A l \in {"filled", "wait"} : ~Full(B, r, l)
    BY DEF Filling, NotBegun, Awaited, Full, GapBusy
<1>5. CASE r = 1
    BY <1>3, <1>4, <1>5 DEF GapStage, Regions
<1>6. CASE r = 2
    BY <1>3, <1>4, <1>6 DEF GapStage, Regions
<1>7. CASE r = 3
    BY <1>3, <1>4, <1>7 DEF GapStage, Regions
<1> QED BY <1>5, <1>6, <1>7 DEF Regions

(* The regions are different producers. *)
LEMMA RegionsDiffer ==
    ASSUME TypeOK, GapHere, NEW r \in Regions, NEW s \in Regions, r # s
    PROVE  Region(r) # Region(s) /\ Region(r) \in Producers /\ Region(s) \in Producers
    BY GapSizes DEF Regions

(* Nobody else is at work. *)
LEMMA OneAtWork ==
    ASSUME GapHere, NEW B, NEW r \in Regions, NEW s \in Regions, r # s, GapStage(B), Filling(B, r)
    PROVE  pc[Region(s)] \notin GapBusy
<1>1. pc[Region(r)] \in GapBusy
    BY DEF Filling
<1> QED BY <1>1 DEF GapStage, Filling, NotBegun, Full, Awaited, GapBusy, Regions

(* A step that leaves the thread in its region, before the same packet. *)
LEMMA GapWorks ==
    ASSUME GapInv, GapHere, NEW r \in Regions, NEW B \in 0..NumPackets, GapOpen(B),
           pc[Region(r)] \in GapBusy, NEW l \in GapBusy, pc' = [pc EXCEPT ![Region(r)] = l],
           UNCHANGED <<scenario, write_index, read_index, claimed, launched>>,
           UNCHANGED <<running, signal, completed, at, i>>,
           TypeOK', GapSlots(B)', \A k \in First..read_index - 1 : Ready(B, k)',
           l = "header" => slots'[Slot(at[Region(r)])].body = <<Region(r), i[Region(r)]>>
    PROVE  GapInv'
<1> USE DEF GapInv
<1> DEFINE p == Region(r)
<1>1. Filling(B, r) /\ p \in Producers
    BY GapFilled, GapNumbers
<1>2. \A s \in Regions \ {r} : Region(s) # p /\ Region(s) \in Producers
    BY RegionsDiffer
<1>3. pc'[p] = l /\ \A q \in Producers \ {p} : pc'[q] = pc[q]
    BY <1>1 DEF TypeOK
<1>4. Region(r)' = Region(r) /\ RegionSize' = RegionSize
    BY DEF Region, RegionSize
<1>5. GapStage(B)'
    <2>1. Filling(B, r)'
        BY <1>1, <1>3, <1>4 DEF Filling
    <2>2. \A s \in Regions \ {r} : pc'[Region(s)] = pc[Region(s)] /\ i'[Region(s)] = i[Region(s)]
        BY <1>2, <1>3
    <2> QED BY <1>1, <2>1, <2>2, StageFills DEF GapOpen
<1>6. ASSUME NEW s \in Regions
      PROVE  /\ at'[Region(s)] = Start(s) + (i'[Region(s)] - B)
             /\ pc'[Region(s)] = "header" =>
                   slots'[Slot(at'[Region(s)])].body = <<Region(s), i'[Region(s)]>>
    <2>1. at'[Region(s)] = Start(s) + (i'[Region(s)] - B)
        BY DEF GapOpen, GapRegion
    <2>2. CASE s = r
        BY <1>3, <2>1, <2>2
    <2>3. CASE s # r
        <3>1. pc[Region(s)] # "header"
            BY <1>1, <2>3, OneAtWork DEF GapOpen, GapBusy
        <3> QED BY <1>2, <1>3, <2>1, <2>3, <3>1
    <2> QED BY <2>2, <2>3
<1>7. \A q \in Producers \ scenario.producers : pc'[q] = pc[q] /\ i'[q] = i[q]
    BY <1>3, GapNumbers
<1> QED BY <1>5, <1>6, <1>7, RoundKept

(* A step between two places where nothing more is published. *)
LEMMA SentKept ==
    ASSUME TypeOK, GapHere, NEW r \in Regions, NEW l, l # "ring", pc[Region(r)] # "ring",
           pc' = [pc EXCEPT ![Region(r)] = l], UNCHANGED <<scenario, i>>
    PROVE  \A s \in Regions : Sent(Region(s))' = Sent(Region(s))
<1> SUFFICES ASSUME NEW s \in Regions PROVE Sent(Region(s))' = Sent(Region(s))
    OBVIOUS
<1>1. Region(s)' = Region(s) /\ Mode' = Mode
    BY DEF Region, Mode
<1>2. Region(r) \in Producers /\ Region(s) \in Producers
    BY GapSizes DEF Regions
<1>3. pc'[Region(s)] = "ring" <=> pc[Region(s)] = "ring"
    BY <1>2 DEF TypeOK
<1> QED BY <1>1, <1>3 DEF Sent

(* The room the thread waits for: the ring is not full. *)
LEMMA GapSpin ==
    ASSUME GapInv, GapHere, NEW p \in Producers, wait_for_slot(p)
    PROVE  GapInv' /\ crossed' = crossed
<1> USE DEF GapInv
<1>1. /\ pc[p] = "spin" /\ pc' = [pc EXCEPT ![p] = "body"]
      /\ UNCHANGED <<scenario, write_index, read_index, slots, rung, running, signal, completed,
                     at, i, left, claimed, launched, early>>
    BY DEF wait_for_slot, Goto, queue, device, locals
<1>2. PICK r \in Regions, B \in 0..NumPackets : p = Region(r) /\ GapOpen(B)
    BY <1>1, GapWorker DEF GapBusy
<1>a. crossed' = crossed
    <2>1. Filling(B, r)
        BY <1>1, <1>2, GapFilled DEF GapBusy
    <2>2. at[p] \in read_index..read_index + QueueSize - 1
        BY <1>1, <1>2, <2>1, GapCurrent
    <2>3. read_index \in Nat /\ QueueSize \in Nat /\ crossed \in BOOLEAN
        BY GapSizes DEF TypeOK
    <2>4. at[p] - read_index # QueueSize
        BY <2>2, <2>3
    <2> QED BY <2>3, <2>4 DEF wait_for_slot
<1>3. TypeOK'
    BY <1>1, <1>a DEF TypeOK, QueueSize, NumPackets, Packets
<1>4. \A k \in Nat : Ready(B, k)' <=> Ready(B, k)
    BY <1>1, <1>2, SentKept, ReadyKept
<1>5. GapSlots(B)'
    <2>1. GapSlots(B) /\ read_index \in Nat /\ QueueSize' = QueueSize
        BY <1>1, <1>2 DEF GapOpen, TypeOK, QueueSize
    <2> QED BY <1>1, <1>4, <2>1, GapSizes DEF GapSlots, Slot
<1>6. \A k \in First..read_index - 1 : Ready(B, k)'
    BY <1>2, <1>4, GapNumbers DEF GapOpen
<1>7. "body" \in GapBusy /\ pc[p] \in GapBusy
    BY <1>1 DEF GapBusy
<1> QED BY <1>1, <1>2, <1>a, <1>3, <1>5, <1>6, <1>7, GapWorks

(* The body is copied into a slot that is empty. *)
LEMMA GapBody ==
    ASSUME GapInv, GapHere, NEW p \in Producers, copy_body(p)
    PROVE  GapInv'
<1> USE DEF GapInv
<1> DEFINE c == Slot(at[p])
<1>1. /\ pc[p] = "body" /\ pc' = [pc EXCEPT ![p] = "header"]
      /\ slots' = [slots EXCEPT ![c].body = <<p, i[p]>>]
      /\ UNCHANGED <<scenario, write_index, read_index, rung, running, signal, completed,
                     at, i, left, claimed, launched,
                     early, crossed>>
    BY DEF copy_body, Goto, device, locals, lapses
<1>2. PICK r \in Regions, B \in 0..NumPackets : p = Region(r) /\ GapOpen(B)
    BY <1>1, GapWorker DEF GapBusy
<1>3. Filling(B, r)
    BY <1>1, <1>2, GapFilled DEF GapBusy
<1>4. /\ at[p] \in read_index..read_index + QueueSize - 1 /\ c \in 0..QueueSize - 1
      /\ ~Ready(B, at[p]) /\ slots[c].header = "INVALID"
    BY <1>1, <1>2, <1>3, GapCurrent
<1>5. i[p] \in 0..NumPackets - 1
    <2>1. i[p] \in B..B + RegionSize - 1 /\ B + RegionSize <= NumPackets
        BY <1>2, <1>3 DEF Filling, GapOpen
    <2> QED BY <2>1, GapSizes
<1> HIDE DEF c
<1>6. slots \in [0..QueueSize - 1 -> [header : Headers, body : Packets \cup {NoPacket}]]
    BY DEF TypeOK
<1>7. /\ slots'[c] = [header |-> "INVALID", body |-> <<p, i[p]>>]
      /\ \A k \in 0..QueueSize - 1 : k # c => slots'[k] = slots[k]
    BY <1>1, <1>4, <1>6
<1>8. TypeOK'
    <2>1. <<p, i[p]>> \in Packets
        BY <1>5 DEF Packets
    <2>2. slots' \in [0..QueueSize - 1 -> [header : Headers, body : Packets \cup {NoPacket}]]
        BY <1>1, <1>4, <1>6, <2>1
    <2> QED BY <1>1, <2>2 DEF TypeOK, QueueSize, NumPackets, Packets
<1>9. \A k \in Nat : Ready(B, k)' <=> Ready(B, k)
    BY <1>1, <1>2, SentKept, ReadyKept
<1>10. GapSlots(B)'
    <2>1. GapSlots(B) /\ read_index \in Nat /\ QueueSize \in Nat \ {0}
        BY <1>2, GapSizes DEF GapOpen, TypeOK
    <2>2. QueueSize' = QueueSize
        BY <1>1 DEF QueueSize
    <2> SUFFICES ASSUME NEW k \in read_index..read_index + QueueSize - 1
                 PROVE  /\ Ready(B, k) => slots'[Slot(k)] = [header |-> "KERNEL_DISPATCH",
                                                             body |-> claimed[k + 1]]
                        /\ ~Ready(B, k) => slots'[Slot(k)].header = "INVALID"
        BY <1>1, <1>9, <2>1, <2>2 DEF GapSlots, Slot
    <2>3. CASE k = at[p]
        BY <1>4, <1>7, <2>3 DEF c
    <2>4. CASE k # at[p]
        <3>1. Slot(k) # c
            BY <1>4, <2>4, GapApart DEF c
        <3>2. Slot(k) \in 0..QueueSize - 1
            BY <2>1, Remainder DEF Slot
        <3> QED BY <1>7, <2>1, <3>1, <3>2 DEF GapSlots
    <2> QED BY <2>3, <2>4
<1>11. \A k \in First..read_index - 1 : Ready(B, k)'
    BY <1>2, <1>9, GapNumbers DEF GapOpen
<1>12. "header" \in GapBusy /\ pc[p] \in GapBusy /\ slots'[Slot(at[p])].body = <<p, i[p]>>
    BY <1>1, <1>7 DEF GapBusy, c
<1> QED BY <1>1, <1>2, <1>8, <1>10, <1>11, <1>12, GapWorks

(* The header publishes the packet the index was reserved for. *)
LEMMA GapHeader ==
    ASSUME GapInv, GapHere, NEW p \in Producers, store_header(p)
    PROVE  GapInv'
<1> USE DEF GapInv
<1> DEFINE c == Slot(at[p])
<1>1. /\ pc[p] = "header" /\ pc' = [pc EXCEPT ![p] = "ring"]
      /\ slots' = [slots EXCEPT ![c].header = "KERNEL_DISPATCH"]
      /\ UNCHANGED <<scenario, write_index, read_index, rung, running, signal, completed,
                     at, i, left, claimed, launched,
                     early, crossed>>
    BY DEF store_header, Goto, device, locals, lapses
<1>2. PICK r \in Regions, B \in 0..NumPackets : p = Region(r) /\ GapOpen(B)
    BY <1>1, GapWorker DEF GapBusy
<1>3. Filling(B, r)
    BY <1>1, <1>2, GapFilled DEF GapBusy
<1>4. /\ at[p] \in read_index..read_index + QueueSize - 1 /\ c \in 0..QueueSize - 1
      /\ ~Ready(B, at[p]) /\ at[p] = Start(r) + Filled(B, r)
      /\ claimed[at[p] + 1] = <<p, i[p]>> /\ Filled(B, r) = i[p] - B /\ at[p] \in Nat
    BY <1>1, <1>2, <1>3, GapCurrent
<1>5. slots[c].body = <<p, i[p]>>
    BY <1>1, <1>2 DEF GapOpen, GapRegion
<1> HIDE DEF c
<1>6. slots \in [0..QueueSize - 1 -> [header : Headers, body : Packets \cup {NoPacket}]]
    BY DEF TypeOK
<1>7. /\ slots'[c] = [header |-> "KERNEL_DISPATCH", body |-> <<p, i[p]>>]
      /\ \A k \in 0..QueueSize - 1 : k # c => slots'[k] = slots[k]
    BY <1>1, <1>4, <1>5, <1>6
<1>8. TypeOK'
    <2>1. slots' \in [0..QueueSize - 1 -> [header : Headers, body : Packets \cup {NoPacket}]]
        BY <1>1, <1>4, <1>6 DEF Headers
    <2> QED BY <1>1, <2>1 DEF TypeOK, QueueSize, NumPackets, Packets
<1>9. \A k \in Nat : Ready(B, k)' <=> Ready(B, k) \/ k = at[p]
    <2>1. \A s \in Regions : Region(s)' = Region(s) /\ Start(s)' = Start(s) /\ Start(s) \in Nat
        BY <1>1, <1>2, GapNumbers DEF Region, Start, First, RegionSize
    <2>2. \A s \in Regions \ {r} : Filled(B, s)' = Filled(B, s)
        <3>1. \A s \in Regions \ {r} : Region(s) # p /\ Region(s) \in Producers
            BY <1>2, RegionsDiffer
        <3>2. \A q \in Producers \ {p} : pc'[q] = pc[q]
            BY <1>1 DEF TypeOK
        <3> QED BY <1>1, <2>1, <3>1, <3>2 DEF Filled, Sent, Mode
    <2>3. Filled(B, r)' = Filled(B, r) + 1
        <3>1. pc'[p] = "ring" /\ Mode' = "gap" /\ i[p] \in Nat /\ B \in Nat
            BY <1>1, <1>2, GapSizes, GapNumbers DEF TypeOK, Mode
        <3>2. Sent(Region(r))' = i[p] + 1
            BY <1>1, <1>2, <2>1, <3>1 DEF Sent
        <3> QED BY <1>4, <3>1, <3>2 DEF Filled
    <2>4. Filled(B, r) \in Nat
        BY <1>2, GapFilled, GapSizes
    <2> SUFFICES ASSUME NEW k \in Nat PROVE Ready(B, k)' <=> Ready(B, k) \/ k = at[p]
        OBVIOUS
    <2>5. Start(r) <= k /\ k < Start(r) + Filled(B, r)' <=>
             (Start(r) <= k /\ k < Start(r) + Filled(B, r)) \/ k = at[p]
        BY <1>4, <2>1, <2>3, <2>4
    <2> QED BY <2>1, <2>2, <2>5 DEF Ready
<1>10. GapSlots(B)'
    <2>1. GapSlots(B) /\ read_index \in Nat /\ QueueSize \in Nat \ {0}
        BY <1>2, GapSizes DEF GapOpen, TypeOK
    <2>2. QueueSize' = QueueSize
        BY <1>1 DEF QueueSize
    <2> SUFFICES ASSUME NEW k \in read_index..read_index + QueueSize - 1
                 PROVE  /\ Ready(B, k) \/ k = at[p] =>
                              slots'[Slot(k)] = [header |-> "KERNEL_DISPATCH", body |-> claimed[k + 1]]
                        /\ ~(Ready(B, k) \/ k = at[p]) => slots'[Slot(k)].header = "INVALID"
        BY <1>1, <1>9, <2>1, <2>2 DEF GapSlots, Slot
    <2>3. CASE k = at[p]
        BY <1>4, <1>7, <2>3 DEF c
    <2>4. CASE k # at[p]
        <3>1. Slot(k) # c
            BY <1>4, <2>4, GapApart DEF c
        <3>2. Slot(k) \in 0..QueueSize - 1
            BY <2>1, Remainder DEF Slot
        <3> QED BY <1>7, <2>1, <2>4, <3>1, <3>2 DEF GapSlots
    <2> QED BY <2>3, <2>4
<1>11. \A k \in First..read_index - 1 : Ready(B, k)'
    BY <1>2, <1>9, GapNumbers DEF GapOpen
<1>12. "ring" \in GapBusy /\ pc[p] \in GapBusy
    BY <1>1 DEF GapBusy
<1> QED BY <1>1, <1>2, <1>8, <1>10, <1>11, <1>12, GapWorks

(* The doorbell: the thread goes on to the next packet of its region, or,  *)
(* if that was the last, to what follows the region.                       *)
LEMMA GapRing ==
    ASSUME GapInv, GapHere, NEW p \in Producers, ring_doorbell_gap(p)
    PROVE  GapInv'
<1> USE DEF GapInv
<1>1. /\ pc[p] = "ring" /\ rung' = Larger(rung, at[p])
      /\ at' = [at EXCEPT ![p] = at[p] + 1] /\ i' = [i EXCEPT ![p] = i[p] + 1]
      /\ pc' = IF i'[p] % RegionSize # 0 THEN [pc EXCEPT ![p] = "spin"] ELSE FillNext(p)
      /\ UNCHANGED <<scenario, write_index, read_index, slots, running, signal, completed,
                     left, claimed, launched,
                     early, crossed>>
    BY DEF ring_doorbell_gap, device, lapses
<1>2. PICK r \in Regions, B \in 0..NumPackets : p = Region(r) /\ GapOpen(B)
    BY <1>1, GapWorker DEF GapBusy
<1>3. Filling(B, r)
    BY <1>1, <1>2, GapFilled DEF GapBusy
<1>4. /\ RegionSize \in Nat \ {0} /\ B \in Nat /\ i[p] \in Nat /\ at[p] \in Nat
      /\ B % RegionSize = 0 /\ B + RegionSize <= NumPackets /\ NumPackets \in Nat
      /\ Mode = "gap"
    BY <1>2, GapSizes, GapNumbers DEF GapOpen
<1>5. /\ i'[p] = i[p] + 1 /\ at'[p] = at[p] + 1
      /\ \A q \in Producers \ {p} : i'[q] = i[q] /\ at'[q] = at[q]
    BY <1>1 DEF TypeOK
<1>6. i'[p] \in B + 1..B + RegionSize
    BY <1>3, <1>2, <1>4, <1>5 DEF Filling
<1>7. i'[p] % RegionSize = 0 <=> i'[p] = B + RegionSize
    BY <1>4, <1>6, RegionEnds
<1>8. /\ \A s \in Regions \ {r} : Region(s) # p
      /\ \A s \in Regions : Region(s) \in Producers /\ Region(s)' = Region(s)
      /\ RegionSize' = RegionSize /\ Mode' = Mode
    BY <1>1, <1>2, RegionsDiffer, GapNumbers DEF Region, RegionSize, Mode
<1>9. /\ i'[p] < B + RegionSize => pc' = [pc EXCEPT ![p] = "spin"]
      /\ i'[p] = B + RegionSize =>
           /\ r = 1 => pc' = [pc EXCEPT ![Region(1)] = "filled", ![Region(3)] = "spin"]
           /\ r = 3 => pc' = [pc EXCEPT ![Region(3)] = "filled", ![Region(1)] = "wait"]
           /\ r = 2 => pc' = [pc EXCEPT ![Region(2)] = "wait"]
    <2>1. CASE i'[p] < B + RegionSize
        BY <1>1, <1>4, <1>6, <1>7, <2>1
    <2>2. CASE i'[p] = B + RegionSize
        <3>1. pc' = FillNext(p)
            BY <1>1, <1>7, <2>2
        <3>2. CASE r = 1
            BY <1>2, <1>4, <1>8, <2>2, <3>1, <3>2 DEF FillNext, Regions
        <3>3. CASE r = 2
            BY <1>2, <1>4, <1>8, <2>2, <3>1, <3>3 DEF FillNext, Regions
        <3>4. CASE r = 3
            BY <1>2, <1>4, <1>8, <2>2, <3>1, <3>4 DEF FillNext, Regions
        <3> QED BY <3>2, <3>3, <3>4 DEF Regions
    <2> QED BY <1>4, <1>6, <2>1, <2>2
<1>a. /\ r = 1 => NotBegun(B, 2) /\ NotBegun(B, 3)
      /\ r = 3 => Full(B, 1, "filled") /\ NotBegun(B, 2)
      /\ r = 2 => Awaited(B, 1) /\ Full(B, 3, "filled")
    <2>1. pc[Region(r)] = "ring" /\ GapStage(B)
        BY <1>1, <1>2 DEF GapOpen
    <2> QED BY <2>1 DEF GapStage, NotBegun, Full, Awaited
<1>b. Region(1) \in Producers /\ Region(2) \in Producers /\ Region(3) \in Producers
      /\ Region(1) # Region(2) /\ Region(1) # Region(3) /\ Region(2) # Region(3)
    BY GapSizes
<1>10. /\ \A s \in Regions : pc'[Region(s)] \notin {"header", "ring"}
       /\ \A s \in Regions \ {r} : pc[Region(s)] # "ring"
       /\ \A q \in Producers \ scenario.producers : pc'[q] = pc[q]
       /\ pc' \in [Producers -> {"reserve", "spin", "clear", "body", "header", "ring",
                                 "wait", "chunk", "turn", "filled", "failed", "done"}]
    <2>1. pc \in [Producers -> {"reserve", "spin", "clear", "body", "header", "ring",
                                "wait", "chunk", "turn", "filled", "failed", "done"}]
        BY DEF TypeOK
    <2>2. \A s \in Regions \ {r} : pc[Region(s)] \notin {"header", "ring"}
        BY <1>2, <1>3, OneAtWork DEF GapOpen, GapBusy
    <2>3. scenario.producers = {Region(1), Region(2), Region(3)}
        BY GapSizes
    <2>4. CASE i'[p] < B + RegionSize
        BY <1>2, <1>4, <1>6, <1>8, <1>9, <2>1, <2>2, <2>3, <2>4 DEF Regions
    <2>5. CASE i'[p] = B + RegionSize
        BY <1>2, <1>4, <1>9, <1>b, <2>1, <2>2, <2>3, <2>5 DEF Regions
    <2> QED BY <1>4, <1>6, <2>4, <2>5
<1>11. GapStage(B)'
    <2>1. CASE i'[p] < B + RegionSize
        <3>1. pc' = [pc EXCEPT ![p] = "spin"]
            BY <1>4, <1>9, <2>1
        <3>2. Filling(B, r)'
            BY <1>2, <1>4, <1>6, <1>8, <2>1, <3>1 DEF Filling, GapBusy, TypeOK
        <3>3. \A s \in Regions \ {r} : pc'[Region(s)] = pc[Region(s)] /\ i'[Region(s)] = i[Region(s)]
            BY <1>5, <1>8, <3>1 DEF TypeOK
        <3> QED BY <1>1, <1>2, <1>3, <3>2, <3>3, StageFills DEF GapOpen
    <2>2. CASE i'[p] = B + RegionSize /\ r = 1
        <3>1. pc' = [pc EXCEPT ![Region(1)] = "filled", ![Region(3)] = "spin"]
            BY <1>4, <1>9, <2>2
        <3>2. pc'[Region(1)] = "filled" /\ pc'[Region(2)] = pc[Region(2)] /\ pc'[Region(3)] = "spin"
            BY <1>b, <3>1 DEF TypeOK
        <3>3. /\ i'[Region(1)] = B + RegionSize /\ i'[Region(2)] = i[Region(2)]
              /\ i'[Region(3)] = i[Region(3)]
            BY <1>2, <1>5, <1>b, <2>2
        <3>4. Full(B, 1, "filled")' /\ NotBegun(B, 2)'
            BY <1>8, <1>a, <2>2, <3>2, <3>3 DEF Full, NotBegun, Regions
        <3>5. Filling(B, 3)'
            BY <1>4, <1>8, <1>a, <2>2, <3>2, <3>3 DEF Filling, NotBegun, Regions, GapBusy
        <3> QED BY <3>4, <3>5 DEF GapStage
    <2>3. CASE i'[p] = B + RegionSize /\ r = 3
        <3>1. pc' = [pc EXCEPT ![Region(3)] = "filled", ![Region(1)] = "wait"]
            BY <1>4, <1>9, <2>3
        <3>2. pc'[Region(3)] = "filled" /\ pc'[Region(2)] = pc[Region(2)] /\ pc'[Region(1)] = "wait"
            BY <1>b, <3>1 DEF TypeOK
        <3>3. /\ i'[Region(3)] = B + RegionSize /\ i'[Region(2)] = i[Region(2)]
              /\ i'[Region(1)] = i[Region(1)]
            BY <1>2, <1>5, <1>b, <2>3
        <3>4. Full(B, 1, "wait")' /\ NotBegun(B, 2)' /\ Full(B, 3, "filled")'
            BY <1>8, <1>a, <2>3, <3>2, <3>3 DEF Full, NotBegun, Regions
        <3> QED BY <3>4 DEF GapStage
    <2>4. CASE i'[p] = B + RegionSize /\ r = 2
        <3>1. pc' = [pc EXCEPT ![Region(2)] = "wait"]
            BY <1>4, <1>9, <2>4
        <3>2. pc'[Region(2)] = "wait" /\ pc'[Region(1)] = pc[Region(1)] /\ pc'[Region(3)] = pc[Region(3)]
            BY <1>b, <3>1 DEF TypeOK
        <3>3. /\ i'[Region(2)] = B + RegionSize /\ i'[Region(1)] = i[Region(1)]
              /\ i'[Region(3)] = i[Region(3)]
            BY <1>2, <1>5, <1>b, <2>4
        <3>4. Awaited(B, 1)' /\ Full(B, 2, "wait")' /\ Full(B, 3, "filled")'
            BY <1>1, <1>8, <1>a, <2>4, <3>2, <3>3 DEF Full, Awaited, Regions
        <3> QED BY <3>4 DEF GapStage
    <2> QED BY <1>4, <1>6, <2>1, <2>2, <2>3, <2>4 DEF Regions
<1>12. \A s \in Regions : Sent(Region(s))' = Sent(Region(s))
    <2>1. Sent(Region(r))' = Sent(Region(r))
        BY <1>1, <1>2, <1>4, <1>5, <1>8, <1>10 DEF Sent
    <2>2. \A s \in Regions \ {r} : Sent(Region(s))' = Sent(Region(s))
        BY <1>2, <1>5, <1>8, <1>10 DEF Sent
    <2> QED BY <2>1, <2>2
<1>13. \A k \in Nat : Ready(B, k)' <=> Ready(B, k)
    BY <1>1, <1>2, <1>12, ReadyKept
<1>14. GapSlots(B)'
    <2>1. GapSlots(B) /\ read_index \in Nat /\ QueueSize' = QueueSize
        BY <1>1, <1>2 DEF GapOpen, TypeOK, QueueSize
    <2> QED BY <1>1, <1>13, <2>1, GapSizes DEF GapSlots, Slot
<1>15. \A k \in First..read_index - 1 : Ready(B, k)'
    BY <1>2, <1>13, GapNumbers DEF GapOpen
<1>16. \A s \in Regions : at'[Region(s)] = Start(s) + (i'[Region(s)] - B)
    <2> SUFFICES ASSUME NEW s \in Regions PROVE at'[Region(s)] = Start(s) + (i'[Region(s)] - B)
        OBVIOUS
    <2>1. at[Region(s)] = Start(s) + (i[Region(s)] - B) /\ Start(s) \in Nat
        BY <1>2, GapNumbers DEF GapOpen, GapRegion
    <2>2. CASE s = r
        BY <1>2, <1>4, <1>5, <2>1, <2>2
    <2>3. CASE s # r
        BY <1>5, <1>8, <2>1, <2>3
    <2> QED BY <2>2, <2>3
<1>17. TypeOK'
    <2>1. i' \in [Producers -> 0..NumPackets]
        <3>1. i \in [Producers -> 0..NumPackets] /\ i[p] + 1 \in 0..NumPackets
            BY <1>4, <1>5, <1>6 DEF TypeOK
        <3> QED BY <1>1, <3>1
    <2>2. at' \in [Producers -> Nat] /\ rung' \in Nat \cup {-1}
        <3>1. at \in [Producers -> Nat] /\ rung \in Nat \cup {-1} /\ at[p] + 1 \in Nat
            BY <1>4 DEF TypeOK
        <3> QED BY <1>1, <1>4, <3>1 DEF Larger
    <2> QED BY <1>1, <1>10, <2>1, <2>2 DEF TypeOK, QueueSize, NumPackets, Packets
<1>18. \A q \in Producers \ scenario.producers : pc'[q] = pc[q] /\ i'[q] = i[q]
    BY <1>2, <1>5, <1>10, GapNumbers
<1>19. GapHistory' /\ GapOpen(B)' /\ B \in 0..NumPackets'
    BY <1>1, <1>2, <1>10, <1>11, <1>14, <1>15, <1>16, <1>18, RoundKept
<1> QED BY <1>17, <1>19

(* While the second region is empty, none of its packets and none of the   *)
(* third region's was launched, although the doorbell was rung for the     *)
(* third: the gap holds the processor up.                                  *)
LEMMA GapHolds ==
    ASSUME TypeOK, GapHere, NEW B \in 0..NumPackets, GapOpen(B), NotBegun(B, 2)
    PROVE  /\ Gone(2) = 0 /\ Gone(3) = 0
           /\ signal[Region(2)] = RegionSize /\ signal[Region(3)] = RegionSize
<1>1. /\ RegionSize \in Nat \ {0} /\ B \in Nat /\ read_index \in Nat /\ First \in Nat
      /\ Start(1) = First /\ Start(2) = First + RegionSize /\ Start(3) = First + 2 * RegionSize
      /\ \A r \in Regions : completed[Region(r)] \in Nat /\ running[Region(r)] \in Nat
    BY GapSizes, GapNumbers
<1>2. Filled(B, 2) = 0 /\ Filled(B, 1) \in 0..RegionSize /\ Filled(B, 3) \in 0..RegionSize
    BY <1>1, GapFilled DEF NotBegun, Filled, Regions
<1>3. ~Ready(B, Start(2))
    <2> SUFFICES ASSUME NEW r \in Regions, Start(r) <= Start(2), Start(2) < Start(r) + Filled(B, r)
                 PROVE  FALSE
        BY DEF Ready
    <2> QED BY <1>1, <1>2 DEF Regions
<1>4. read_index <= Start(2)
    <2> SUFFICES ASSUME read_index > Start(2) PROVE FALSE
        BY <1>1
    <2>1. Start(2) \in First..read_index - 1
        BY <1>1
    <2> QED BY <1>3, <2>1 DEF GapOpen
<1>5. Gone(2) = 0 /\ Gone(3) = 0
    BY <1>1, <1>4 DEF Gone
<1>6. \A r \in {2, 3} : signal[Region(r)] = RegionSize
    <2> SUFFICES ASSUME NEW r \in {2, 3} PROVE signal[Region(r)] = RegionSize
        OBVIOUS
    <2>1. /\ signal[Region(r)] = B + RegionSize - completed[Region(r)]
          /\ completed[Region(r)] + running[Region(r)] = B + Gone(r)
          /\ completed[Region(r)] >= B
        BY DEF GapOpen, GapRegion, Regions, Started
    <2> QED BY <1>1, <1>5, <2>1 DEF Regions
<1> QED BY <1>5, <1>6

(* The waits, when they do not resume early: the assertion after the first *)
(* one holds, and after the last one everything the thread has reserved    *)
(* was launched and has ended.                                             *)
LEMMA GapWait ==
    ASSUME GapInv, GapHere, NEW p \in Producers, wait_region(p), early' = {}
    PROVE  GapInv'
<1> USE DEF GapInv
<1>1. /\ pc[p] = "wait" /\ signal[p] = 0 /\ pc' = WaitNext(p)
      /\ UNCHANGED <<scenario, write_index, read_index, slots, rung, running, signal, completed,
                     at, i, left, claimed, launched, crossed>>
    BY DEF wait_region, NoteEarly, queue, device, locals
<1>2. PICK r \in Regions, B \in 0..NumPackets : p = Region(r) /\ GapOpen(B)
    BY <1>1, GapWorker
<1>3. /\ RegionSize \in Nat \ {0} /\ NumPackets \in Nat \ {0} /\ QueueSize \in Nat \ {0}
      /\ B \in Nat /\ B % RegionSize = 0 /\ B + RegionSize <= NumPackets
      /\ read_index \in Nat /\ write_index \in Nat /\ Mode = "gap"
    BY <1>2, GapSizes, GapNumbers DEF GapOpen
<1>4. completed[p] = B + RegionSize
    <2>1. signal[p] = B + RegionSize - completed[p] /\ completed[p] \in Nat
        BY <1>2, GapNumbers DEF GapOpen, GapRegion
    <2> QED BY <1>1, <1>3, <2>1
<1>5. /\ Region(1) \in Producers /\ Region(2) \in Producers /\ Region(3) \in Producers
      /\ Region(1) # Region(2) /\ Region(1) # Region(3) /\ Region(2) # Region(3)
      /\ scenario.producers = {Region(1), Region(2), Region(3)}
    BY GapSizes
<1>6. /\ \A s \in Regions : Region(s) \in Producers /\ Region(s)' = Region(s)
      /\ RegionSize' = RegionSize /\ Mode' = Mode /\ QueueSize' = QueueSize
      /\ NumPackets' = NumPackets
    BY <1>1, <1>5 DEF Region, RegionSize, Mode, QueueSize, NumPackets, Regions
<1>7. /\ r = 1 => Full(B, 1, "wait") /\ NotBegun(B, 2) /\ Full(B, 3, "filled")
      /\ r = 2 => Awaited(B, 1) /\ Full(B, 2, "wait") /\ Full(B, 3, "filled")
      /\ r = 3 => Awaited(B, 1) /\ Awaited(B, 2) /\ Full(B, 3, "wait")
    <2>1. pc[Region(r)] = "wait" /\ GapStage(B)
        BY <1>1, <1>2 DEF GapOpen
    <2> QED BY <2>1 DEF GapStage, NotBegun, Full, Awaited, Filling, GapBusy
<1>8. /\ r = 1 => pc' = [pc EXCEPT ![Region(1)] = "turn", ![Region(2)] = "spin"]
      /\ r = 2 => pc' = [pc EXCEPT ![Region(2)] = "turn", ![Region(3)] = "wait"]
      /\ r = 3 => pc' = [q \in Producers |->
                           IF q \notin scenario.producers \/ i[p] = NumPackets THEN "done"
                           ELSE IF q = Region(1) THEN "reserve"
                           ELSE "turn"]
    <2>1. CASE r = 1
        <3>1. signal[Region(2)] = RegionSize /\ signal[Region(3)] = RegionSize
            BY <1>2, <1>7, <2>1, GapHolds
        <3> QED BY <1>1, <1>2, <1>5, <2>1, <3>1 DEF WaitNext
    <2>2. CASE r = 2
        BY <1>1, <1>2, <1>5, <2>2 DEF WaitNext
    <2>3. CASE r = 3
        BY <1>1, <1>2, <1>5, <2>3 DEF WaitNext
    <2> QED BY <2>1, <2>2, <2>3 DEF Regions
<1>9. pc \in [Producers -> {"reserve", "spin", "clear", "body", "header", "ring",
                            "wait", "chunk", "turn", "filled", "failed", "done"}]
    BY DEF TypeOK
<1>10. TypeOK'
    <2>1. pc' \in [Producers -> {"reserve", "spin", "clear", "body", "header", "ring",
                                 "wait", "chunk", "turn", "filled", "failed", "done"}]
        BY <1>8, <1>9 DEF Regions
    <2> QED BY <1>1, <1>6, <2>1 DEF TypeOK, Packets
<1>11. CASE r \in {1, 2}
    <2>1. /\ r = 1 => /\ pc'[Region(1)] = "turn" /\ pc'[Region(2)] = "spin"
                      /\ pc'[Region(3)] = pc[Region(3)]
          /\ r = 2 => /\ pc'[Region(1)] = pc[Region(1)] /\ pc'[Region(2)] = "turn"
                      /\ pc'[Region(3)] = "wait"
          /\ \A q \in Producers \ scenario.producers : pc'[q] = pc[q]
        BY <1>5, <1>8, <1>9, <1>11
    <2>2. \A s \in Regions : pc'[Region(s)] \notin {"header", "ring"}
                             /\ pc[Region(s)] \notin {"header", "ring"}
        BY <1>7, <1>11, <2>1 DEF Full, NotBegun, Awaited, Regions
    <2>3. \A s \in Regions : Sent(Region(s))' = Sent(Region(s))
        BY <1>1, <1>6, <2>2 DEF Sent
    <2>4. \A k \in Nat : Ready(B, k)' <=> Ready(B, k)
        BY <1>1, <1>2, <2>3, ReadyKept
    <2>5. GapSlots(B)'
        <3>1. GapSlots(B)
            BY <1>2 DEF GapOpen
        <3> QED BY <1>1, <1>3, <1>6, <2>4, <3>1 DEF GapSlots, Slot
    <2>6. \A k \in First..read_index - 1 : Ready(B, k)'
        BY <1>2, <2>4, GapNumbers DEF GapOpen
    <2>7. \A s \in Regions : at'[Region(s)] = Start(s) + (i'[Region(s)] - B)
        BY <1>1, <1>2 DEF GapOpen, GapRegion
    <2>8. GapStage(B)'
        <3>1. CASE r = 1
            <4>1. Awaited(B, 1)' /\ Full(B, 3, "filled")'
                BY <1>1, <1>2, <1>4, <1>6, <1>7, <2>1, <3>1 DEF Awaited, Full, Regions
            <4>2. Filling(B, 2)'
                BY <1>1, <1>3, <1>6, <1>7, <2>1, <3>1 DEF Filling, NotBegun, GapBusy, Regions
            <4> QED BY <4>1, <4>2 DEF GapStage
        <3>2. CASE r = 2
            <4>1. Awaited(B, 1)' /\ Awaited(B, 2)' /\ Full(B, 3, "wait")'
                BY <1>1, <1>2, <1>4, <1>6, <1>7, <2>1, <3>2 DEF Awaited, Full, Regions
            <4> QED BY <4>1 DEF GapStage
        <3> QED BY <1>11, <3>1, <3>2
    <2>9. GapHistory' /\ GapOpen(B)' /\ B \in 0..NumPackets'
        BY <1>1, <1>2, <2>1, <2>2, <2>5, <2>6, <2>7, <2>8, RoundKept
    <2> QED BY <1>10, <2>9
<1>12. CASE r = 3
    <2>1. /\ First \in Nat /\ First + 3 * RegionSize = write_index
          /\ Start(1) = First /\ Start(2) = First + RegionSize /\ Start(3) = First + 2 * RegionSize
          /\ \A s \in Regions : /\ completed[Region(s)] \in Nat /\ running[Region(s)] \in Nat
                                /\ Start(s) \in Nat
        BY <1>2, GapNumbers
    <2>2. \A s \in Regions : /\ i[Region(s)] = B + RegionSize
                             /\ completed[Region(s)] = B + RegionSize
        BY <1>2, <1>4, <1>7, <1>12 DEF Awaited, Full, Regions
    <2>3. \A s \in Regions : Gone(s) = RegionSize /\ running[Region(s)] = 0
        <3> SUFFICES ASSUME NEW s \in Regions PROVE Gone(s) = RegionSize /\ running[Region(s)] = 0
            OBVIOUS
        <3>1. completed[Region(s)] + running[Region(s)] = B + Gone(s)
            BY <1>2 DEF GapOpen, GapRegion, Started
        <3>2. Gone(s) \in 0..RegionSize
            BY <1>3, <2>1 DEF Gone
        <3> QED BY <1>3, <2>1, <2>2, <3>1, <3>2
    <2>4. read_index = write_index
        <3>1. read_index >= Start(3) + RegionSize
            BY <1>3, <2>1, <2>3 DEF Gone, Regions
        <3>2. read_index <= write_index
            BY DEF GapHistory
        <3> QED BY <1>3, <2>1, <3>1, <3>2
    <2>5. \A k \in read_index..read_index + QueueSize - 1 : slots[Slot(k)].header = "INVALID"
        <3> SUFFICES ASSUME NEW k \in read_index..read_index + QueueSize - 1
                     PROVE  ~Ready(B, k)
            BY <1>2 DEF GapOpen, GapSlots
        <3> SUFFICES ASSUME NEW s \in Regions, k < Start(s) + Filled(B, s) PROVE FALSE
            BY DEF Ready
        <3>1. Filled(B, s) \in 0..RegionSize
            BY <1>2, GapFilled
        <3> QED BY <1>3, <2>1, <2>4, <3>1 DEF Regions
    <2>6. (B + RegionSize) % RegionSize = 0
        BY <1>3, SlotsRepeat
    <2>7. \/ /\ pc'[Region(1)] = "reserve" /\ i[Region(1)] < NumPackets
             /\ pc'[Region(2)] = "turn" /\ pc'[Region(3)] = "turn"
          \/ \A s \in Regions : pc'[Region(s)] = "done"
        <3>1. i[p] = B + RegionSize /\ i[Region(1)] = B + RegionSize
            BY <1>2, <2>2 DEF Regions
        <3>2. CASE i[p] = NumPackets
            BY <1>6, <1>8, <1>12, <3>2 DEF Regions
        <3>3. CASE i[p] # NumPackets
            BY <1>3, <1>5, <1>8, <1>12, <3>1, <3>3
        <3> QED BY <3>2, <3>3
    <2>8. GapClosed'
        BY <1>1, <1>6, <2>2, <2>3, <2>4, <2>5, <2>6, <2>7 DEF GapClosed, Slot, Regions
    <2>9. GapHistory'
        <3>1. \A q \in Producers \ scenario.producers : pc'[q] = "done"
            BY <1>8, <1>12
        <3> QED BY <1>1, <3>1 DEF GapHistory
    <2> QED BY <1>10, <2>8, <2>9
<1> QED BY <1>11, <1>12 DEF Regions

(* A round begins: three regions are reserved behind everything that was   *)
(* launched.                                                               *)
LEMMA GapReserve ==
    ASSUME GapInv, GapHere, NEW p \in Producers, reserve_regions(p)
    PROVE  GapInv'
<1> USE DEF GapInv
<1> DEFINE N == RegionSize
           fresh == [n \in 1..3 * N |-> <<Region((n - 1) \div N + 1), i[p] + ((n - 1) % N)>>]
<1>1. /\ pc[p] = "reserve" /\ pc' = [pc EXCEPT ![p] = "spin"]
      /\ at' = [at EXCEPT ![Region(1)] = write_index, ![Region(2)] = write_index + N,
                          ![Region(3)] = write_index + 2 * N]
      /\ write_index' = write_index + 3 * N
      /\ claimed' = claimed \o fresh
      /\ signal' = [q \in Producers |-> N]
      /\ UNCHANGED <<scenario, read_index, slots, rung, running, completed, i, left, launched,
                     early, crossed>>
    BY DEF reserve_regions, Goto, lapses
<1>2. /\ N \in Nat \ {0} /\ QueueSize \in Nat \ {0} /\ NumPackets \in Nat \ {0}
      /\ NumPackets % N = 0 /\ Mode = "gap" /\ write_index \in Nat /\ read_index \in Nat
      /\ Region(1) \in Producers /\ Region(2) \in Producers /\ Region(3) \in Producers
      /\ Region(1) # Region(2) /\ Region(1) # Region(3) /\ Region(2) # Region(3)
      /\ scenario.producers = {Region(1), Region(2), Region(3)}
    BY GapSizes DEF TypeOK
<1>3. p \in scenario.producers
    BY <1>1 DEF GapHistory
<1>4. GapClosed
    <2> SUFFICES ASSUME NEW B \in 0..NumPackets, GapOpen(B) PROVE FALSE
        OBVIOUS
    <2>1. \A r \in Regions : pc[Region(r)] # "reserve"
        BY DEF GapOpen, GapStage, Filling, NotBegun, Full, Awaited, GapBusy, Regions
    <2> QED BY <1>1, <1>2, <1>3, <2>1 DEF Regions
<1>5. p = Region(1)
    BY <1>1, <1>2, <1>3, <1>4 DEF GapClosed, Regions
<1>6. PICK B \in 0..NumPackets : B = i[p]
    BY DEF TypeOK
<1>7. /\ B \in Nat /\ B % N = 0 /\ B < NumPackets /\ read_index = write_index
      /\ pc[Region(2)] = "turn" /\ pc[Region(3)] = "turn"
      /\ \A r \in Regions : /\ i[Region(r)] = B /\ completed[Region(r)] = B
                            /\ running[Region(r)] = 0
    BY <1>1, <1>2, <1>4, <1>5, <1>6 DEF GapClosed, Regions
<1>8. B + N <= NumPackets
    BY <1>2, <1>7, RegionsApart
<1>9. /\ Mode' = Mode /\ RegionSize' = N /\ QueueSize' = QueueSize /\ NumPackets' = NumPackets
      /\ \A r : Region(r)' = Region(r)
      /\ Packets' = Packets
    BY <1>1 DEF Mode, RegionSize, QueueSize, NumPackets, Region, Packets
<1> HIDE DEF N
<1>10. /\ First' = write_index
       /\ Start(1)' = write_index /\ Start(2)' = write_index + N
       /\ Start(3)' = write_index + 2 * N
    <2>1. First' = write_index
        BY <1>1, <1>2, <1>9 DEF First
    <2> QED BY <1>2, <1>9, <2>1 DEF Start
<1>11. /\ pc'[Region(1)] = "spin" /\ pc'[Region(2)] = "turn" /\ pc'[Region(3)] = "turn"
       /\ \A q \in Producers \ scenario.producers : pc'[q] = pc[q]
    BY <1>1, <1>2, <1>5, <1>7 DEF TypeOK
<1>12. ASSUME NEW r \in Regions, NEW o \in 0..N - 1
       PROVE  LET n == N * (r - 1) + o + 1
              IN  n \in 1..3 * N /\ fresh[n] = <<Region(r), B + o>>
    <2> DEFINE n == N * (r - 1) + o + 1
    <2>1. n \in 1..3 * N /\ n - 1 \in Nat /\ r - 1 \in Nat /\ n - 1 = N * (r - 1) + o
        BY <1>2 DEF Regions
    <2>2. (n - 1) \div N = r - 1 /\ (n - 1) % N = o
        BY <1>2, <2>1, Quotient
    <2>3. (r - 1) + 1 = r
        BY DEF Regions
    <2>4. fresh[n] = <<Region((n - 1) \div N + 1), i[p] + ((n - 1) % N)>>
        BY <2>1
    <2> QED BY <1>6, <2>1, <2>2, <2>3, <2>4
<1>13. ASSUME NEW n \in 1..3 * N PROVE fresh[n] \in Packets
    <2>1. n - 1 \in Nat /\ (n - 1) % N \in 0..N - 1 /\ (n - 1) \div N \in Nat
          /\ n - 1 = N * ((n - 1) \div N) + ((n - 1) % N)
        BY <1>2, Remainder
    <2>2. (n - 1) \div N \in 0..2
        <3> DEFINE a == (n - 1) \div N
                   o == (n - 1) % N
        <3>1. a \in Nat /\ o \in 0..N - 1 /\ N * a + o <= 3 * N - 1
            BY <1>2, <2>1
        <3> HIDE DEF a, o
        <3>2. a >= 3 => N * a >= N * 3
            BY <1>2, <3>1
        <3>3. a <= 2
            BY <1>2, <3>1, <3>2
        <3> QED BY <3>1, <3>3 DEF a
    <2>3. Region((n - 1) \div N + 1) \in Producers
        BY <1>2, <2>2
    <2>4. i[p] + ((n - 1) % N) \in 0..NumPackets - 1
        BY <1>2, <1>6, <1>7, <1>8, <2>1
    <2>5. fresh[n] = <<Region((n - 1) \div N + 1), i[p] + ((n - 1) % N)>>
        OBVIOUS
    <2> QED BY <2>3, <2>4, <2>5 DEF Packets
<1>14. /\ fresh \in Seq(Packets) /\ Len(fresh) = 3 * N
       /\ claimed \in Seq(Packets) /\ Len(claimed) = write_index
    <2> DEFINE M == 3 * N
    <2>1. M \in Nat
        BY <1>2
    <2>2. fresh \in [1..M -> Packets]
        BY <1>13
    <2> HIDE DEF M, fresh
    <2>3. fresh \in Seq(Packets) /\ Len(fresh) = M
        BY <2>1, <2>2
    <2> QED BY <2>3 DEF TypeOK, GapHistory, M
<1> HIDE DEF fresh
<1>15. /\ claimed' \in Seq(Packets) /\ Len(claimed') = write_index'
       /\ \A k \in 1..write_index : claimed'[k] = claimed[k]
       /\ \A n \in 1..3 * N : claimed'[write_index + n] = fresh[n]
    <2>1. claimed' = claimed \o fresh
        BY <1>1 DEF fresh
    <2>2. Len(claimed') = write_index' /\ claimed' \in Seq(Packets)
        BY <1>1, <1>14, <2>1
    <2>3. ASSUME NEW k \in 1..write_index PROVE claimed'[k] = claimed[k]
        BY <1>2, <1>14, <2>1
    <2>4. ASSUME NEW n \in 1..3 * N PROVE claimed'[write_index + n] = fresh[n]
        BY <1>2, <1>14, <2>1
    <2> QED BY <2>2, <2>3, <2>4
<1>a. /\ at' \in [Producers -> Nat]
      /\ at'[Region(1)] = write_index /\ at'[Region(2)] = write_index + N
      /\ at'[Region(3)] = write_index + 2 * N
    <2> DEFINE v == write_index + N
               w == write_index + 2 * N
    <2>1. v \in Nat /\ w \in Nat /\ at \in [Producers -> Nat]
        BY <1>2 DEF TypeOK
    <2>2. at' = [at EXCEPT ![Region(1)] = write_index, ![Region(2)] = v, ![Region(3)] = w]
        BY <1>1
    <2> HIDE DEF v, w
    <2>3. at' \in [Producers -> Nat]
        BY <1>2, <2>1, <2>2
    <2>4. at'[Region(1)] = write_index /\ at'[Region(2)] = v /\ at'[Region(3)] = w
        BY <1>2, <2>1, <2>2
    <2> QED BY <2>3, <2>4 DEF v, w
<1>16. TypeOK'
    <2>2. signal' \in [Producers -> Int]
        BY <1>1, <1>2
    <2>3. pc' \in [Producers -> {"reserve", "spin", "clear", "body", "header", "ring",
                                 "wait", "chunk", "turn", "filled", "failed", "done"}]
        BY <1>1 DEF TypeOK
    <2>4. write_index' \in Nat
        BY <1>1, <1>2
    <2> QED BY <1>1, <1>9, <1>15, <1>a, <2>2, <2>3, <2>4 DEF TypeOK
<1>17. GapHistory'
    <2>1. read_index' <= write_index'
        BY <1>1, <1>2, <1>7
    <2>2. \A k \in 1..read_index : launched[k] = claimed'[k]
        BY <1>7, <1>15 DEF GapHistory
    <2> QED BY <1>1, <1>11, <1>15, <2>1, <2>2 DEF GapHistory
<1>18. GapStage(B)'
    <2>1. Filling(B, 1)'
        BY <1>1, <1>2, <1>7, <1>9, <1>11 DEF Filling, GapBusy, Regions
    <2>2. NotBegun(B, 2)' /\ NotBegun(B, 3)'
        BY <1>1, <1>7, <1>9, <1>11 DEF NotBegun, Regions
    <2> QED BY <2>1, <2>2 DEF GapStage
<1>19. \A k \in Nat : ~Ready(B, k)'
    <2>1. \A r \in Regions : Filled(B, r)' = 0
        BY <1>1, <1>7, <1>9, <1>11 DEF Filled, Sent, Regions
    <2>2. \A r \in Regions : Start(r)' \in Nat
        BY <1>2, <1>10 DEF Regions
    <2> QED BY <2>1, <2>2 DEF Ready
<1>20. GapSlots(B)'
    <2>1. \A k \in read_index..read_index + QueueSize - 1 : slots[Slot(k)].header = "INVALID"
        BY <1>4 DEF GapClosed
    <2>2. \A k \in read_index..read_index + QueueSize - 1 : k \in Nat
        BY <1>2
    <2> QED BY <1>1, <1>9, <1>19, <2>1, <2>2 DEF GapSlots, Slot
<1>21. ASSUME NEW r \in Regions PROVE GapRegion(B, r)'
    <2>1. Start(r)' = write_index + N * (r - 1) /\ Start(r)' \in Nat
        BY <1>2, <1>10 DEF Regions
    <2>2. at'[Region(r)] = Start(r)' /\ i'[Region(r)] = B
        BY <1>1, <1>7, <1>10, <1>a DEF Regions
    <2>3. \A o \in 0..N - 1 : claimed'[Start(r)' + o + 1] = <<Region(r), B + o>>
        <3> SUFFICES ASSUME NEW o \in 0..N - 1
                     PROVE  claimed'[Start(r)' + o + 1] = <<Region(r), B + o>>
            OBVIOUS
        <3>1. LET n == N * (r - 1) + o + 1
              IN  n \in 1..3 * N /\ fresh[n] = <<Region(r), B + o>>
            BY <1>12
        <3>2. Start(r)' + o + 1 = write_index + (N * (r - 1) + o + 1)
            BY <1>2, <2>1 DEF Regions
        <3> QED BY <1>15, <3>1, <3>2
    <2>4. signal'[Region(r)] = B + N - completed'[Region(r)]
        BY <1>1, <1>2, <1>7 DEF Regions
    <2>5. Gone(r)' = 0
        BY <1>1, <1>2, <1>7, <1>9, <1>10 DEF Gone, Regions
    <2>6. Started(Region(r))' = B + Gone(r)' /\ completed'[Region(r)] >= B
        BY <1>1, <1>7, <1>9, <2>5 DEF Started
    <2>7. pc'[Region(r)] # "header"
        BY <1>11 DEF Regions
    <2>8. at'[Region(r)] = Start(r)' + (i'[Region(r)] - B)
        BY <1>7, <2>1, <2>2
    <2> QED BY <1>9, <2>3, <2>4, <2>6, <2>7, <2>8 DEF GapRegion
<1>22. GapOpen(B)'
    <2>1. First' >= 0 /\ First' <= read_index' /\ \A k \in First'..read_index' - 1 : FALSE
        BY <1>1, <1>2, <1>7, <1>10
    <2> QED BY <1>7, <1>8, <1>9, <1>18, <1>20, <1>21, <2>1 DEF GapOpen
<1> QED BY <1>6, <1>9, <1>16, <1>17, <1>22

(* A kernel ends: its region is not one the thread has waited for. *)
LEMMA GapComplete ==
    ASSUME GapInv, GapHere, NEW p \in Producers, complete_kernel(p)
    PROVE  GapInv'
<1> USE DEF GapInv
<1>1. /\ running[p] > 0
      /\ running' = [running EXCEPT ![p] = running[p] - 1]
      /\ signal' = [signal EXCEPT ![p] = signal[p] - 1]
      /\ completed' = [completed EXCEPT ![p] = completed[p] + 1]
      /\ UNCHANGED <<scenario, write_index, read_index, slots, rung, at, i, left, pc,
                     claimed, launched,
                     early, crossed>>
    BY DEF complete_kernel, queue, locals, lapses
<1>2. p \in scenario.producers
    BY <1>1 DEF GapHistory
<1>3. PICK r \in Regions : p = Region(r)
    BY <1>2, GapSizes DEF Regions
<1>4. ~GapClosed
    BY <1>1, <1>3 DEF GapClosed
<1>5. PICK B \in 0..NumPackets : GapOpen(B)
    BY <1>4
<1>6. /\ running[p] \in Nat /\ completed[p] \in Nat /\ signal[p] \in Int
      /\ B \in Nat /\ RegionSize \in Nat \ {0}
    BY <1>5, GapSizes, GapNumbers DEF TypeOK
<1>7. /\ running'[p] = running[p] - 1 /\ signal'[p] = signal[p] - 1
      /\ completed'[p] = completed[p] + 1
      /\ \A q \in Producers \ {p} :
            running'[q] = running[q] /\ signal'[q] = signal[q] /\ completed'[q] = completed[q]
    BY <1>1 DEF TypeOK
<1>8. TypeOK'
    <2>1. running' \in [Producers -> Nat]
        BY <1>1, <1>6 DEF TypeOK
    <2>2. signal' \in [Producers -> Int] /\ completed' \in [Producers -> Nat]
        BY <1>1, <1>6 DEF TypeOK
    <2> QED BY <1>1, <2>1, <2>2 DEF TypeOK, QueueSize, NumPackets, Packets
<1>9. /\ RegionSize' = RegionSize /\ QueueSize' = QueueSize /\ NumPackets' = NumPackets
      /\ First' = First /\ \A s \in Regions : Region(s)' = Region(s) /\ Start(s)' = Start(s)
      /\ \A s \in Regions : Filled(B, s)' = Filled(B, s) /\ Gone(s)' = Gone(s)
    BY <1>1 DEF RegionSize, QueueSize, NumPackets, Region, First, Start, Filled, Sent, Mode, Gone
<1>10. /\ \A k \in Nat : Ready(B, k)' = Ready(B, k)
       /\ \A k \in Nat : Slot(k)' = Slot(k)
    BY <1>9 DEF Ready, Slot
<1>11. ~Awaited(B, r)
    <2>1. completed[p] + running[p] = B + Gone(r) /\ Gone(r) \in Int /\ Gone(r) <= RegionSize
        <3>1. Started(p) = B + Gone(r)
            BY <1>3, <1>5 DEF GapOpen, GapRegion
        <3>2. Start(r) \in Nat /\ read_index \in Nat
            BY <1>5, GapNumbers
        <3> QED BY <1>6, <3>1, <3>2 DEF Started, Gone
    <2> QED BY <1>1, <1>3, <1>6, <2>1 DEF Awaited
<1>12. \A s \in Regions \ {r} : Region(s) \in Producers \ {p}
    BY <1>3, RegionsDiffer
<1>13. GapStage(B)'
    <2>1. \A s \in Regions :
             /\ NotBegun(B, s)' = NotBegun(B, s) /\ Filling(B, s)' = Filling(B, s)
             /\ \A l \in {"filled", "wait", "turn"} : Full(B, s, l)' = Full(B, s, l)
        BY <1>1, <1>9 DEF NotBegun, Filling, Full
    <2>2. \A s \in Regions : Awaited(B, s) => Awaited(B, s)'
        BY <1>7, <1>9, <1>11, <1>12, <2>1 DEF Awaited
    <2> QED BY <1>5, <2>1, <2>2 DEF GapOpen, GapStage, Regions
<1>14. ASSUME NEW s \in Regions PROVE GapRegion(B, s)'
    <2>1. GapRegion(B, s)
        BY <1>5 DEF GapOpen
    <2>2. \A o \in 0..RegionSize' - 1 : claimed'[Start(s)' + o + 1] = <<Region(s)', B + o>>
        BY <1>1, <1>9, <2>1 DEF GapRegion
    <2>3. /\ at'[Region(s)'] = Start(s)' + (i'[Region(s)'] - B)
          /\ pc'[Region(s)'] = "header" =>
                slots'[Slot(at[Region(s)])'].body = <<Region(s)', i'[Region(s)']>>
        BY <1>1, <1>9, <2>1 DEF GapRegion, Slot
    <2>4. /\ signal'[Region(s)] = B + RegionSize - completed'[Region(s)]
          /\ Started(Region(s))' = B + Gone(s) /\ completed'[Region(s)] >= B
        <3>1. /\ signal[Region(s)] = B + RegionSize - completed[Region(s)]
              /\ completed[Region(s)] + running[Region(s)] = B + Gone(s)
              /\ completed[Region(s)] >= B
            BY <2>1 DEF GapRegion, Started
        <3>2. CASE s = r
            BY <1>3, <1>6, <1>7, <1>9, <3>1, <3>2 DEF Started
        <3>3. CASE s # r
            BY <1>7, <1>9, <1>12, <3>1, <3>3 DEF Started
        <3> QED BY <3>2, <3>3
    <2> QED BY <1>9, <2>2, <2>3, <2>4 DEF GapRegion
<1>15. GapSlots(B)'
    <2>1. GapSlots(B) /\ read_index \in Nat /\ QueueSize \in Nat
        BY <1>5, GapSizes DEF GapOpen, TypeOK
    <2> QED BY <1>1, <1>9, <1>10, <2>1 DEF GapSlots
<1>16. GapOpen(B)'
    <2>1. /\ First \in Nat /\ First <= read_index /\ B % RegionSize = 0
          /\ B + RegionSize <= NumPackets /\ read_index \in Nat
          /\ \A k \in First..read_index - 1 : Ready(B, k)
        BY <1>5, GapNumbers DEF GapOpen
    <2>2. \A k \in First..read_index - 1 : Ready(B, k)'
        BY <1>10, <2>1
    <2> QED BY <1>1, <1>9, <1>13, <1>14, <1>15, <2>1, <2>2 DEF GapOpen
<1>17. GapHistory'
    BY <1>1, <1>2, <1>7 DEF GapHistory
<1> QED BY <1>8, <1>9, <1>16, <1>17

(* The next packet to launch. *)
LEMMA GapNext ==
    ASSUME GapInv, GapHere, launch_packet
    PROVE  \E B \in 0..NumPackets, r \in Regions :
              /\ GapOpen(B) /\ Ready(B, read_index) /\ read_index < write_index
              /\ Start(r) <= read_index /\ read_index < Start(r) + RegionSize
              /\ slots[Slot(read_index)].body = claimed[read_index + 1]
              /\ claimed[read_index + 1] = <<Region(r), B + (read_index - Start(r))>>
<1> USE DEF GapInv
<1>1. read_index \in read_index..read_index + QueueSize - 1
    <2>1. read_index \in Nat /\ QueueSize \in Nat \ {0}
        BY GapSizes DEF TypeOK
    <2> QED BY <2>1
<1>2. slots[Slot(read_index)].header # "INVALID"
    BY DEF launch_packet
<1>3. ~GapClosed
    BY <1>1, <1>2 DEF GapClosed
<1>4. PICK B \in 0..NumPackets : GapOpen(B)
    BY <1>3
<1>5. /\ Ready(B, read_index)
      /\ slots[Slot(read_index)] = [header |-> "KERNEL_DISPATCH", body |-> claimed[read_index + 1]]
    BY <1>1, <1>2, <1>4 DEF GapOpen, GapSlots
<1>6. PICK r \in Regions : Start(r) <= read_index /\ read_index < Start(r) + Filled(B, r)
    BY <1>5 DEF Ready
<1>7. Filled(B, r) \in 0..RegionSize
    BY <1>4, GapFilled
<1>8. /\ read_index \in Nat /\ First \in Nat /\ First + 3 * RegionSize = write_index
      /\ Start(1) = First /\ Start(2) = First + RegionSize /\ Start(3) = First + 2 * RegionSize
      /\ Start(r) \in Nat /\ RegionSize \in Nat \ {0}
    BY <1>4, GapSizes, GapNumbers
<1>9. read_index < Start(r) + RegionSize /\ read_index < write_index
    BY <1>6, <1>7, <1>8 DEF Regions
<1>10. claimed[read_index + 1] = <<Region(r), B + (read_index - Start(r))>>
    <2> DEFINE o == read_index - Start(r)
    <2>1. o \in 0..RegionSize - 1 /\ Start(r) + o + 1 = read_index + 1
        BY <1>6, <1>8, <1>9
    <2>2. claimed[Start(r) + o + 1] = <<Region(r), B + o>>
        BY <1>4, <2>1 DEF GapOpen, GapRegion
    <2> QED BY <2>1, <2>2
<1> QED BY <1>4, <1>5, <1>6, <1>9, <1>10

(* A launch: the next packet is published, is the one the index was        *)
(* reserved for, and leaves an empty slot for the index a lap later, which *)
(* nobody has reserved.                                                    *)
LEMMA GapLaunch ==
    ASSUME GapInv, GapHere, launch_packet
    PROVE  GapInv'
<1> USE DEF GapInv
<1> DEFINE c == Slot(read_index)
           packet == slots[c].body
<1>1. PICK B \in 0..NumPackets, r \in Regions :
              /\ GapOpen(B) /\ Ready(B, read_index) /\ read_index < write_index
              /\ Start(r) <= read_index /\ read_index < Start(r) + RegionSize
              /\ packet = claimed[read_index + 1]
              /\ packet = <<Region(r), B + (read_index - Start(r))>>
    BY GapNext
<1>2. /\ RegionSize \in Nat \ {0} /\ QueueSize \in Nat \ {0} /\ 3 * RegionSize <= QueueSize
      /\ B \in Nat /\ write_index \in Nat /\ read_index \in Nat /\ First \in Nat
      /\ First + 3 * RegionSize = write_index /\ First <= read_index
      /\ Start(1) = First /\ Start(2) = First + RegionSize /\ Start(3) = First + 2 * RegionSize
      /\ \A s \in Regions :
            /\ Region(s) \in Producers /\ Region(s) \in scenario.producers
            /\ completed[Region(s)] \in Nat /\ running[Region(s)] \in Nat /\ Start(s) \in Nat
    BY <1>1, GapSizes, GapNumbers
<1>3. packet # NoPacket /\ packet[1] = Region(r)
    BY <1>1 DEF NoPacket
<1>4. /\ launched' = Append(launched, packet)
      /\ running' = [running EXCEPT ![Region(r)] = running[Region(r)] + 1]
      /\ slots' = [slots EXCEPT ![c].header = "INVALID"]
      /\ read_index' = read_index + 1
      /\ UNCHANGED <<scenario, write_index, rung, signal, completed, at, i, left, pc, claimed,
                     early, crossed>>
    BY <1>3 DEF launch_packet, locals, lapses
<1>b. read_index' = read_index + 1
    BY <1>4
<1>5. c \in 0..QueueSize - 1
    BY <1>2, Remainder DEF Slot
<1>a. /\ Start(r) \in Nat /\ Region(r) \in Producers /\ running[Region(r)] \in Nat
      /\ completed[Region(r)] \in Nat /\ read_index + 1 \in Nat
    BY <1>2
<1>6. /\ running'[Region(r)] = running[Region(r)] + 1
      /\ \A q \in Producers \ {Region(r)} : running'[q] = running[q]
      /\ running' \in [Producers -> Nat]
    <2>1. running \in [Producers -> Nat]
        BY DEF TypeOK
    <2> QED BY <1>4, <1>a, <2>1
<1>7. /\ slots \in [0..QueueSize - 1 -> [header : Headers, body : Packets \cup {NoPacket}]]
      /\ packet \in Packets \cup {NoPacket}
    BY <1>5 DEF TypeOK
<1> HIDE DEF c, packet
<1>8. /\ slots' \in [0..QueueSize - 1 -> [header : Headers, body : Packets \cup {NoPacket}]]
      /\ slots'[c].header = "INVALID"
      /\ \A k \in 0..QueueSize - 1 : k # c => slots'[k] = slots[k]
    BY <1>4, <1>5, <1>7 DEF Headers
<1>9. \A k \in 0..QueueSize - 1 : slots'[k].body = slots[k].body
    BY <1>4, <1>5, <1>7
<1>10. TypeOK'
    <2>1. launched' \in Seq(Packets \cup {NoPacket})
        BY <1>4, <1>7 DEF TypeOK
    <2>2. read_index' \in Nat
        BY <1>4, <1>a
    <2>3. QueueSize' = QueueSize /\ NumPackets' = NumPackets /\ Packets' = Packets
        BY <1>4 DEF QueueSize, NumPackets, Packets
    <2> QED BY <1>4, <1>6, <1>8, <2>1, <2>2, <2>3 DEF TypeOK
<1>11. /\ RegionSize' = RegionSize /\ QueueSize' = QueueSize /\ NumPackets' = NumPackets
       /\ First' = First /\ \A s \in Regions : Region(s)' = Region(s) /\ Start(s)' = Start(s)
       /\ \A s \in Regions : Filled(B, s)' = Filled(B, s)
    BY <1>4 DEF RegionSize, QueueSize, NumPackets, Region, First, Start, Filled, Sent, Mode
<1>12. /\ \A k \in Nat : Ready(B, k)' = Ready(B, k)
       /\ \A k \in Nat : Slot(k)' = Slot(k)
    BY <1>11 DEF Ready, Slot
<1>13. GapHistory'
    <2>1. /\ launched \in Seq(Packets \cup {NoPacket}) /\ Len(launched) = read_index
          /\ \A k \in 1..read_index : launched[k] = claimed[k]
        BY DEF TypeOK, GapHistory
    <2>2. Len(launched') = read_index + 1
        BY <1>4, <2>1
    <2>3. ASSUME NEW k \in 1..read_index + 1 PROVE launched'[k] = claimed[k]
        <3>1. CASE k = read_index + 1
            <4>1. launched'[read_index + 1] = packet
                <5>1. launched' = Append(launched, packet)
                    BY <1>4
                <5> QED BY <1>2, <1>7, <2>1, <5>1
            <4> QED BY <1>1, <3>1, <4>1
        <3>2. CASE k # read_index + 1
            <4>1. k \in 1..read_index
                BY <1>2, <3>2
            <4> QED BY <1>4, <1>7, <2>1, <4>1
        <3> QED BY <3>1, <3>2
    <2>4. read_index + 1 <= write_index
        BY <1>1, <1>2
    <2>5. \A q \in Producers \ scenario.producers : running'[q] = running[q]
        BY <1>2, <1>6
    <2> QED BY <1>4, <2>2, <2>3, <2>4, <2>5 DEF GapHistory
<1>14. GapStage(B)'
    <2>1. \A s \in Regions :
             /\ NotBegun(B, s)' = NotBegun(B, s) /\ Filling(B, s)' = Filling(B, s)
             /\ \A l \in {"filled", "wait", "turn"} : Full(B, s, l)' = Full(B, s, l)
             /\ Awaited(B, s)' = Awaited(B, s)
        BY <1>4, <1>11 DEF NotBegun, Filling, Full, Awaited
    <2> QED BY <1>1, <2>1 DEF GapOpen, GapStage, Regions
<1>15. /\ Gone(r) \in Nat /\ Gone(r)' = Gone(r) + 1
       /\ \A s \in Regions \ {r} : Gone(s)' = Gone(s)
    <2>1. Gone(r) \in Nat /\ Gone(r)' = Gone(r) + 1
        <3>1. /\ Start(r)' = Start(r) /\ RegionSize' = RegionSize /\ read_index' = read_index + 1
              /\ Start(r) <= read_index /\ read_index < Start(r) + RegionSize
            BY <1>1, <1>4, <1>11
        <3>2. Gone(r) = read_index - Start(r) /\ Gone(r)' = read_index + 1 - Start(r)
            BY <1>2, <1>a, <3>1 DEF Gone
        <3> QED BY <1>2, <1>a, <3>1, <3>2
    <2>2. ASSUME NEW s \in Regions, s # r PROVE Gone(s)' = Gone(s)
        <3>1. read_index + 1 <= Start(s) \/ read_index >= Start(s) + RegionSize
            BY <1>1, <1>2, <2>2 DEF Regions
        <3>2. Start(s) \in Nat /\ Start(s)' = Start(s) /\ read_index' = read_index + 1
            BY <1>2, <1>4, <1>11, <2>2
        <3> QED BY <1>2, <1>11, <3>1, <3>2 DEF Gone
    <2> QED BY <2>1, <2>2
<1>16. ASSUME NEW s \in Regions PROVE GapRegion(B, s)'
    <2>1. GapRegion(B, s)
        BY <1>1 DEF GapOpen
    <2>2. \A o \in 0..RegionSize' - 1 : claimed'[Start(s)' + o + 1] = <<Region(s)', B + o>>
        BY <1>4, <1>11, <2>1 DEF GapRegion
    <2>3. /\ at'[Region(s)'] = Start(s)' + (i'[Region(s)'] - B)
          /\ signal'[Region(s)] = B + RegionSize - completed'[Region(s)]
          /\ completed'[Region(s)] >= B
        BY <1>4, <1>11, <2>1 DEF GapRegion
    <2>4. Started(Region(s))' = B + Gone(s)'
        <3>1. completed[Region(s)] + running[Region(s)] = B + Gone(s)
            BY <2>1 DEF GapRegion, Started
        <3>2. CASE s = r
            <4>1. /\ completed[Region(r)] + running[Region(r)] = B + Gone(r)
                  /\ Started(Region(r))' = completed[Region(r)] + (running[Region(r)] + 1)
                BY <1>4, <1>6, <1>11, <3>1, <3>2 DEF Started
            <4> QED BY <1>2, <1>15, <1>a, <3>2, <4>1
        <3>3. CASE s # r
            <4>1. Region(s) \in Producers \ {Region(r)}
                BY <3>3, RegionsDiffer
            <4> QED BY <1>4, <1>6, <1>11, <1>15, <3>1, <3>3, <4>1 DEF Started
        <3> QED BY <3>2, <3>3
    <2>5. pc'[Region(s)'] = "header" =>
             slots'[Slot(at[Region(s)])'].body = <<Region(s)', i'[Region(s)']>>
        <3>1. at[Region(s)] \in Nat
            BY <1>1, GapNumbers
        <3>2. Slot(at[Region(s)])' = Slot(at[Region(s)])
            BY <1>4, <1>11 DEF Slot
        <3>3. Slot(at[Region(s)]) \in 0..QueueSize - 1
            BY <1>2, <3>1, Remainder DEF Slot
        <3> QED BY <1>4, <1>9, <1>11, <2>1, <3>2, <3>3 DEF GapRegion
    <2> QED BY <1>11, <2>2, <2>3, <2>4, <2>5 DEF GapRegion
<1>17. GapSlots(B)'
    <2> SUFFICES ASSUME NEW k \in read_index + 1..read_index + QueueSize
                 PROVE  /\ Ready(B, k) => slots'[Slot(k)] = [header |-> "KERNEL_DISPATCH",
                                                             body |-> claimed[k + 1]]
                        /\ ~Ready(B, k) => slots'[Slot(k)].header = "INVALID"
        <3>1. \A k \in read_index'..read_index' + QueueSize' - 1 :
                 k \in Nat /\ k \in read_index + 1..read_index + QueueSize
            BY <1>2, <1>11, <1>b
        <3> QED BY <1>4, <1>12, <3>1 DEF GapSlots
    <2>1. k \in Nat /\ Slot(k) \in 0..QueueSize - 1
        <3>1. k \in Nat
            BY <1>2
        <3> QED BY <1>2, <3>1, Remainder DEF Slot
    <2>2. CASE k = read_index + QueueSize
        <3>1. Slot(k) = c
            BY <1>2, <2>2, SlotsRepeat DEF Slot, c
        <3>2. ~Ready(B, k)
            <4> SUFFICES ASSUME NEW s \in Regions, k < Start(s) + Filled(B, s) PROVE FALSE
                BY DEF Ready
            <4>1. Filled(B, s) \in 0..RegionSize
                BY <1>1, GapFilled
            <4> QED BY <1>2, <2>2, <4>1 DEF Regions
        <3> QED BY <1>8, <3>1, <3>2
    <2>3. CASE k # read_index + QueueSize
        <3>1. /\ k \in read_index..read_index + QueueSize - 1 /\ k # read_index
              /\ read_index \in read_index..read_index + QueueSize - 1
            BY <1>2, <2>3
        <3>2. Slot(k) # c
            BY <3>1, GapApart DEF c
        <3>3. slots'[Slot(k)] = slots[Slot(k)]
            BY <1>8, <2>1, <3>2
        <3> QED BY <1>1, <3>1, <3>3 DEF GapOpen, GapSlots
    <2> QED BY <2>2, <2>3
<1>18. GapOpen(B)'
    <2>1. /\ First \in Nat /\ First <= read_index' /\ B % RegionSize = 0
          /\ B + RegionSize <= NumPackets
          /\ \A k \in First..read_index - 1 : Ready(B, k)
        BY <1>1, <1>2, <1>4 DEF GapOpen
    <2>2. ASSUME NEW k \in First..read_index' - 1 PROVE Ready(B, k)'
        <3>1. k \in Nat /\ (k = read_index \/ k \in First..read_index - 1)
            BY <1>2, <1>b
        <3> QED BY <1>1, <1>12, <2>1, <3>1
    <2> QED BY <1>11, <1>14, <1>16, <1>17, <2>1, <2>2 DEF GapOpen
<1> QED BY <1>10, <1>11, <1>13, <1>18

(* The places the thread can be in. *)
LEMMA GapPlaces ==
    ASSUME GapInv, GapHere, NEW p \in Producers
    PROVE  pc[p] \in GapBusy \cup {"reserve", "turn", "filled", "wait", "done"}
<1> USE DEF GapInv
<1>1. CASE p \notin scenario.producers
    BY <1>1 DEF GapHistory
<1>2. CASE p \in scenario.producers
    <2>1. PICK r \in Regions : p = Region(r)
        BY <1>2, GapSizes DEF Regions
    <2>2. CASE GapClosed
        BY <2>1, <2>2 DEF GapClosed, Regions
    <2>3. ASSUME NEW B \in 0..NumPackets, GapOpen(B)
          PROVE  pc[p] \in GapBusy \cup {"reserve", "turn", "filled", "wait", "done"}
        BY <2>1, <2>3 DEF GapOpen, GapStage, Filling, NotBegun, Full, Awaited, Regions
    <2> QED BY <2>2, <2>3
<1> QED BY <1>1, <1>2

(* The steps of the gap test. *)
LEMMA GapSteps ==
    ASSUME GapInv, GapHere, [Next]_vars
    PROVE  \/ \E p \in Producers :
                \/ reserve_regions(p) \/ wait_for_slot(p) \/ copy_body(p) \/ store_header(p)
                \/ ring_doorbell_gap(p) \/ wait_region(p) \/ complete_kernel(p)
           \/ launch_packet
           \/ UNCHANGED vars
<1>1. Mode = "gap"
    BY GapSizes DEF GapInv
<1>2. \A p \in Producers : ~clear_packet(p) /\ ~wait_for_chunk(p)
    BY GapPlaces DEF clear_packet, wait_for_chunk, GapBusy
<1>3. \A p \in Producers :
         /\ ~add_write_index(p) /\ ~add_write_index_bulk(p) /\ ~wait_for_slot_1d(p)
         /\ ~ring_doorbell(p) /\ ~ring_doorbell_bulk(p) /\ ~store_header_bulk(p)
         /\ ~wait_completion(p) /\ ~wait_completion_1d(p)
    BY <1>1 DEF add_write_index, add_write_index_bulk, wait_for_slot_1d, ring_doorbell,
       ring_doorbell_bulk, store_header_bulk, wait_completion, wait_completion_1d
<1> QED BY <1>2, <1>3 DEF Next, ProducerStep, Finished

LEMMA GapStutter ==
    ASSUME GapInv, GapHere, UNCHANGED vars
    PROVE  GapInv'
<1> USE DEF GapInv
<1>1. UNCHANGED <<scenario, write_index, read_index, slots, rung, running, signal, completed,
                  at, i, left, pc, claimed, launched,
                     early, crossed>>
    BY DEF vars, queue, device, locals, lapses
<1>2. TypeOK'
    BY <1>1 DEF TypeOK, QueueSize, NumPackets, Packets
<1>3. GapHistory'
    BY <1>1 DEF GapHistory
<1>4. CASE GapClosed
    <2>1. GapClosed'
        BY <1>1, <1>4 DEF GapClosed, Region, NumPackets, RegionSize, QueueSize, Slot
    <2> QED BY <1>2, <1>3, <2>1
<1>5. CASE ~GapClosed
    <2>1. PICK B \in 0..NumPackets : GapOpen(B)
        BY <1>5
    <2>2. \A s \in Regions : Region(s)' = Region(s) /\ Sent(Region(s))' = Sent(Region(s))
        BY <1>1 DEF Region, Sent, Mode
    <2>3. \A k \in Nat : Ready(B, k)' <=> Ready(B, k)
        BY <1>1, <2>1, <2>2, ReadyKept
    <2>4. GapStage(B)'
        <3>1. \A s \in Regions :
                 /\ NotBegun(B, s)' = NotBegun(B, s) /\ Filling(B, s)' = Filling(B, s)
                 /\ \A l \in {"filled", "wait", "turn"} : Full(B, s, l)' = Full(B, s, l)
                 /\ Awaited(B, s)' = Awaited(B, s)
            BY <1>1 DEF NotBegun, Filling, Full, Awaited, Region, RegionSize
        <3> QED BY <2>1, <3>1 DEF GapOpen, GapStage, Regions
    <2>5. GapSlots(B)'
        <3>1. GapSlots(B) /\ read_index \in Nat /\ QueueSize' = QueueSize
            BY <1>1, <2>1 DEF GapOpen, TypeOK, QueueSize
        <3> QED BY <1>1, <2>3, <3>1, GapSizes DEF GapSlots, Slot
    <2>6. \A k \in First..read_index - 1 : Ready(B, k)'
        BY <2>1, <2>3, GapNumbers DEF GapOpen
    <2>7. \A s \in Regions :
             /\ at'[Region(s)] = Start(s) + (i'[Region(s)] - B)
             /\ pc'[Region(s)] = "header" =>
                   slots'[Slot(at'[Region(s)])].body = <<Region(s), i'[Region(s)]>>
        BY <1>1, <2>1 DEF GapOpen, GapRegion
    <2>8. GapHistory' /\ GapOpen(B)' /\ B \in 0..NumPackets'
        BY <1>1, <2>1, <2>4, <2>5, <2>6, <2>7, RoundKept
    <2> QED BY <1>2, <2>8
<1> QED BY <1>4, <1>5

LEMMA InitGap ==
    ASSUME Init, GapHere
    PROVE  GapInv
<1>1. scenario \in Scenarios
    BY DEF Init
<1>2. /\ scenario.producers \subseteq Producers
      /\ scenario.size \in Nat \ {0} /\ scenario.packets \in Nat \ {0}
    BY <1>1, ScenarioAssumption
<1>3. /\ QueueSize \in Nat \ {0} /\ NumPackets \in Nat \ {0} /\ Mode = "gap"
      /\ RegionSize \in Nat \ {0}
      /\ Region(1) \in Producers /\ Region(2) \in Producers /\ Region(3) \in Producers
      /\ Region(1) # Region(2) /\ Region(1) # Region(3)
      /\ scenario.producers = {Region(1), Region(2), Region(3)}
    BY <1>2 DEF GapHere, GapFits, Mode, QueueSize, NumPackets, RegionSize, Region
<1>4. /\ write_index = 0 /\ read_index = 0 /\ rung = -1
      /\ claimed = <<>> /\ launched = <<>>
      /\ \A p \in Producers :
            /\ i[p] = 0 /\ completed[p] = 0 /\ running[p] = 0
            /\ pc[p] = IF p \notin scenario.producers THEN "done"
                       ELSE IF Mode = "gap" /\ p # Region(1) THEN "turn" ELSE "reserve"
    BY DEF Init
<1>5. TypeOK
    <2>1. /\ scenario \in Scenarios
          /\ running \in [Producers -> Nat] /\ completed \in [Producers -> Nat]
          /\ signal \in [Producers -> Int] /\ at \in [Producers -> Nat]
          /\ i \in [Producers -> 0..NumPackets] /\ left \in [Producers -> 0..NumPackets]
        BY <1>3 DEF Init
    <2>2. pc \in [Producers -> {"reserve", "spin", "clear", "body", "header", "ring",
                                "wait", "chunk", "turn", "filled", "failed", "done"}]
        BY DEF Init
    <2>3. slots \in [0..QueueSize - 1 -> [header : Headers, body : Packets \cup {NoPacket}]]
        BY DEF Init, Empty, Headers
    <2>4. early \in SUBSET Producers /\ crossed \in BOOLEAN
        BY DEF Init
    <2> QED BY <1>4, <2>1, <2>2, <2>3, <2>4 DEF TypeOK
<1>6. GapHistory
    BY <1>4 DEF GapHistory
<1>7. \A k \in read_index..read_index + QueueSize - 1 : slots[Slot(k)].header = "INVALID"
    <2> SUFFICES ASSUME NEW k \in 0..QueueSize - 1 PROVE slots[Slot(k)].header = "INVALID"
        BY <1>3, <1>4
    <2>1. Slot(k) \in 0..QueueSize - 1
        BY <1>3, Remainder DEF Slot
    <2> QED BY <2>1 DEF Init, Empty
<1>8. \A r \in Regions : Region(r) \in Producers
    BY <1>3 DEF Regions
<1>9. /\ pc[Region(1)] = "reserve" /\ pc[Region(2)] = "turn" /\ pc[Region(3)] = "turn"
      /\ i[Region(1)] = 0 /\ 0 < NumPackets
    BY <1>3, <1>4
<1>10. i[Region(1)] % RegionSize = 0
    BY <1>3, <1>9, Quotient
<1> QED BY <1>4, <1>5, <1>6, <1>7, <1>8, <1>9, <1>10 DEF GapInv, GapClosed

LEMMA NextGap ==
    ASSUME GapInv, GapHere, [Next]_vars, early' = {}
    PROVE  GapInv'
    BY GapSteps, GapReserve, GapSpin, GapBody, GapHeader, GapRing, GapWait, GapComplete,
       GapLaunch, GapStutter

-----------------------------------------------------------------------------
(***************************************************************************)
(* The theorems, for any mixture of the two kinds of scenario.             *)
(***************************************************************************)
DispatchInv ==
    \/ FitsHere /\ (crossed \/ FitInv)
    \/ GapHere /\ (early # {} \/ (GapInv /\ ~crossed))

(* A run does not change its scenario. *)
LEMMA ScenarioKept ==
    ASSUME [Next]_vars
    PROVE  scenario' = scenario
<1>1. ASSUME NEW p \in Producers, ProducerStep(p) PROVE scenario' = scenario
    BY <1>1 DEF ProducerStep, add_write_index, add_write_index_bulk, wait_for_slot,
       wait_for_slot_1d, wait_for_chunk, clear_packet, copy_body, store_header,
       store_header_bulk, ring_doorbell, ring_doorbell_bulk, wait_completion,
       wait_completion_1d, reserve_regions, ring_doorbell_gap, wait_region
<1> QED
    BY <1>1 DEF Next, complete_kernel, launch_packet, Finished, vars

(* A lapse is not forgotten, and only wait_for_slot passes a full ring. *)
LEMMA LapsesGrow ==
    ASSUME [Next]_vars
    PROVE  /\ early \subseteq early' /\ (crossed => crossed')
           /\ crossed' = crossed \/ \E p \in Producers : wait_for_slot(p)
<1>1. ASSUME NEW p \in Producers, wait_for_slot(p) PROVE early' = early /\ (crossed => crossed')
    BY <1>1 DEF wait_for_slot
<1>2. ASSUME NEW p \in Producers, wait_completion(p) \/ wait_region(p)
      PROVE  early \subseteq early' /\ crossed' = crossed
    BY <1>2 DEF wait_completion, wait_region, NoteEarly
<1>3. ASSUME NEW p \in Producers,
             \/ add_write_index(p) \/ add_write_index_bulk(p) \/ wait_for_slot_1d(p)
             \/ wait_for_chunk(p) \/ clear_packet(p) \/ copy_body(p) \/ store_header(p)
             \/ store_header_bulk(p) \/ ring_doorbell(p) \/ ring_doorbell_bulk(p)
             \/ wait_completion_1d(p) \/ reserve_regions(p) \/ ring_doorbell_gap(p)
             \/ complete_kernel(p)
      PROVE  early' = early /\ crossed' = crossed
    BY <1>3 DEF add_write_index, add_write_index_bulk, wait_for_slot_1d, wait_for_chunk,
       clear_packet, copy_body, store_header, store_header_bulk, ring_doorbell,
       ring_doorbell_bulk, wait_completion_1d, reserve_regions, ring_doorbell_gap,
       complete_kernel, lapses
<1>4. launch_packet \/ UNCHANGED vars => early' = early /\ crossed' = crossed
    BY DEF launch_packet, vars, lapses
<1> QED
    BY <1>1, <1>2, <1>3, <1>4 DEF Next, ProducerStep, Finished

(* The inductive invariant, with the types: it holds until somebody passes *)
(* a full ring, in the gap test until a wait resumes early.                *)
THEOREM DispatchInvariant ==
    ASSUME AllFit
    PROVE  Spec => []DispatchInv
<1>1. Init => DispatchInv
    <2> SUFFICES ASSUME Init PROVE DispatchInv
        OBVIOUS
    <2>1. FitsHere \/ GapHere
        BY DEF Init, AllFit, FitsHere, GapHere
    <2>2. ~crossed
        BY DEF Init
    <2> QED
        BY <2>1, <2>2, InitFit, InitGap DEF DispatchInv
<1>2. DispatchInv /\ [Next]_vars => DispatchInv'
    <2> SUFFICES ASSUME DispatchInv, [Next]_vars PROVE DispatchInv'
        OBVIOUS
    <2>1. /\ FitsHere' = FitsHere /\ GapHere' = GapHere
          /\ early \subseteq early' /\ (crossed => crossed')
        BY ScenarioKept, LapsesGrow DEF FitsHere, GapHere
    <2>2. CASE FitsHere /\ (crossed \/ FitInv)
        BY <2>1, <2>2, NextFit DEF DispatchInv
    <2>3. CASE GapHere /\ early' = {} /\ GapInv /\ ~crossed
        <3>1. GapInv'
            BY <2>3, NextGap
        <3>2. ~crossed'
            BY <2>3, LapsesGrow, GapSpin
        <3> QED
            BY <2>1, <2>3, <3>1, <3>2 DEF DispatchInv
    <2>4. CASE GapHere /\ early' # {}
        BY <2>1, <2>4 DEF DispatchInv
    <2> QED
        BY <2>1, <2>2, <2>3, <2>4 DEF DispatchInv
<1> QED
    BY <1>1, <1>2, PTL DEF Spec

(* Which of the two invariants holds while nothing is spoiled. *)
LEMMA Unspoiled ==
    ASSUME DispatchInv, ~Spoiled
    PROVE  (FitsHere /\ FitInv) \/ (GapHere /\ GapInv)
<1>1. GapHere => Mode = "gap"
    BY DEF GapHere, GapFits, Mode
<1> QED
    BY <1>1 DEF DispatchInv, Spoiled

(* The processor launches, index by index, the packet each index was       *)
(* reserved for: enqueue_dispatch_packet, enqueue_dispatch_packet_at,      *)
(* enqueue_dispatch_packets and dispatch_kernel_1d_data lose, repeat or    *)
(* tear no packet, whatever the order in which they publish and ring and   *)
(* however early their waits resume, until somebody passes a full ring.    *)
THEOREM LaunchesReserved ==
    ASSUME AllFit
    PROVE  Spec => []LaunchesWhatWasReserved
<1>1. FitInv => LaunchesWhatWasReserved
    BY DEF FitInv, LaunchInv, OwnInv, LaunchesWhatWasReserved
<1>2. GapInv => LaunchesWhatWasReserved
    BY DEF GapInv, GapHistory, LaunchesWhatWasReserved
<1>3. DispatchInv => LaunchesWhatWasReserved
    BY <1>1, <1>2, Unspoiled DEF LaunchesWhatWasReserved
<1> QED
    BY <1>3, DispatchInvariant, PTL

(* The ring is full, to the caller that waits for a slot, only when the    *)
(* callers are more than its slots or one of them has gone on before its   *)
(* kernel had ended.  Nobody else meets the off-by-one of                  *)
(* queue_utils.c:67.                                                       *)
THEOREM RingFullOnlyWhenOverloaded ==
    ASSUME AllFit
    PROVE  Spec => []FullOnlyWhenOverloaded
<1>1. Init => FullOnlyWhenOverloaded
    BY DEF Init, FullOnlyWhenOverloaded
<1>2. DispatchInv /\ FullOnlyWhenOverloaded /\ [Next]_vars /\ DispatchInv'
        => FullOnlyWhenOverloaded'
    <2> SUFFICES ASSUME DispatchInv, FullOnlyWhenOverloaded, [Next]_vars, DispatchInv'
                 PROVE  FullOnlyWhenOverloaded'
        OBVIOUS
    <2>a. Overloaded' = Overloaded
        BY ScenarioKept DEF Overloaded, Mode, QueueSize, NumPackets, RegionSize
    <2> SUFFICES ASSUME crossed', ~Overloaded, early' = {} PROVE FALSE
        BY <2>a DEF FullOnlyWhenOverloaded
    <2>1. early = {} /\ ~crossed
        BY LapsesGrow DEF FullOnlyWhenOverloaded
    <2>2. ~GapHere
        <3>1. GapHere' = GapHere /\ FitsHere' = FitsHere
            BY ScenarioKept DEF GapHere, FitsHere
        <3>2. ~(FitsHere /\ GapHere)
            BY DEF FitsHere, Fits, GapHere, GapFits
        <3> QED
            BY <3>1, <3>2 DEF DispatchInv
    <2>3. FitsHere /\ FitInv
        BY <2>1, <2>2 DEF DispatchInv
    <2>4. PICK p \in Producers : wait_for_slot(p)
        BY <2>1, LapsesGrow
    <2> USE <2>3 DEF FitInv
    <2>5. pc[p] = "spin" /\ Mode # "one_d" /\ at[p] - read_index = QueueSize
        BY <2>1, <2>4 DEF wait_for_slot
    <2>6. Mode \in {"concurrent", "burst"}
        BY <2>5, Sizes DEF PlaceInv, BulkLabels
    <2>7. write_index <= read_index + QueueSize
        BY <2>1, <2>6, Room
    <2>8. Holds(p) /\ Claims(p) = i[p] + 1
        BY <2>5, <2>6 DEF Holds, Claims, Busy
    <2>9. at[p] \in Nat /\ i[p] \in Nat /\ QueueSize \in Nat
        BY Counters, Sizes
    <2>10. at[p] + 1 \in 1..write_index
        BY <2>8, <2>9, Current
    <2>11. read_index \in Nat /\ write_index \in Nat
        BY DEF TypeOK
    <2>12. at[p] + 1 <= read_index + QueueSize
        BY <2>7, <2>9, <2>10, <2>11
    <2> QED
        BY <2>5, <2>9, <2>11, <2>12
<1> QED
    BY <1>1, <1>2, DispatchInvariant, PTL DEF Spec

(* In the gap test a region that is not being filled or awaited has as     *)
(* many kernels ended as it has packets published.                         *)
LEMMA GapSettles ==
    ASSUME GapInv, GapHere, NEW p \in Producers, pc[p] \in {"reserve", "turn", "done"}
    PROVE  completed[p] = i[p]
<1> USE DEF GapInv
<1>1. CASE p \notin scenario.producers
    BY <1>1 DEF GapHistory
<1>2. CASE p \in scenario.producers
    <2>1. PICK r \in Regions : p = Region(r)
        BY <1>2, GapSizes DEF Regions
    <2>2. CASE GapClosed
        BY <2>1, <2>2 DEF GapClosed
    <2>3. ASSUME NEW B \in 0..NumPackets, GapOpen(B) PROVE completed[p] = i[p]
        <3>1. NotBegun(B, r) \/ Awaited(B, r)
            BY <2>1, <2>3 DEF GapOpen, GapStage, Filling, NotBegun, Full, Awaited, GapBusy, Regions
        <3>2. CASE Awaited(B, r)
            BY <2>1, <3>2 DEF Awaited, Full
        <3>3. CASE NotBegun(B, r)
            <4>1. r \in {2, 3}
                <5> SUFFICES ASSUME r = 1 PROVE FALSE
                    BY DEF Regions
                <5>1. RegionSize \in Nat \ {0} /\ B \in Nat
                    BY <2>3, GapSizes, GapNumbers
                <5>2. pc[Region(1)] = "turn" /\ i[Region(1)] = B /\ GapStage(B)
                    BY <2>3, <3>3 DEF NotBegun, GapOpen
                <5>3. i[Region(1)] = B + RegionSize
                    BY <5>2 DEF GapStage, Filling, Full, Awaited, GapBusy
                <5> QED BY <5>1, <5>2, <5>3
            <4>2. NotBegun(B, 2)
                <5>1. CASE r = 2
                    BY <3>3, <5>1
                <5>2. CASE r = 3
                    <6>1. pc[Region(3)] = "turn" /\ GapStage(B)
                        BY <2>3, <3>3, <5>2 DEF NotBegun, GapOpen
                    <6> QED BY <6>1 DEF GapStage, Filling, Full, GapBusy
                <5> QED BY <4>1, <5>1, <5>2
            <4>3. Gone(r) = 0
                BY <2>3, <4>1, <4>2, GapHolds
            <4>4. /\ completed[p] + running[p] = B + Gone(r) /\ completed[p] >= B
                  /\ completed[p] \in Nat /\ running[p] \in Nat /\ B \in Nat
                BY <2>1, <2>3, GapNumbers DEF GapOpen, GapRegion, Started
            <4> QED BY <2>1, <3>3, <4>3, <4>4 DEF NotBegun
        <3> QED BY <3>1, <3>2, <3>3
    <2> QED BY <2>2, <2>3
<1> QED BY <1>1, <1>2

(* A caller (thread_proc_dispatch, thread_proc_queue_multiple_dispatch,    *)
(* dispatch_kernel_1d_data, test_queue_multi_gap) none of whose own waits  *)
(* resumed early reuses its packet, arguments and signal only when all its *)
(* kernels have ended, however early the waits of the others resume; the   *)
(* repeated wait of dispatch_kernel_1d_data is never early.                *)
THEOREM ReuseIsSafe ==
    ASSUME AllFit
    PROVE  Spec => []ReusesAfterCompletion
<1>1. ASSUME FitsHere, FitInv PROVE ReusesAfterCompletion
    <2> USE <1>1 DEF FitInv
    <2> SUFFICES ASSUME NEW p \in Producers, p \notin early,
                        \/ pc[p] = "done" /\ Mode # "bulk"
                        \/ pc[p] = "turn"
                        \/ pc[p] = "reserve" /\ Mode # "burst"
                 PROVE  completed[p] = i[p]
        BY DEF ReusesAfterCompletion, Settled, Lapsed
    <2>1. Mode \in {"concurrent", "burst", "one_d", "bulk"}
        BY Sizes
    <2>2. pc[p] # "turn"
        BY DEF PlaceInv, BulkLabels, OtherLabels, Busy
    <2>3. CASE Mode = "bulk"
        <3>1. pc[p] = "reserve" /\ i[p] = 0
            BY <2>2, <2>3 DEF PlaceInv
        <3>2. completed[p] + running[p] <= 0
            BY <3>1 DEF LaunchInv, Started, Sent
        <3> QED
            BY <3>1, <3>2, Counters
    <2>4. CASE Mode # "bulk"
        BY <2>1, <2>2, <2>4 DEF SignalInv
    <2> QED
        BY <2>3, <2>4
<1>2. ASSUME GapHere, GapInv PROVE ReusesAfterCompletion
    BY <1>2, GapSettles DEF ReusesAfterCompletion, Settled
<1>3. DispatchInv => ReusesAfterCompletion
    BY <1>1, <1>2, Unspoiled DEF ReusesAfterCompletion, Lapsed
<1> QED
    BY <1>3, DispatchInvariant, PTL

(* enqueue_dispatch_packets and dispatch_kernel_1d_data never pass a full  *)
(* ring: their loops wait for a slot that is free (queue_utils.c:109,      *)
(* dispatch_utils.c:67).                                                   *)
LEMMA NoLapseElsewhere ==
    ASSUME AllFit
    PROVE  Spec => [](Mode \in {"bulk", "one_d"} => ~crossed)
<1> DEFINE Dry == Mode \in {"bulk", "one_d"} => ~crossed
<1>1. Init => Dry
    BY DEF Init
<1>2. DispatchInv /\ Dry /\ [Next]_vars => Dry'
    <2> SUFFICES ASSUME DispatchInv, Dry, [Next]_vars PROVE Dry'
        OBVIOUS
    <2>a. Mode' = Mode
        BY ScenarioKept DEF Mode
    <2> SUFFICES ASSUME Mode \in {"bulk", "one_d"}, crossed' PROVE FALSE
        BY <2>a
    <2>1. ~crossed
        OBVIOUS
    <2>2. FitsHere /\ FitInv
        BY <2>1 DEF DispatchInv, GapHere, GapFits, Mode
    <2>3. PICK p \in Producers : wait_for_slot(p)
        BY <2>1, LapsesGrow
    <2>4. pc[p] = "spin" /\ Mode = "bulk"
        BY <2>3 DEF wait_for_slot
    <2> QED
        BY <2>2, <2>4 DEF FitInv, PlaceInv, BulkLabels
<1> QED
    BY <1>1, <1>2, DispatchInvariant, PTL DEF Spec

(* A packet that the processor has not read yet is overwritten only after  *)
(* somebody was let past a ring that was exactly full, which is what the   *)
(* loop of queue_utils.c:67 does, or, in the gap test, after a wait has    *)
(* resumed early; enqueue_dispatch_packets and dispatch_kernel_1d_data     *)
(* never overwrite one.                                                    *)
THEOREM FullRingOverwrites ==
    ASSUME AllFit
    PROVE  Spec => OverwritesOnlyWhenFull
<1> DEFINE A == \A p \in Producers : WritesOver(p) => Spoiled /\ Mode \notin {"bulk", "one_d"}
           Dry == Mode \in {"bulk", "one_d"} => ~crossed
<1>1. ASSUME FitsHere, FitInv, NEW p \in Producers PROVE ~WritesOver(p)
    <2> USE <1>1 DEF FitInv
    <2> SUFFICES ASSUME pc[p] = (IF Mode = "one_d" THEN "clear" ELSE "body")
                 PROVE  slots[Slot(at[p])].header = "INVALID"
        BY DEF WritesOver
    <2>1. Writes(p)
        BY DEF Writes
    <2>2. i[p] < Claims(p)
        BY <2>1, HasCurrent
    <2>3. PICK c \in Nat : c = at[p] + 1
        BY <2>1, <2>2, CurrentSlot
    <2>4. /\ c \in (read_index + 1)..(read_index + QueueSize) /\ c \in 1..write_index
          /\ Owner(c) = p /\ Number(c) = i[p] /\ Sent(p) = i[p] /\ i[p] \in Nat /\ c - 1 = at[p]
        BY <2>1, <2>2, <2>3, CurrentSlot
    <2>5. Untouched(c, p)
        BY <2>4 DEF Untouched
    <2>6. c <= write_index
        BY <2>4 DEF TypeOK
    <2>7. slots[Slot(c - 1)].header = "INVALID"
        BY <2>4, <2>5, <2>6 DEF SlotInv
    <2> QED
        BY <2>4, <2>7
<1>2. ASSUME GapHere, GapInv, NEW p \in Producers PROVE ~WritesOver(p)
    <2>1. Mode = "gap"
        BY <1>2, GapSizes DEF GapInv
    <2> SUFFICES ASSUME pc[p] = "body" PROVE slots[Slot(at[p])].header = "INVALID"
        BY <2>1 DEF WritesOver
    <2>2. PICK r \in Regions, B \in 0..NumPackets : p = Region(r) /\ GapOpen(B)
        BY <1>2, GapWorker DEF GapBusy
    <2>3. Filling(B, r)
        BY <1>2, <2>2, GapFilled DEF GapInv, GapBusy
    <2> QED
        BY <1>2, <2>2, <2>3, GapCurrent DEF GapInv
<1>3. DispatchInv /\ Dry => [A]_vars
    <2> SUFFICES ASSUME DispatchInv, Dry, NEW p \in Producers, WritesOver(p)
                 PROVE  Spoiled /\ Mode \notin {"bulk", "one_d"}
        OBVIOUS
    <2>1. Spoiled
        BY <1>1, <1>2, Unspoiled
    <2>2. Mode \notin {"bulk", "one_d"}
        BY <2>1 DEF Spoiled
    <2> QED
        BY <2>1, <2>2
<1> QED
    BY <1>3, DispatchInvariant, NoLapseElsewhere, PTL DEF OverwritesOnlyWhenFull

(* The assertions of test_queue_multi_gap.c:299 hold, unless a wait has    *)
(* resumed early: when the first region's kernels have ended the signals   *)
(* of the other two have their initial values, although the third region   *)
(* is filled and the doorbell was rung for it; the processor stops at the  *)
(* gap.                                                                    *)
THEOREM GapAssertionsHold ==
    ASSUME AllFit
    PROVE  Spec => [](Mode = "gap" /\ early = {} => \A p \in Producers : pc[p] # "failed")
<1>1. ASSUME DispatchInv, Mode = "gap", early = {}, NEW p \in Producers PROVE pc[p] # "failed"
    <2>1. GapHere /\ GapInv
        BY <1>1 DEF DispatchInv, FitsHere, Fits, Mode
    <2> QED
        BY <2>1, GapPlaces DEF GapBusy
<1>2. DispatchInv => (Mode = "gap" /\ early = {} => \A p \in Producers : pc[p] # "failed")
    BY <1>1
<1> QED
    BY <1>2, DispatchInvariant, PTL
=============================================================================
