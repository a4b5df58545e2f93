-------------------------- MODULE WriteIndexProofs --------------------------
(***************************************************************************)
(* The write-index ordering tests for any number of queues and any         *)
(* termination value: the turns exclude each other and the compare-and-    *)
(* swap tests do not fail on a conforming runtime, except with exactly one *)
(* queue, and a test that ends has counted every index up to               *)
(* termination_value - 1.                                                  *)
(*                                                                         *)
(* With two queues or more the argument is about whose turn it is: the     *)
(* thread whose next value is the smaller one.                             *)
(***************************************************************************)
EXTENDS WriteIndexOrdering, TLAPS

-----------------------------------------------------------------------------
(* What the operations of RelAcq do to the messages and to the views, for  *)
(* any set of threads, locations and values.                               *)

Views(Locs) == [Locs -> Nat \ {0}]
Messages(Locs, Vals) == [val : Vals, rel : Views(Locs)]

(* A memory in which every location was created. *)
Memories(Thr, Locs, Vals) ==
    {m \in [hist : [Locs -> Seq(Messages(Locs, Vals))], view : [Thr -> Views(Locs)]] :
        \A l \in Locs : Newest(m, l) >= 1}

(* The parts of a memory. *)
LEMMA MemoryIs ==
    ASSUME NEW Thr, NEW Locs, NEW Vals, NEW m
    PROVE  m \in Memories(Thr, Locs, Vals) <=>
             /\ m = [hist |-> m.hist, view |-> m.view]
             /\ m.hist \in [Locs -> Seq(Messages(Locs, Vals))]
             /\ m.view \in [Thr -> Views(Locs)]
             /\ \A l \in Locs : Newest(m, l) >= 1
<1> DEFINE H == [Locs -> Seq(Messages(Locs, Vals))]
           V == [Thr -> Views(Locs)]
<1> HIDE DEF H, V
<1>1. m \in [hist : H, view : V] <=>
         /\ m = [hist |-> m.hist, view |-> m.view] /\ m.hist \in H /\ m.view \in V
  OBVIOUS
<1> QED
  BY <1>1 DEF Memories, H, V

(* Every message of a location is one. *)
LEMMA MessageIs ==
    ASSUME NEW Thr, NEW Locs, NEW Vals, NEW m \in Memories(Thr, Locs, Vals),
           NEW l \in Locs, NEW k \in 1..Newest(m, l)
    PROVE  /\ Newest(m, l) \in Nat \ {0}
           /\ m.hist[l][k].val \in Vals /\ m.hist[l][k].rel \in Views(Locs)
<1>1. m.hist[l] \in Seq(Messages(Locs, Vals)) /\ Newest(m, l) >= 1
  BY MemoryIs
<1>2. m.hist[l][k] \in Messages(Locs, Vals) /\ Newest(m, l) \in Nat
  BY <1>1 DEF Newest
<1> QED
  BY <1>1, <1>2 DEF Messages

(* Views and the positions in them are numbers. *)
LEMMA MemoryTypes ==
    ASSUME NEW Thr, NEW Locs, NEW Vals, NEW m \in Memories(Thr, Locs, Vals),
           NEW t \in Thr, NEW l \in Locs, NEW k \in Locs
    PROVE  /\ m.view[t][l] \in Nat /\ Newest(m, l) \in Nat \ {0}
           /\ Latest(m, l) \in Vals /\ m.hist[k][Newest(m, k)].rel[l] \in Nat
<1>1. /\ Newest(m, l) \in Nat \ {0} /\ Newest(m, k) \in Nat \ {0}
      /\ m.view[t] \in Views(Locs)
  BY MemoryIs DEF Newest
<1>2. m.hist[l][Newest(m, l)].val \in Vals /\ m.hist[k][Newest(m, k)].rel \in Views(Locs)
  BY <1>1, MessageIs
<1> QED
  BY <1>1, <1>2 DEF Views, Latest

(* Joining two views gives a view that has seen what either has. *)
LEMMA JoinUpper ==
    ASSUME NEW Locs, NEW a \in Views(Locs), NEW b \in Views(Locs)
    PROVE  /\ Join(a, b) \in Views(Locs)
           /\ \A l \in Locs : Join(a, b)[l] >= a[l] /\ Join(a, b)[l] >= b[l]
BY DEF Join, Views

(* All threads start with the newest message of every location. *)
LEMMA InitMemIs ==
    ASSUME NEW Thr, NEW Locs, NEW Vals, NEW init \in [Locs -> Vals]
    PROVE  /\ InitMem(Thr, init) \in Memories(Thr, Locs, Vals)
           /\ \A l \in Locs : /\ Newest(InitMem(Thr, init), l) = 1
                              /\ Latest(InitMem(Thr, init), l) = init[l]
                              /\ InitMem(Thr, init).hist[l][1].rel = [k \in Locs |-> 1]
<1> SUFFICES ASSUME NEW m, m = InitMem(Thr, init)
             PROVE  /\ m \in Memories(Thr, Locs, Vals)
                    /\ \A l \in Locs : /\ Newest(m, l) = 1 /\ Latest(m, l) = init[l]
                                       /\ m.hist[l][1].rel = [k \in Locs |-> 1]
  OBVIOUS
<1> DEFINE one == [k \in Locs |-> 1]
           msg(l) == [val |-> init[l], rel |-> one]
<1>1. one \in Views(Locs)
  BY DEF Views
<1>2. m = [hist |-> [l \in Locs |-> <<msg(l)>>], view |-> [t \in Thr |-> one]]
  BY DEF InitMem
<1> HIDE DEF one
<1>3. ASSUME NEW l \in Locs
      PROVE  /\ m.hist[l] \in Seq(Messages(Locs, Vals)) /\ Len(m.hist[l]) = 1
             /\ m.hist[l][1].val = init[l] /\ m.hist[l][1].rel = one
  <2>1. msg(l) \in Messages(Locs, Vals) /\ msg(l).val = init[l] /\ msg(l).rel = one
    BY <1>1 DEF Messages
  <2>2. m.hist[l] = <<msg(l)>>
    BY <1>2
  <2> HIDE DEF msg
  <2> QED BY <2>1, <2>2
<1>4. m.view = [t \in Thr |-> one] /\ m.hist = [l \in Locs |-> <<msg(l)>>]
      /\ m = [hist |-> m.hist, view |-> m.view]
  BY <1>2
<1>5. m.view \in [Thr -> Views(Locs)] /\ m.hist \in [Locs -> Seq(Messages(Locs, Vals))]
  BY <1>1, <1>3, <1>4
<1>6. \A l \in Locs : Newest(m, l) = 1 /\ Latest(m, l) = init[l]
  BY <1>3 DEF Newest, Latest
<1>7. m \in Memories(Thr, Locs, Vals)
  <2>1. \A l \in Locs : Newest(m, l) >= 1
    BY <1>6
  <2> QED BY <1>4, <1>5, <2>1, MemoryIs
<1> QED
  BY <1>3, <1>6, <1>7 DEF one

(* A read leaves the messages and the other threads' views alone, and its  *)
(* own view a view.                                                        *)
LEMMA ReadIs ==
    ASSUME NEW Thr, NEW Locs, NEW Vals, NEW m \in Memories(Thr, Locs, Vals),
           NEW t \in Thr, NEW l \in Locs, NEW k \in 1..Newest(m, l), NEW o,
           NEW r, r = Read(m, t, l, k, o)
    PROVE  /\ r \in Memories(Thr, Locs, Vals) /\ r.hist = m.hist
           /\ \A n \in Locs : Newest(r, n) = Newest(m, n) /\ Latest(r, n) = Latest(m, n)
           /\ \A s \in Thr \ {t} : r.view[s] = m.view[s]
<1> DEFINE moved == [m.view[t] EXCEPT ![l] = k]
<1>1. /\ m.hist \in [Locs -> Seq(Messages(Locs, Vals))] /\ m.view \in [Thr -> Views(Locs)]
      /\ \A n \in Locs : Newest(m, n) >= 1
      /\ m = [hist |-> m.hist, view |-> m.view]
  BY MemoryIs
<1>2. m.hist[l][k].rel \in Views(Locs)
  BY MessageIs
<1>3. moved \in Views(Locs)
  BY <1>1 DEF Newest, Views
<1>4. ViewAfter(m, t, l, k, o) \in Views(Locs)
  BY <1>2, <1>3, JoinUpper DEF ViewAfter
<1>5. r = [hist |-> m.hist, view |-> [m.view EXCEPT ![t] = ViewAfter(m, t, l, k, o)]]
  BY <1>1 DEF Read
<1>6. r.hist = m.hist /\ r.view = [m.view EXCEPT ![t] = ViewAfter(m, t, l, k, o)]
  BY <1>5
<1>7. r.view \in [Thr -> Views(Locs)]
  BY <1>1, <1>4, <1>6
<1>8. \A n \in Locs : Newest(r, n) = Newest(m, n) /\ Latest(r, n) = Latest(m, n)
  BY <1>6 DEF Newest, Latest
<1>9. r \in Memories(Thr, Locs, Vals)
  <2>1. \A n \in Locs : Newest(r, n) >= 1
    BY <1>1, <1>8
  <2> QED BY <1>1, <1>5, <1>6, <1>7, <2>1, MemoryIs
<1> QED
  BY <1>1, <1>6, <1>8, <1>9

(* A read-modify-write replaces the newest message and has then seen it.   *)
(* It forgets nothing of what its thread has seen; if it acquires, it has  *)
(* seen what the replaced message published, and if it releases, its own   *)
(* message publishes what its thread has seen.                             *)
LEMMA RmwIs ==
    ASSUME NEW Thr, NEW Locs, NEW Vals, NEW m \in Memories(Thr, Locs, Vals),
           NEW t \in Thr, NEW l \in Locs, NEW val \in Vals, NEW o,
           NEW r, r = Rmw(m, t, l, val, o)
    PROVE  /\ r \in Memories(Thr, Locs, Vals)
           /\ Newest(r, l) = Newest(m, l) + 1 /\ Latest(r, l) = val
           /\ \A k \in Locs \ {l} : /\ r.hist[k] = m.hist[k]
                                   /\ Newest(r, k) = Newest(m, k)
                                   /\ Latest(r, k) = Latest(m, k)
           /\ \A s \in Thr \ {t} : r.view[s] = m.view[s]
           /\ r.view[t][l] = Newest(r, l)
           /\ \A k \in Locs \ {l} : r.view[t][k] >= m.view[t][k]
           /\ Acquires(o) => \A k \in Locs \ {l} :
                                r.view[t][k] >= m.hist[l][Newest(m, l)].rel[k]
           /\ Releases(o) => \A k \in Locs :
                                r.hist[l][Newest(r, l)].rel[k] >= r.view[t][k]
<1> DEFINE n == Newest(m, l)
           rel == m.hist[l][n].rel
           moved == [m.view[t] EXCEPT ![l] = n]
           seen == ViewAfter(m, t, l, n, o)
           own == [seen EXCEPT ![l] = n + 1]
           old == [rel EXCEPT ![l] = n + 1]
           msg == [val |-> val, rel |-> IF Releases(o) THEN Join(own, old) ELSE old]
<1>1. /\ m.hist \in [Locs -> Seq(Messages(Locs, Vals))] /\ m.view \in [Thr -> Views(Locs)]
      /\ \A k \in Locs : Newest(m, k) >= 1
      /\ m = [hist |-> m.hist, view |-> m.view]
  BY MemoryIs
<1>2. n \in Nat \ {0}
  BY <1>1 DEF Newest
<1>3. rel \in Views(Locs)
  BY <1>2, MessageIs
<1>4. moved \in Views(Locs) /\ \A k \in Locs \ {l} : moved[k] = m.view[t][k]
  BY <1>1, <1>2 DEF Views
<1>5. /\ seen \in Views(Locs)
      /\ \A k \in Locs \ {l} : seen[k] >= m.view[t][k]
      /\ Acquires(o) => \A k \in Locs \ {l} : seen[k] >= rel[k]
  <2>1. CASE Acquires(o)
    <3>1. seen = Join(moved, rel)
      BY <2>1 DEF ViewAfter
    <3> HIDE DEF moved, rel, seen
    <3> QED BY <1>3, <1>4, <3>1, JoinUpper
  <2>2. CASE ~Acquires(o)
    <3>1. seen = moved
      BY <2>2 DEF ViewAfter
    <3> HIDE DEF moved, rel, seen
    <3>2. \A k \in Locs : moved[k] \in Nat
      BY <1>4 DEF Views
    <3> QED BY <1>4, <2>2, <3>1, <3>2
  <2> QED BY <2>1, <2>2
<1>6. r = [m EXCEPT !.view[t] = own, !.hist[l] = Append(@, msg)]
  BY DEF Rmw, Append1
<1> HIDE DEF seen, rel
<1>7. /\ own \in Views(Locs) /\ old \in Views(Locs)
      /\ own[l] = n + 1 /\ \A k \in Locs \ {l} : own[k] = seen[k]
  BY <1>2, <1>3, <1>5 DEF Views
<1> HIDE DEF own, old
<1>8. /\ msg \in Messages(Locs, Vals) /\ msg.val = val
      /\ Releases(o) => \A k \in Locs : msg.rel[k] >= own[k]
  <2>1. msg.val = val /\ msg.rel = IF Releases(o) THEN Join(own, old) ELSE old
    OBVIOUS
  <2>2. /\ msg.rel \in Views(Locs)
        /\ Releases(o) => \A k \in Locs : msg.rel[k] >= own[k]
    BY <1>7, <2>1, JoinUpper
  <2> QED BY <2>1, <2>2 DEF Messages
<1> HIDE DEF msg
<1>9. /\ r.hist = [m.hist EXCEPT ![l] = Append(m.hist[l], msg)]
      /\ r.view = [m.view EXCEPT ![t] = own]
      /\ r = [hist |-> r.hist, view |-> r.view]
  BY <1>1, <1>6
<1>10. /\ r.hist \in [Locs -> Seq(Messages(Locs, Vals))]
       /\ Len(r.hist[l]) = n + 1 /\ r.hist[l][n + 1] = msg
       /\ \A k \in Locs \ {l} : r.hist[k] = m.hist[k]
  <2>1. /\ Append(m.hist[l], msg) \in Seq(Messages(Locs, Vals))
        /\ Len(Append(m.hist[l], msg)) = n + 1
        /\ Append(m.hist[l], msg)[n + 1] = msg
    BY <1>1, <1>8 DEF Newest
  <2> QED BY <1>1, <1>9, <2>1
<1>11. r.view \in [Thr -> Views(Locs)] /\ r.view[t] = own
       /\ \A s \in Thr \ {t} : r.view[s] = m.view[s]
  BY <1>1, <1>7, <1>9
<1>12. Newest(r, l) = n + 1 /\ Latest(r, l) = val
  BY <1>8, <1>10 DEF Newest, Latest
<1>13. r \in Memories(Thr, Locs, Vals)
  <2>1. \A k \in Locs : Newest(r, k) >= 1
    <3>1. \A k \in Locs \ {l} : Newest(r, k) = Newest(m, k)
      BY <1>10 DEF Newest
    <3> QED BY <1>1, <1>2, <1>12, <3>1
  <2> QED BY <1>9, <1>10, <1>11, <2>1, MemoryIs
<1>14. r.view[t][l] = Newest(r, l)
  BY <1>7, <1>11, <1>12
<1>15. \A k \in Locs \ {l} : r.view[t][k] >= m.view[t][k]
  BY <1>5, <1>7, <1>11
<1>16. Acquires(o) => \A k \in Locs \ {l} : r.view[t][k] >= rel[k]
  BY <1>5, <1>7, <1>11
<1>17. Releases(o) => \A k \in Locs : r.hist[l][Newest(r, l)].rel[k] >= r.view[t][k]
  BY <1>8, <1>10, <1>11, <1>12
<1>18. \A k \in Locs \ {l} : Newest(r, k) = Newest(m, k) /\ Latest(r, k) = Latest(m, k)
  BY <1>10 DEF Newest, Latest
<1> QED
  BY <1>10, <1>11, <1>12, <1>13, <1>14, <1>15, <1>16, <1>17, <1>18 DEF rel

(* A compare-and-swap that returns the expected value has replaced the     *)
(* newest message, which held it; any other one is a read of a message its *)
(* thread has not seen a newer one than.                                   *)
LEMMA CasIs ==
    ASSUME NEW Thr, NEW Locs, NEW Vals, NEW m \in Memories(Thr, Locs, Vals),
           NEW t \in Thr, NEW l \in Locs, NEW old, NEW val, NEW o,
           NEW out \in CasOutcomes(m, t, l, old, val, o)
    PROVE  \/ out.ret = old /\ Latest(m, l) = old /\ out.mem = Rmw(m, t, l, val, o)
           \/ /\ out.ret # old
              /\ \E k \in 1..Newest(m, l) : /\ k >= m.view[t][l]
                                            /\ out.ret = m.hist[l][k].val
                                            /\ out.mem = Read(m, t, l, k, o)
<1>1. m.view[t][l] \in Nat \ {0} /\ Newest(m, l) \in Nat
  BY MemoryIs DEF Views, Newest
<1>2. CASE Latest(m, l) = old /\ out = [mem |-> Rmw(m, t, l, val, o), ret |-> old]
  BY <1>2
<1>3. CASE \E k \in Readable(m, t, l) :
               /\ m.hist[l][k].val # old
               /\ out = [mem |-> Read(m, t, l, k, o), ret |-> m.hist[l][k].val]
  BY <1>1, <1>3 DEF Readable
<1> QED
  BY <1>2, <1>3 DEF CasOutcomes

(* A load reads a message its thread has not seen a newer one than. *)
LEMMA LoadIs ==
    ASSUME NEW Thr, NEW Locs, NEW Vals, NEW m \in Memories(Thr, Locs, Vals),
           NEW t \in Thr, NEW l \in Locs, NEW o, NEW out \in LoadOutcomes(m, t, l, o)
    PROVE  \E k \in 1..Newest(m, l) : /\ k >= m.view[t][l]
                                      /\ out.ret = m.hist[l][k].val
                                      /\ out.mem = Read(m, t, l, k, o)
<1>1. m.view[t][l] \in Nat \ {0} /\ Newest(m, l) \in Nat
  BY MemoryIs DEF Views, Newest
<1> QED
  BY <1>1 DEF LoadOutcomes, Readable

-----------------------------------------------------------------------------
(* The turns of the two threads. *)

Other(t) == IF t = "even" THEN "odd" ELSE "even"

(* The queues a busy thread has counted up in its turn. *)
Counted(t, q) == IF t = "even" THEN q < jj[t] ELSE q > jj[t]

(* How far a busy thread has got. *)
ProgressInv(t) ==
    /\ jj[t] \in Queues
    /\ jj[t] # Entry(t)
    /\ pc[t] \in {"middle", "add"} => InMiddle(jj[t])
    /\ pc[t] \in {"barrier_out", "give"} => jj[t] = Exit(t)
    /\ pc[t] \in {"barrier_in", "barrier_out", "add"} => Adds

(* It is t's turn: the other thread waits for a later value, and the       *)
(* queues t has not counted yet hold the value before.                     *)
TurnInv(t) ==
    /\ ii[Other(t)] = ii[t] + 1 /\ ii[t] <= TerminationValue
    /\ \A s \in Threads : pc[s] = "done" <=> ii[s] >= TerminationValue
    /\ pc[Other(t)] \in {"take", "done"}
    /\ pc[t] # "none"
    /\ Busy(t) => ProgressInv(t)
    /\ \A q \in Queues :
          Latest(mem, q) = IF Busy(t) /\ Counted(t, q) THEN ii[t] ELSE ii[t] - 1

(* What t knows in its turn.  In the compare-and-swap tests the newest     *)
(* message of its entry publishes, and a busy thread has seen, the newest  *)
(* message of every queue; in the add tests the thread has seen that of    *)
(* the queue it leaves by.                                                 *)
SyncInv(t) ==
    /\ ~Adds /\ pc[t] = "take" =>
         \A q \in Queues :
            mem.hist[Entry(t)][Newest(mem, Entry(t))].rel[q] >= Newest(mem, q)
    /\ ~Adds /\ Busy(t) => \A q \in Queues : mem.view[t][q] >= Newest(mem, q)
    /\ pc[t] = "give" => mem.view[t][Exit(t)] >= Newest(mem, Exit(t))

(* With a single queue each thread gets in at most once, and the ASSERT of *)
(* the first one to hand the turn over fails.                              *)
SingleInv ==
    /\ \A t \in Threads : jj[t] \in Int /\ pc[t] \notin {"none", "middle", "add"}
    /\ outcome = "running" =>
         /\ \A t \in Threads : ii[t] = FirstValue(t)
         /\ pc["odd"] # "done" /\ (pc["even"] = "done" <=> TerminationValue = 2)
         /\ pc["odd"] = "take" => ~Busy("even")
         /\ Latest(mem, 0) = IF pc["odd"] = "take" THEN 0
                              ELSE IF Busy("even") THEN 2 ELSE 1
    /\ outcome = "assert_failed" /\ (\A t \in Threads : pc[t] = "done") =>
         Latest(mem, 0) = TerminationValue - 1

(* With more, it is somebody's turn, unless a load of the add tests has    *)
(* failed its ASSERT.                                                      *)
ManyInv ==
    /\ outcome = "running" => \E t \in Threads : TurnInv(t) /\ SyncInv(t)
    /\ outcome = "assert_failed" =>
         Adds /\ \E t \in Threads : pc[t] = "add" /\ ~Busy(Other(t))

(* The types, what holds before the threads start and after they ended,    *)
(* and without a queue.                                                    *)
TypeInv ==
    /\ variant \in Variants /\ num_queues \in Nat
    /\ main \in {"create", "wait", "end"}
    /\ outcome \in {"running", "assert_failed", "bad_index"}
    /\ pc \in [Threads -> {"none", "take", "barrier_in", "middle", "add",
                           "barrier_out", "give", "done"}]
    /\ ii \in [Threads -> Nat] /\ jj \in [Threads -> Int]
    /\ main = "create" => /\ outcome = "running"
                          /\ \A t \in Threads : pc[t] = "none" /\ ii[t] = FirstValue(t)
    /\ main = "end" => \A t \in Threads : pc[t] = "done"
    /\ main # "create" /\ num_queues = 0 => outcome = "bad_index" /\ pc["odd"] = "take"
    /\ main # "create" /\ num_queues > 0 =>
         outcome # "bad_index" /\ mem \in Memories(Threads, Queues, Int)

(* The inductive invariant. *)
IInv ==
    /\ TypeInv
    /\ main # "create" /\ num_queues = 1 => SingleInv
    /\ main # "create" /\ num_queues >= 2 => ManyInv

(* The two ends: a thread leaves by the queue the other one enters by. *)
LEMMA Ends ==
    ASSUME num_queues \in Nat, num_queues >= 1, NEW t \in Threads
    PROVE  /\ Other(t) \in Threads /\ Other(t) # t /\ Other(Other(t)) = t
           /\ \A s \in Threads : s = t \/ s = Other(t)
           /\ Entry(t) \in Queues /\ Exit(t) \in Queues /\ Entry(Other(t)) = Exit(t)
           /\ num_queues >= 2 => Entry(t) # Exit(t)
BY DEF Threads, Other, Entry, Exit, Queues

(* Where a thread that goes on to queue q ends up. *)
LEMMA Middles ==
    ASSUME num_queues \in Nat, num_queues >= 2, NEW t \in Threads
    PROVE  /\ FirstMiddle(t) \in Queues \ {Entry(t)}
           /\ InMiddle(FirstMiddle(t)) \/ FirstMiddle(t) = Exit(t)
           /\ InMiddle(jj[t]) /\ jj[t] \in Int =>
                /\ jj[t] \in Queues /\ NextMiddle(t) \in Queues \ {Entry(t)}
                /\ InMiddle(NextMiddle(t)) \/ NextMiddle(t) = Exit(t)
BY DEF Threads, FirstMiddle, NextMiddle, InMiddle, Queues, Entry, Exit

(* A thread can only act after the start and before the end of the test,   *)
(* with at least one queue.                                                *)
LEMMA Acting ==
    ASSUME TypeInv, NEW t \in Threads, spin(t) \/ Progress(t)
    PROVE  /\ main = "wait" /\ outcome = "running" /\ num_queues \in Nat /\ num_queues >= 1
           /\ mem \in Memories(Threads, Queues, Int)
           /\ UNCHANGED <<variant, num_queues, main>>
BY DEF TypeInv, spin, Progress, take, barrier_in, barrier_out, cas_middle, load_middle,
       add_middle, give, GiveTo, At

(***************************************************************************)
(* What the threads' steps do to the memory.                               *)
(***************************************************************************)
(* A spin only reads. *)
LEMMA SpinIs ==
    ASSUME TypeInv, NEW t \in Threads, spin(t)
    PROVE  /\ pc[t] = "take" /\ UNCHANGED <<pc, ii, jj, outcome>>
           /\ mem' \in Memories(Threads, Queues, Int) /\ mem'.hist = mem.hist
           /\ \A q \in Queues : /\ Newest(mem', q) = Newest(mem, q)
                                 /\ Latest(mem', q) = Latest(mem, q)
           /\ \A s \in Threads \ {t} : mem'.view[s] = mem.view[s]
<1>1. mem \in Memories(Threads, Queues, Int) /\ Entry(t) \in Queues
  BY Acting, Ends
<1>2. PICK out \in EntryOutcomes(t) : out.ret # old_v(t) /\ mem' = out.mem
  BY DEF spin
<1>3. PICK k \in 1..Newest(mem, Entry(t)) :
            mem' = Read(mem, t, Entry(t), k, EntryOrder)
  BY <1>1, <1>2, CasIs DEF EntryOutcomes
<1> QED
  BY <1>1, <1>3, ReadIs DEF spin, At

(* A thread that takes its turn has counted its entry up. *)
LEMMA TakeIs ==
    ASSUME TypeInv, NEW t \in Threads, take(t)
    PROVE  /\ pc[t] = "take" /\ Latest(mem, Entry(t)) = ii[t] - 1
           /\ mem' = Rmw(mem, t, Entry(t), ii[t], EntryOrder)
           /\ jj' = [jj EXCEPT ![t] = FirstMiddle(t)] /\ UNCHANGED <<ii, outcome>>
           /\ pc' = [pc EXCEPT ![t] = IF Adds THEN "barrier_in"
                                       ELSE IF InMiddle(FirstMiddle(t)) THEN "middle" ELSE "give"]
<1>1. mem \in Memories(Threads, Queues, Int) /\ Entry(t) \in Queues
  BY Acting, Ends DEF Progress
<1>2. PICK out \in EntryOutcomes(t) : out.ret = old_v(t) /\ mem' = out.mem
  BY DEF take
<1>3. Latest(mem, Entry(t)) = old_v(t) /\ mem' = Rmw(mem, t, Entry(t), v(t), EntryOrder)
  BY <1>1, <1>2, CasIs DEF EntryOutcomes
<1>4. pc' = [pc EXCEPT ![t] = IF Adds THEN "barrier_in"
                              ELSE IF InMiddle(FirstMiddle(t)) THEN "middle" ELSE "give"]
  BY DEF take, EnterQueue, Goto, AfterMiddle
<1> QED
  BY <1>3, <1>4 DEF take, At, v, old_v

(* Handing the turn over counts the exit up, or fails the ASSERT. *)
LEMMA GiveIs ==
    ASSUME TypeInv, NEW t \in Threads, give(t)
    PROVE  /\ pc[t] = "give"
           /\ ii' = [ii EXCEPT ![t] = ii[t] + 2] /\ UNCHANGED jj
           /\ pc' = [pc EXCEPT ![t] = IF ii[t] + 2 < TerminationValue THEN "take" ELSE "done"]
           /\ \/ /\ Latest(mem, Exit(t)) = ii[t] - 1
                 /\ mem' = Rmw(mem, t, Exit(t), ii[t], ExitOrder)
                 /\ outcome' = outcome
              \/ /\ outcome' = "assert_failed"
                 /\ \E k \in 1..Newest(mem, Exit(t)) :
                       /\ k >= mem.view[t][Exit(t)]
                       /\ mem.hist[Exit(t)][k].val # ii[t] - 1
                       /\ mem' = Read(mem, t, Exit(t), k, ExitOrder)
<1>1. mem \in Memories(Threads, Queues, Int) /\ Exit(t) \in Queues
  BY Acting, Ends DEF Progress
<1>2. PICK out \in CasOutcomes(mem, t, Exit(t), old_v(t), v(t), ExitOrder) :
            mem' = out.mem /\ Assert(out.ret = old_v(t))
  BY DEF give, GiveTo
<1>3. \/ /\ out.ret = old_v(t) /\ Latest(mem, Exit(t)) = old_v(t)
         /\ out.mem = Rmw(mem, t, Exit(t), v(t), ExitOrder)
      \/ /\ out.ret # old_v(t)
         /\ \E k \in 1..Newest(mem, Exit(t)) : /\ k >= mem.view[t][Exit(t)]
                                                /\ out.ret = mem.hist[Exit(t)][k].val
                                                /\ out.mem = Read(mem, t, Exit(t), k, ExitOrder)
  BY <1>1, CasIs
<1> QED
  BY <1>2, <1>3 DEF give, GiveTo, At, Goto, Assert, v, old_v

(* The middle of the compare-and-swap tests. *)
LEMMA CasMiddleIs ==
    ASSUME TypeInv, NEW t \in Threads, cas_middle(t), jj[t] \in Queues
    PROVE  /\ pc[t] = "middle" /\ ~Adds
           /\ jj' = [jj EXCEPT ![t] = NextMiddle(t)] /\ UNCHANGED ii
           /\ pc' = [pc EXCEPT ![t] = IF InMiddle(NextMiddle(t)) THEN "middle" ELSE "give"]
           /\ \/ /\ Latest(mem, jj[t]) = ii[t] - 1
                 /\ mem' = Rmw(mem, t, jj[t], ii[t], "relaxed")
                 /\ outcome' = outcome
              \/ \E k \in 1..Newest(mem, jj[t]) :
                    k >= mem.view[t][jj[t]] /\ mem.hist[jj[t]][k].val # ii[t] - 1
<1>1. mem \in Memories(Threads, Queues, Int)
  BY Acting DEF Progress
<1>2. PICK out \in CasOutcomes(mem, t, jj[t], old_v(t), v(t), "relaxed") :
            mem' = out.mem /\ Assert(out.ret = old_v(t))
  BY DEF cas_middle
<1>3. \/ /\ out.ret = old_v(t) /\ Latest(mem, jj[t]) = old_v(t)
         /\ out.mem = Rmw(mem, t, jj[t], v(t), "relaxed")
      \/ /\ out.ret # old_v(t)
         /\ \E k \in 1..Newest(mem, jj[t]) : /\ k >= mem.view[t][jj[t]]
                                              /\ out.ret = mem.hist[jj[t]][k].val
                                              /\ out.mem = Read(mem, t, jj[t], k, "relaxed")
  BY <1>1, CasIs
<1>4. pc' = [pc EXCEPT ![t] = IF InMiddle(NextMiddle(t)) THEN "middle" ELSE "give"]
  BY DEF cas_middle, EnterQueue, Goto, AfterMiddle
<1> QED
  BY <1>2, <1>3, <1>4 DEF cas_middle, At, Assert, v, old_v

(* The middle of the add tests. *)
LEMMA LoadMiddleIs ==
    ASSUME TypeInv, NEW t \in Threads, load_middle(t), jj[t] \in Queues
    PROVE  /\ pc[t] = "middle" /\ Adds /\ UNCHANGED <<ii, jj>>
           /\ pc' = [pc EXCEPT ![t] = "add"]
           /\ outcome' = outcome \/ outcome' = "assert_failed"
           /\ mem' \in Memories(Threads, Queues, Int) /\ mem'.hist = mem.hist
           /\ \A q \in Queues : /\ Newest(mem', q) = Newest(mem, q)
                                 /\ Latest(mem', q) = Latest(mem, q)
<1>1. mem \in Memories(Threads, Queues, Int)
  BY Acting DEF Progress
<1>2. PICK out \in LoadOutcomes(mem, t, jj[t], "relaxed") :
            mem' = out.mem /\ Assert(out.ret = old_v(t))
  BY DEF load_middle
<1>3. PICK k \in 1..Newest(mem, jj[t]) : out.mem = Read(mem, t, jj[t], k, "relaxed")
  BY <1>1, LoadIs
<1>4. mem' = Read(mem, t, jj[t], k, "relaxed")
  BY <1>2, <1>3
<1>5. /\ mem' \in Memories(Threads, Queues, Int) /\ mem'.hist = mem.hist
      /\ \A q \in Queues : /\ Newest(mem', q) = Newest(mem, q)
                            /\ Latest(mem', q) = Latest(mem, q)
  BY <1>1, <1>4, ReadIs
<1> QED
  BY <1>2, <1>5 DEF load_middle, At, Assert, Goto

(***************************************************************************)
(* Two queues or more.                                                     *)
(***************************************************************************)
(* The number of queues and the variant do not change while threads run. *)
LEMMA Frame ==
    ASSUME UNCHANGED <<variant, num_queues>>
    PROVE  /\ Queues' = Queues /\ (Adds' <=> Adds)
           /\ \A t : Entry(t)' = Entry(t) /\ Exit(t)' = Exit(t)
           /\ \A q : InMiddle(q)' <=> InMiddle(q)
BY DEF Queues, Adds, Entry, Exit, InMiddle

(* A busy thread, or one that finds its entry at the value it waits for,   *)
(* has its turn.                                                           *)
LEMMA MyTurn ==
    ASSUME TypeInv, ManyInv, outcome = "running", num_queues >= 2, NEW t \in Threads,
           Busy(t) \/ (pc[t] = "take" /\ Latest(mem, Entry(t)) = ii[t] - 1)
    PROVE  TurnInv(t) /\ SyncInv(t)
<1>1. PICK s \in Threads : TurnInv(s) /\ SyncInv(s)
  BY DEF ManyInv
<1>2. num_queues \in Nat /\ \A r \in Threads : ii[r] \in Nat
  BY DEF TypeInv
<1>3. CASE t = s
  BY <1>1, <1>3
<1>4. CASE t = Other(s)
  <2>1. ~Busy(t)
    BY <1>1, <1>4 DEF TurnInv, Busy
  <2>2. Entry(t) = Exit(s) /\ Exit(s) \in Queues
    BY <1>2, <1>4, Ends
  <2>3. Latest(mem, Exit(s)) = ii[s] - 1
    <3>1. Busy(s) => ~Counted(s, Exit(s))
      BY <1>1, <1>2 DEF TurnInv, ProgressInv, Counted, Exit, Queues, Threads
    <3> QED BY <1>1, <2>2, <3>1 DEF TurnInv
  <2>4. ii[t] = ii[s] + 1
    BY <1>1, <1>4 DEF TurnInv
  <2> QED BY <1>2, <2>1, <2>2, <2>3, <2>4
<1> QED
  BY <1>2, <1>3, <1>4, Ends

(* The entry of a compare-and-swap test acquires, and its exit releases. *)
LEMMA CasOrders == ~Adds => Acquires(EntryOrder) /\ Releases(ExitOrder)
BY DEF Adds, EntryOrder, ExitOrder, TakeOrder, GiveOrder, Acquires, Releases

(* Spinning changes nothing but the spinning thread's view. *)
LEMMA SpinMany ==
    ASSUME TypeInv, ManyInv, num_queues >= 2, NEW t \in Threads, spin(t)
    PROVE  ManyInv' /\ mem' \in Memories(Threads, Queues, Int)
<1>1. outcome = "running" /\ num_queues \in Nat /\ UNCHANGED <<variant, num_queues>>
  BY Acting
<1>2. PICK s \in Threads : TurnInv(s) /\ SyncInv(s)
  BY <1>1 DEF ManyInv
<1>3. TurnInv(s)'
  BY <1>1, <1>2, SpinIs, Frame
  DEF TurnInv, ProgressInv, Busy, Counted
<1>4. SyncInv(s)'
  <2>1. Entry(s) \in Queues /\ Exit(s) \in Queues
    BY <1>1, Ends
  <2>2. Busy(s) => mem'.view[s] = mem.view[s]
    BY SpinIs DEF Busy
  <2> QED
    BY <1>1, <1>2, <2>1, <2>2, SpinIs, Frame DEF SyncInv, Busy
<1> QED
  BY <1>1, <1>3, <1>4, SpinIs DEF ManyInv

(* Taking a turn.  In the compare-and-swap tests it acquires what the      *)
(* other thread published.                                                 *)
LEMMA TakeMany ==
    ASSUME TypeInv, ManyInv, num_queues >= 2, NEW t \in Threads, take(t)
    PROVE  ManyInv' /\ mem' \in Memories(Threads, Queues, Int)
<1>1. /\ outcome = "running" /\ num_queues \in Nat /\ UNCHANGED <<variant, num_queues>>
      /\ mem \in Memories(Threads, Queues, Int)
  BY Acting DEF Progress
<1>2. TurnInv(t) /\ SyncInv(t)
  BY <1>1, TakeIs, MyTurn
<1>3. /\ Entry(t) \in Queues /\ Exit(t) \in Queues /\ Entry(t) # Exit(t)
      /\ Other(t) \in Threads /\ Other(t) # t
      /\ FirstMiddle(t) \in Queues \ {Entry(t)}
      /\ InMiddle(FirstMiddle(t)) \/ FirstMiddle(t) = Exit(t)
  BY <1>1, Ends, Middles
<1>4. ii[t] \in Int /\ pc[t] = "take" /\ ~Busy(t) /\ \A s \in Threads : ii[s] \in Nat
  BY TakeIs DEF TypeInv, Busy
<1>5. /\ mem' \in Memories(Threads, Queues, Int)
      /\ Latest(mem', Entry(t)) = ii[t] /\ Newest(mem', Entry(t)) = Newest(mem, Entry(t)) + 1
      /\ mem'.view[t][Entry(t)] = Newest(mem', Entry(t))
      /\ \A q \in Queues \ {Entry(t)} : /\ Newest(mem', q) = Newest(mem, q)
                                         /\ Latest(mem', q) = Latest(mem, q)
      /\ Acquires(EntryOrder) => \A q \in Queues \ {Entry(t)} :
            mem'.view[t][q] >= mem.hist[Entry(t)][Newest(mem, Entry(t))].rel[q]
  BY <1>1, <1>3, <1>4, TakeIs, RmwIs
<1>6. /\ pc'[t] = IF Adds THEN "barrier_in" ELSE IF InMiddle(FirstMiddle(t)) THEN "middle" ELSE "give"
      /\ jj'[t] = FirstMiddle(t) /\ pc'[Other(t)] = pc[Other(t)]
  BY <1>3, TakeIs DEF TypeInv
<1>7. Busy(t)' /\ ProgressInv(t)'
  BY <1>1, <1>3, <1>6, Frame DEF Busy, ProgressInv
<1>8. \A q \in Queues : Counted(t, q)' <=> q = Entry(t)
  BY <1>1, <1>6 DEF Counted, FirstMiddle, Entry, Queues
<1>9. TurnInv(t)'
  <2>1. \A q \in Queues :
          Latest(mem', q) = IF Busy(t)' /\ Counted(t, q)' THEN ii'[t] ELSE ii'[t] - 1
    BY <1>2, <1>4, <1>5, <1>7, <1>8, TakeIs DEF TurnInv
  <2>2. \A s \in Threads : pc'[s] = "done" <=> ii'[s] >= TerminationValue
    <3>1. \A s \in Threads : s = t \/ s = Other(t)
      BY <1>1, Ends
    <3>2. UNCHANGED ii /\ pc'[t] # "done"
      BY <1>6, TakeIs
    <3> QED BY <1>2, <1>4, <1>6, <3>1, <3>2 DEF TurnInv
  <2> QED
    BY <1>1, <1>2, <1>6, <1>7, <2>1, <2>2, TakeIs, Frame DEF TurnInv
<1>10. SyncInv(t)'
  <2>1. ASSUME ~Adds PROVE \A q \in Queues : mem'.view[t][q] >= Newest(mem', q)
    <3>1. \A q \in Queues :
             mem.hist[Entry(t)][Newest(mem, Entry(t))].rel[q] >= Newest(mem, q)
      BY <1>2, <1>4, <2>1 DEF SyncInv
    <3>2. ASSUME NEW q \in Queues \ {Entry(t)} PROVE mem'.view[t][q] >= Newest(mem', q)
      <4>1. /\ mem'.view[t][q] \in Nat /\ Newest(mem', q) \in Nat
            /\ mem.hist[Entry(t)][Newest(mem, Entry(t))].rel[q] \in Nat
        BY <1>1, <1>3, <1>5, MemoryTypes
      <4> QED BY <1>5, <2>1, <3>1, <4>1, CasOrders
    <3>3. mem'.view[t][Entry(t)] >= Newest(mem', Entry(t))
      BY <1>3, <1>5, MemoryTypes
    <3> QED BY <3>2, <3>3
  <2> QED
    BY <1>1, <1>3, <1>6, <2>1, Frame DEF SyncInv
<1> QED
  BY <1>1, <1>5, <1>9, <1>10, TakeIs DEF ManyInv

(* A busy thread that stays busy keeps its turn. *)
LEMMA StayTurn ==
    ASSUME TypeInv, num_queues >= 2, NEW t \in Threads, TurnInv(t), Busy(t),
           UNCHANGED <<variant, num_queues, ii>>, pc'[Other(t)] = pc[Other(t)],
           Busy(t)', ProgressInv(t)',
           \A q \in Queues : Latest(mem', q) = IF Counted(t, q)' THEN ii[t] ELSE ii[t] - 1
    PROVE  TurnInv(t)'
<1>1. \A s \in Threads : s = t \/ s = Other(t)
  BY Ends DEF TypeInv
<1>2. pc[t] # "done" /\ pc'[t] # "done" /\ pc'[t] # "none"
  BY DEF Busy
<1> QED
  BY <1>1, <1>2, Frame DEF TurnInv

(* What is neither a thread's entry nor its exit is in the middle. *)
LEMMA RestIsMiddle ==
    ASSUME num_queues \in Nat, num_queues >= 2, NEW t \in Threads, NEW q \in Queues
    PROVE  q # Entry(t) => InMiddle(q) \/ q = Exit(t)
BY DEF Threads, Queues, Entry, Exit, InMiddle

(* The additions of 0 around the middle leave the values alone; after the  *)
(* last one the thread has seen the newest message of its exit.            *)
LEMMA BarrierMany ==
    ASSUME TypeInv, ManyInv, num_queues >= 2, NEW t \in Threads,
           barrier_in(t) \/ barrier_out(t)
    PROVE  ManyInv' /\ mem' \in Memories(Threads, Queues, Int)
<1>1. /\ outcome = "running" /\ num_queues \in Nat /\ UNCHANGED <<variant, num_queues>>
      /\ mem \in Memories(Threads, Queues, Int)
  BY Acting DEF Progress
<1>2. /\ pc[t] \in {"barrier_in", "barrier_out"} /\ UNCHANGED <<ii, jj, outcome>>
      /\ \E o : mem' = Rmw(mem, t, Exit(t), Latest(mem, Exit(t)), o)
      /\ pc' = [pc EXCEPT ![t] = IF pc[t] = "barrier_out" THEN "give"
                                 ELSE IF InMiddle(jj[t]) THEN "middle" ELSE AfterMiddle]
  BY DEF barrier_in, barrier_out, At, EnterQueue, Goto
<1>3. Busy(t)
  BY <1>2 DEF Busy
<1>4. TurnInv(t) /\ SyncInv(t)
  BY <1>1, <1>3, MyTurn
<1>5. Adds /\ jj[t] \in Queues /\ jj[t] # Entry(t) /\ (pc[t] = "barrier_out" => jj[t] = Exit(t))
  BY <1>2, <1>3, <1>4 DEF TurnInv, ProgressInv
<1>6. /\ Exit(t) \in Queues /\ Other(t) \in Threads /\ Other(t) # t
      /\ InMiddle(jj[t]) \/ jj[t] = Exit(t)
  BY <1>1, <1>5, Ends, RestIsMiddle
<1>7. Latest(mem, Exit(t)) \in Int
  BY <1>1, <1>6, MemoryTypes
<1>8. /\ mem' \in Memories(Threads, Queues, Int)
      /\ mem'.view[t][Exit(t)] = Newest(mem', Exit(t))
      /\ \A q \in Queues : Latest(mem', q) = Latest(mem, q)
  BY <1>1, <1>2, <1>6, <1>7, RmwIs
<1>9. /\ pc'[t] = IF pc[t] = "barrier_out" THEN "give"
                   ELSE IF InMiddle(jj[t]) THEN "middle" ELSE "barrier_out"
      /\ pc'[Other(t)] = pc[Other(t)]
  BY <1>2, <1>5, <1>6 DEF TypeInv, AfterMiddle
<1>10. Busy(t)' /\ ProgressInv(t)'
  BY <1>1, <1>2, <1>5, <1>6, <1>9, Frame DEF Busy, ProgressInv
<1>11. TurnInv(t)'
  <2>1. \A q \in Queues : Latest(mem', q) = IF Counted(t, q)' THEN ii[t] ELSE ii[t] - 1
    BY <1>2, <1>3, <1>4, <1>8 DEF TurnInv, Counted
  <2> QED BY <1>1, <1>2, <1>3, <1>4, <1>9, <1>10, <2>1, StayTurn
<1>12. SyncInv(t)'
  <2>1. mem'.view[t][Exit(t)] >= Newest(mem', Exit(t))
    BY <1>6, <1>8, MemoryTypes
  <2> QED BY <1>1, <1>5, <2>1, Frame DEF SyncInv
<1> QED
  BY <1>1, <1>2, <1>8, <1>11, <1>12 DEF ManyInv

(* Counting a middle queue up, in either kind of test. *)
LEMMA CountMany ==
    ASSUME TypeInv, num_queues >= 2, NEW t \in Threads, outcome = "running",
           mem \in Memories(Threads, Queues, Int),
           TurnInv(t), SyncInv(t), pc[t] \in {"middle", "add"},
           UNCHANGED <<variant, num_queues, ii, outcome>>,
           mem' = Rmw(mem, t, jj[t], ii[t], "relaxed"),
           jj' = [jj EXCEPT ![t] = NextMiddle(t)],
           pc' = [pc EXCEPT ![t] = IF InMiddle(NextMiddle(t)) THEN "middle" ELSE AfterMiddle]
    PROVE  ManyInv' /\ mem' \in Memories(Threads, Queues, Int)
<1>1. /\ num_queues \in Nat /\ Busy(t) /\ \A s \in Threads : ii[s] \in Nat /\ jj[s] \in Int
  BY DEF TypeInv, Busy
<1>2. ProgressInv(t) /\ InMiddle(jj[t])
  BY <1>1 DEF TurnInv, ProgressInv
<1>3. /\ jj[t] \in Queues /\ NextMiddle(t) \in Queues \ {Entry(t)}
      /\ InMiddle(NextMiddle(t)) \/ NextMiddle(t) = Exit(t)
      /\ Other(t) \in Threads /\ Other(t) # t
  BY <1>1, <1>2, Middles, Ends
<1>4. /\ mem' \in Memories(Threads, Queues, Int)
      /\ Latest(mem', jj[t]) = ii[t] /\ Newest(mem', jj[t]) = Newest(mem, jj[t]) + 1
      /\ mem'.view[t][jj[t]] = Newest(mem', jj[t])
      /\ \A q \in Queues \ {jj[t]} : /\ Newest(mem', q) = Newest(mem, q)
                                      /\ Latest(mem', q) = Latest(mem, q)
                                      /\ mem'.view[t][q] >= mem.view[t][q]
  BY <1>1, <1>3, RmwIs
<1>5. /\ pc'[t] = (IF InMiddle(NextMiddle(t)) THEN "middle" ELSE AfterMiddle)
      /\ jj'[t] = NextMiddle(t) /\ pc'[Other(t)] = pc[Other(t)]
  BY <1>3 DEF TypeInv
<1>6. Busy(t)' /\ ProgressInv(t)'
  BY <1>2, <1>3, <1>5, Frame DEF Busy, ProgressInv, AfterMiddle
<1>7. \A q \in Queues : Counted(t, q)' <=> Counted(t, q) \/ q = jj[t]
  BY <1>1, <1>3, <1>5 DEF Counted, NextMiddle, Queues
<1>8. TurnInv(t)'
  <2>1. \A q \in Queues : Latest(mem', q) = IF Counted(t, q)' THEN ii[t] ELSE ii[t] - 1
    BY <1>1, <1>4, <1>7 DEF TurnInv
  <2> QED BY <1>1, <1>5, <1>6, <2>1, StayTurn
<1>9. SyncInv(t)'
  <2>1. ASSUME ~Adds, NEW q \in Queues PROVE mem'.view[t][q] >= Newest(mem', q)
    <3>1. /\ mem'.view[t][q] \in Nat /\ Newest(mem', q) \in Nat /\ mem.view[t][q] \in Nat
      BY <1>4, MemoryTypes
    <3>2. mem.view[t][q] >= Newest(mem, q)
      BY <1>1, <2>1 DEF SyncInv
    <3> QED BY <1>4, <3>1, <3>2
  <2>2. Adds => pc'[t] # "give" /\ pc'[t] # "take"
    BY <1>5 DEF AfterMiddle
  <2>3. Exit(t) \in Queues /\ pc'[t] # "take"
    BY <1>1, <1>5, Ends DEF AfterMiddle
  <2> QED BY <2>1, <2>2, <2>3, Frame DEF SyncInv
<1> QED
  BY <1>4, <1>8, <1>9 DEF ManyInv

(* The compare-and-swap on a middle queue never fails: the thread has seen *)
(* its newest message, which holds the value before.                       *)
LEMMA CasMiddleMany ==
    ASSUME TypeInv, ManyInv, num_queues >= 2, NEW t \in Threads, cas_middle(t)
    PROVE  ManyInv' /\ mem' \in Memories(Threads, Queues, Int)
<1>1. /\ outcome = "running" /\ num_queues \in Nat /\ UNCHANGED <<variant, num_queues>>
      /\ mem \in Memories(Threads, Queues, Int)
  BY Acting DEF Progress
<1>2. Busy(t) /\ pc[t] = "middle" /\ ~Adds
  BY DEF cas_middle, At, Busy
<1>3. TurnInv(t) /\ SyncInv(t)
  BY <1>1, <1>2, MyTurn
<1>4. jj[t] \in Queues
  BY <1>2, <1>3 DEF TurnInv, ProgressInv
<1>5. ASSUME NEW k \in 1..Newest(mem, jj[t]), k >= mem.view[t][jj[t]]
      PROVE  mem.hist[jj[t]][k].val = ii[t] - 1
  <2>1. mem.view[t][jj[t]] >= Newest(mem, jj[t])
    BY <1>2, <1>3, <1>4 DEF SyncInv
  <2>2. k = Newest(mem, jj[t])
    BY <1>1, <1>4, <1>5, <2>1, MemoryTypes
  <2>3. ~Counted(t, jj[t])
    BY <1>1, <1>4 DEF Counted, Queues
  <2> QED BY <1>3, <1>4, <2>2, <2>3 DEF TurnInv, Latest
<1>6. /\ mem' = Rmw(mem, t, jj[t], ii[t], "relaxed") /\ UNCHANGED <<ii, outcome>>
      /\ jj' = [jj EXCEPT ![t] = NextMiddle(t)]
      /\ pc' = [pc EXCEPT ![t] = IF InMiddle(NextMiddle(t)) THEN "middle" ELSE AfterMiddle]
  BY <1>4, <1>5, CasMiddleIs DEF AfterMiddle
<1> QED
  BY <1>1, <1>2, <1>3, <1>6, CountMany

(* A load in the middle of an add test may fail its ASSERT; nobody else is *)
(* busy then.                                                              *)
LEMMA LoadMiddleMany ==
    ASSUME TypeInv, ManyInv, num_queues >= 2, NEW t \in Threads, load_middle(t)
    PROVE  ManyInv' /\ mem' \in Memories(Threads, Queues, Int)
<1>1. outcome = "running" /\ num_queues \in Nat /\ UNCHANGED <<variant, num_queues>>
  BY Acting DEF Progress
<1>2. Busy(t) /\ pc[t] = "middle"
  BY DEF load_middle, At, Busy
<1>3. TurnInv(t) /\ SyncInv(t)
  BY <1>1, <1>2, MyTurn
<1>4. jj[t] \in Queues /\ InMiddle(jj[t]) /\ jj[t] # Entry(t)
  BY <1>2, <1>3 DEF TurnInv, ProgressInv
<1>5. Other(t) \in Threads /\ Other(t) # t
  BY <1>1, Ends
<1>6. /\ pc'[t] = "add" /\ pc'[Other(t)] = pc[Other(t)] /\ UNCHANGED <<ii, jj>> /\ Adds
  BY <1>4, <1>5, LoadMiddleIs DEF TypeInv
<1>7. Busy(t)' /\ ProgressInv(t)'
  BY <1>1, <1>4, <1>6, Frame DEF Busy, ProgressInv
<1>8. TurnInv(t)'
  <2>1. \A q \in Queues : Latest(mem', q) = IF Counted(t, q)' THEN ii[t] ELSE ii[t] - 1
    BY <1>2, <1>3, <1>4, <1>6, LoadMiddleIs DEF TurnInv, Counted
  <2> QED BY <1>1, <1>2, <1>3, <1>6, <1>7, <2>1, StayTurn
<1>9. SyncInv(t)'
  BY <1>1, <1>6, Frame DEF SyncInv
<1>10. ~Busy(Other(t))'
  BY <1>3, <1>6 DEF TurnInv, Busy
<1> QED
  BY <1>1, <1>4, <1>6, <1>8, <1>9, <1>10, LoadMiddleIs, Frame DEF ManyInv

(* The addition that follows it counts the queue up by one. *)
LEMMA AddMiddleMany ==
    ASSUME TypeInv, ManyInv, num_queues >= 2, NEW t \in Threads, add_middle(t)
    PROVE  ManyInv' /\ mem' \in Memories(Threads, Queues, Int)
<1>1. /\ outcome = "running" /\ num_queues \in Nat /\ UNCHANGED <<variant, num_queues>>
      /\ mem \in Memories(Threads, Queues, Int)
  BY Acting DEF Progress
<1>2. Busy(t) /\ pc[t] = "add"
  BY DEF add_middle, At, Busy
<1>3. TurnInv(t) /\ SyncInv(t)
  BY <1>1, <1>2, MyTurn
<1>4. jj[t] \in Queues /\ ~Counted(t, jj[t]) /\ ii[t] \in Nat
  BY <1>2, <1>3 DEF TurnInv, ProgressInv, Counted, Queues, TypeInv
<1>5. Latest(mem, jj[t]) + 1 = ii[t]
  BY <1>3, <1>4 DEF TurnInv
<1>6. /\ mem' = Rmw(mem, t, jj[t], ii[t], "relaxed") /\ UNCHANGED <<ii, outcome>>
      /\ jj' = [jj EXCEPT ![t] = NextMiddle(t)]
      /\ pc' = [pc EXCEPT ![t] = IF InMiddle(NextMiddle(t)) THEN "middle" ELSE AfterMiddle]
  BY <1>5 DEF add_middle, EnterQueue, Goto
<1> QED
  BY <1>1, <1>2, <1>3, <1>6, CountMany

(* Handing the turn over never fails; it publishes, in the                 *)
(* compare-and-swap tests, everything the thread has seen.                 *)
LEMMA GiveMany ==
    ASSUME TypeInv, ManyInv, num_queues >= 2, NEW t \in Threads, give(t)
    PROVE  ManyInv' /\ mem' \in Memories(Threads, Queues, Int)
<1> DEFINE u == Other(t)
<1>1. /\ outcome = "running" /\ num_queues \in Nat /\ UNCHANGED <<variant, num_queues>>
      /\ mem \in Memories(Threads, Queues, Int)
  BY Acting DEF Progress
<1>2. Busy(t) /\ pc[t] = "give"
  BY GiveIs DEF Busy
<1>3. TurnInv(t) /\ SyncInv(t)
  BY <1>1, <1>2, MyTurn
<1>4. /\ u \in Threads /\ u # t /\ Other(u) = t /\ \A s \in Threads : s = t \/ s = u
      /\ Exit(t) \in Queues /\ Entry(u) = Exit(t)
  BY <1>1, Ends
<1>5. /\ ii[u] = ii[t] + 1 /\ ii[t] \in Nat /\ ii[u] \in Nat /\ ii[t] < TerminationValue
      /\ pc[u] \in {"take", "done"} /\ (pc[u] = "done" <=> ii[u] >= TerminationValue)
  BY <1>2, <1>3, <1>4, BoundAssumption DEF TurnInv, TypeInv
<1> HIDE DEF u
<1>6. jj[t] = Exit(t)
  BY <1>2, <1>3 DEF TurnInv, ProgressInv
<1>7. \A q \in Queues : Latest(mem, q) = IF q = Exit(t) THEN ii[t] - 1 ELSE ii[t]
  <2>1. \A q \in Queues : Counted(t, q) <=> q # Exit(t)
    BY <1>1, <1>6 DEF Counted, Exit, Queues
  <2> QED BY <1>2, <1>3, <2>1 DEF TurnInv
<1>8. ASSUME NEW k \in 1..Newest(mem, Exit(t)), k >= mem.view[t][Exit(t)]
      PROVE  mem.hist[Exit(t)][k].val = ii[t] - 1
  <2>1. mem.view[t][Exit(t)] >= Newest(mem, Exit(t))
    BY <1>2, <1>3 DEF SyncInv
  <2>2. k = Newest(mem, Exit(t))
    BY <1>1, <1>4, <1>8, <2>1, MemoryTypes
  <2> QED BY <1>4, <1>7, <2>2 DEF Latest
<1>9. mem' = Rmw(mem, t, Exit(t), ii[t], ExitOrder) /\ outcome' = outcome
  BY <1>8, GiveIs
<1>10. /\ mem' \in Memories(Threads, Queues, Int)
       /\ Latest(mem', Exit(t)) = ii[t]
       /\ mem'.view[t][Exit(t)] = Newest(mem', Exit(t))
       /\ \A q \in Queues \ {Exit(t)} : /\ Newest(mem', q) = Newest(mem, q)
                                         /\ Latest(mem', q) = Latest(mem, q)
                                         /\ mem'.view[t][q] >= mem.view[t][q]
       /\ Releases(ExitOrder) => \A q \in Queues :
             mem'.hist[Exit(t)][Newest(mem', Exit(t))].rel[q] >= mem'.view[t][q]
  BY SMTT(20), <1>1, <1>4, <1>5, <1>9, RmwIs
<1>11. /\ ii'[t] = ii[t] + 2 /\ ii'[u] = ii[u] /\ pc'[u] = pc[u]
       /\ pc'[t] = IF ii[t] + 2 < TerminationValue THEN "take" ELSE "done"
  BY <1>4, GiveIs DEF TypeInv
<1>12. ~Busy(u)' /\ \A q \in Queues : Latest(mem', q) = ii'[u] - 1
  BY <1>5, <1>7, <1>10, <1>11 DEF Busy
<1>13. TurnInv(u)'
  <2>1. ii'[Other(u)] = ii'[u] + 1 /\ ii'[u] <= TerminationValue
    BY <1>4, <1>5, <1>11, BoundAssumption
  <2>2. \A s \in Threads : pc'[s] = "done" <=> ii'[s] >= TerminationValue
    BY <1>4, <1>5, <1>11, BoundAssumption
  <2>3. pc'[Other(u)] \in {"take", "done"} /\ pc'[u] # "none"
    BY <1>4, <1>5, <1>11
  <2> QED BY <1>1, <1>12, <2>1, <2>2, <2>3, Frame DEF TurnInv
<1>14. SyncInv(u)'
  <2>1. ASSUME ~Adds, NEW q \in Queues
        PROVE  mem'.hist[Entry(u)][Newest(mem', Entry(u))].rel[q] >= Newest(mem', q)
    <3>1. /\ mem'.view[t][q] \in Nat /\ Newest(mem', q) \in Nat /\ mem.view[t][q] \in Nat
          /\ mem'.hist[Exit(t)][Newest(mem', Exit(t))].rel[q] \in Nat
      BY <1>1, <1>4, <1>10, MemoryTypes
    <3>2. mem.view[t][q] >= Newest(mem, q)
      BY <1>2, <1>3, <2>1 DEF SyncInv
    <3>3. mem'.view[t][q] >= Newest(mem', q)
      BY <1>10, <3>1, <3>2
    <3> QED BY <1>4, <1>10, <2>1, <3>1, <3>3, CasOrders
  <2>2. pc'[u] # "give"
    BY <1>5, <1>11
  <2> QED BY <1>1, <1>12, <2>1, <2>2, Frame DEF SyncInv
<1> QED
  BY <1>1, <1>4, <1>9, <1>10, <1>13, <1>14 DEF ManyInv

(***************************************************************************)
(* One queue.                                                              *)
(***************************************************************************)
(* Both threads enter and leave by the same queue: whoever hands the turn  *)
(* over finds that it has already counted the index up.                    *)
LEMMA SingleNext ==
    ASSUME TypeInv, SingleInv, num_queues = 1, NEW t \in Threads, spin(t) \/ Progress(t)
    PROVE  SingleInv' /\ mem' \in Memories(Threads, Queues, Int)
<1>1. /\ outcome = "running" /\ UNCHANGED <<variant, num_queues>>
      /\ mem \in Memories(Threads, Queues, Int)
  BY Acting
<1>2. /\ Entry(t) = 0 /\ Exit(t) = 0 /\ 0 \in Queues /\ \A q \in Int : ~InMiddle(q)
      /\ FirstMiddle(t) \in Int
  BY DEF Threads, Entry, Exit, Queues, InMiddle, FirstMiddle
<1>3. /\ \A s \in Threads : /\ jj[s] \in Int /\ ii[s] = FirstValue(s)
                             /\ pc[s] \notin {"none", "middle", "add"}
      /\ pc["odd"] # "done" /\ (pc["even"] = "done" <=> TerminationValue = 2)
      /\ pc["odd"] = "take" => ~Busy("even")
      /\ Latest(mem, 0) = IF pc["odd"] = "take" THEN 0 ELSE IF Busy("even") THEN 2 ELSE 1
  BY <1>1 DEF SingleInv
<1>4. CASE spin(t)
  BY <1>1, <1>2, <1>4, SpinIs DEF SingleInv, FirstValue, Busy
<1>5. CASE take(t)
  <2>1. /\ Latest(mem, 0) = ii[t] - 1 /\ pc[t] = "take" /\ UNCHANGED <<ii, outcome>>
        /\ jj' = [jj EXCEPT ![t] = FirstMiddle(t)]
        /\ pc' = [pc EXCEPT ![t] = IF Adds THEN "barrier_in" ELSE "give"]
        /\ mem' = Rmw(mem, t, 0, ii[t], EntryOrder)
    BY <1>2, <1>5, TakeIs
  <2>2. ii[t] \in Int
    BY DEF TypeInv
  <2>3. mem' \in Memories(Threads, Queues, Int) /\ Latest(mem', 0) = ii[t]
    BY <1>1, <1>2, <2>1, <2>2, RmwIs
  <2>4. jj' \in [Threads -> Int]
    BY <1>2, <2>1 DEF TypeInv
  <2>5. CASE t = "odd"
    BY <1>1, <1>3, <2>1, <2>3, <2>4, <2>5 DEF SingleInv, FirstValue, Busy, Threads, TypeInv
  <2>6. CASE t = "even"
    BY <1>1, <1>3, <2>1, <2>3, <2>4, <2>6 DEF SingleInv, FirstValue, Busy, Threads, TypeInv
  <2> QED BY <2>3, <2>5, <2>6 DEF Threads
<1>6. CASE barrier_in(t) \/ barrier_out(t)
  <2>1. /\ pc[t] \in {"barrier_in", "barrier_out"} /\ UNCHANGED <<ii, jj, outcome>>
        /\ \E o : mem' = Rmw(mem, t, 0, Latest(mem, 0), o)
        /\ \E l \in {"barrier_out", "give"} : pc' = [pc EXCEPT ![t] = l]
    BY <1>2, <1>3, <1>6 DEF barrier_in, barrier_out, At, EnterQueue, Goto, AfterMiddle
  <2>2. Latest(mem, 0) \in Int
    BY <1>1, <1>2, MemoryTypes
  <2>3. mem' \in Memories(Threads, Queues, Int) /\ Latest(mem', 0) = Latest(mem, 0)
    BY <1>1, <1>2, <2>1, <2>2, RmwIs
  <2> QED
    BY <1>1, <1>3, <2>1, <2>3 DEF SingleInv, FirstValue, Busy, Threads, TypeInv
<1>7. CASE cas_middle(t) \/ load_middle(t) \/ add_middle(t)
  BY <1>3, <1>7 DEF cas_middle, load_middle, add_middle, At
<1>8. CASE give(t)
  <2>1. /\ pc[t] = "give" /\ UNCHANGED jj
        /\ pc' = [pc EXCEPT ![t] = IF ii[t] + 2 < TerminationValue THEN "take" ELSE "done"]
    BY <1>8, GiveIs
  <2>2. Latest(mem, 0) # ii[t] - 1
    BY <1>3, <2>1 DEF Threads, FirstValue, Busy
  <2>3. PICK k \in 1..Newest(mem, 0) :
              outcome' = "assert_failed" /\ mem' = Read(mem, t, 0, k, ExitOrder)
    BY <1>2, <1>8, <2>2, GiveIs
  <2>4. mem' \in Memories(Threads, Queues, Int) /\ Latest(mem', 0) = Latest(mem, 0)
    BY <1>1, <1>2, <2>3, ReadIs
  <2> QED
    BY <1>3, <2>1, <2>3, <2>4, BoundAssumption
    DEF SingleInv, FirstValue, Busy, Threads, TypeInv
<1> QED
  BY <1>4, <1>5, <1>6, <1>7, <1>8 DEF Progress

(***************************************************************************)
(* The theorems.                                                           *)
(***************************************************************************)
(* No thread runs in the beginning. *)
LEMMA InitIInv == Init => IInv
BY DEF Init, IInv, TypeInv, Threads, FirstValue

(* When the threads start every index is 0 and known to both of them. *)
LEMMA StartIInv ==
    ASSUME IInv, start_threads
    PROVE  IInv'
<1>1. /\ main = "create" /\ main' = "wait" /\ UNCHANGED <<variant, num_queues, ii, jj>>
      /\ mem' = InitMem(Threads, [q \in Queues |-> 0])
      /\ pc' = [t \in Threads |-> IF FirstValue(t) < TerminationValue THEN "take" ELSE "done"]
      /\ outcome' = IF num_queues = 0 THEN "bad_index" ELSE "running"
      /\ TypeInv /\ num_queues \in Nat /\ \A t \in Threads : ii[t] = FirstValue(t)
  BY DEF start_threads, IInv, TypeInv
<1> DEFINE zero == [q \in Queues |-> 0]
<1>2. Queues' = Queues /\ zero \in [Queues -> Int] /\ \A q \in Queues : zero[q] = 0
  BY <1>1 DEF Queues
<1>3. /\ mem' \in Memories(Threads, Queues, Int)
      /\ \A q \in Queues : /\ Newest(mem', q) = 1 /\ Latest(mem', q) = 0
                            /\ mem'.hist[q][1].rel = [k \in Queues |-> 1]
  <2>1. mem' = InitMem(Threads, zero)
    BY <1>1
  <2> HIDE DEF zero
  <2> QED BY SMTT(20), <1>2, <2>1, InitMemIs
<1>4. /\ pc'["odd"] = "take"
      /\ pc'["even"] = IF 2 < TerminationValue THEN "take" ELSE "done"
      /\ ii'["odd"] = 1 /\ ii'["even"] = 2
  BY <1>1, BoundAssumption DEF Threads, FirstValue
<1>5. TypeInv'
  BY <1>1, <1>2, <1>3, <1>4 DEF TypeInv, Threads, FirstValue
<1>6. ASSUME num_queues = 1 PROVE SingleInv'
  <2>1. 0 \in Queues
    BY <1>6 DEF Queues
  <2> QED
    BY <1>1, <1>3, <1>4, <1>6, <2>1, BoundAssumption
    DEF SingleInv, TypeInv, Threads, FirstValue, Busy
<1>7. ASSUME num_queues >= 2 PROVE ManyInv'
  <2>1. TurnInv("odd")'
    BY <1>1, <1>2, <1>3, <1>4, BoundAssumption DEF TurnInv, Other, Busy, Threads
  <2>2. SyncInv("odd")'
    <3>1. Entry("odd") \in Queues /\ Entry("odd")' = Entry("odd")
      BY <1>1, <1>7, Ends, Frame DEF Threads
    <3> QED BY <1>1, <1>2, <1>3, <1>4, <3>1 DEF SyncInv, Busy
  <2> QED BY <1>1, <1>7, <2>1, <2>2 DEF ManyInv, Threads
<1> QED
  BY <1>1, <1>5, <1>6, <1>7 DEF IInv

(* A thread's step keeps the types, given the memory's. *)
LEMMA StepTypes ==
    ASSUME TypeInv, NEW t \in Threads, spin(t) \/ Progress(t),
           mem' \in Memories(Threads, Queues, Int)
    PROVE  TypeInv'
<1>1. /\ main = "wait" /\ outcome = "running" /\ num_queues \in Nat /\ num_queues >= 1
      /\ UNCHANGED <<variant, num_queues, main>>
  BY Acting
<1>2. /\ \E l \in {"take", "barrier_in", "middle", "add", "barrier_out", "give", "done"} :
            pc' = [pc EXCEPT ![t] = l] \/ pc' = pc
      /\ ii' = ii \/ ii' = [ii EXCEPT ![t] = ii[t] + 2]
      /\ \E j \in Int : jj' = [jj EXCEPT ![t] = j] \/ jj' = jj
      /\ outcome' \in {"running", "assert_failed"}
  <2>1. FirstMiddle(t) \in Int /\ NextMiddle(t) \in Int
    BY <1>1 DEF FirstMiddle, NextMiddle, TypeInv
  <2>2. CASE spin(t)
    BY <1>1, <2>2 DEF spin
  <2>3. CASE take(t)
    BY <1>1, <2>1, <2>3 DEF take, EnterQueue, Goto, AfterMiddle
  <2>4. CASE barrier_in(t) \/ barrier_out(t)
    BY <1>1, <2>4 DEF barrier_in, barrier_out, EnterQueue, Goto, AfterMiddle
  <2>5. CASE cas_middle(t)
    BY <1>1, <2>1, <2>5 DEF cas_middle, EnterQueue, Goto, AfterMiddle, Assert
  <2>6. CASE load_middle(t)
    BY <1>1, <2>6 DEF load_middle, Goto, Assert
  <2>7. CASE add_middle(t)
    BY <1>1, <2>1, <2>7 DEF add_middle, EnterQueue, Goto, AfterMiddle
  <2>8. CASE give(t)
    BY <1>1, <2>8, GiveIs
  <2> QED BY <2>2, <2>3, <2>4, <2>5, <2>6, <2>7, <2>8 DEF Progress
<1>3. Queues' = Queues
  BY <1>1, Frame
<1> QED
  BY <1>1, <1>2, <1>3 DEF TypeInv

(* Every step preserves the invariant. *)
LEMMA NextIInv == IInv /\ [Next]_vars => IInv'
<1> SUFFICES ASSUME IInv, [Next]_vars PROVE IInv'
  OBVIOUS
<1>1. CASE create_queue
  BY <1>1 DEF create_queue, IInv, TypeInv, FirstValue
<1>2. CASE start_threads
  BY <1>2, StartIInv
<1>3. CASE destroy_queues
  <2>1. /\ UNCHANGED <<variant, num_queues, mem, pc, ii, jj, outcome>>
        /\ main = "wait" /\ main' = "end" /\ \A t \in Threads : pc[t] = "done"
    BY <1>3 DEF destroy_queues
  <2>2. TypeInv'
    BY <2>1 DEF IInv, TypeInv, Queues, FirstValue
  <2>3. num_queues = 1 => SingleInv'
    BY <2>1 DEF IInv, SingleInv, Busy, FirstValue
  <2>4. num_queues >= 2 => ManyInv'
    <3>1. \A t \in Threads : (TurnInv(t) => TurnInv(t)') /\ (SyncInv(t) => SyncInv(t)')
      BY <2>1, Frame DEF TurnInv, SyncInv, ProgressInv, Counted, Busy
    <3> QED BY <2>1, <3>1, Frame DEF IInv, ManyInv, Busy
  <2> QED BY <2>1, <2>2, <2>3, <2>4 DEF IInv
<1>4. ASSUME NEW t \in Threads, spin(t) \/ Progress(t) PROVE IInv'
  <2>1. /\ TypeInv /\ main = "wait" /\ outcome = "running" /\ num_queues \in Nat
        /\ num_queues >= 1 /\ UNCHANGED <<variant, num_queues, main>>
    BY <1>4, Acting DEF IInv
  <2>2. CASE num_queues = 1
    <3>1. SingleInv' /\ mem' \in Memories(Threads, Queues, Int)
      BY <1>4, <2>1, <2>2, SingleNext DEF IInv
    <3> QED BY <1>4, <2>1, <2>2, <3>1, StepTypes DEF IInv
  <2>3. CASE num_queues >= 2
    <3>1. ManyInv' /\ mem' \in Memories(Threads, Queues, Int)
      BY <1>4, <2>1, <2>3, SpinMany, TakeMany, BarrierMany, CasMiddleMany,
         LoadMiddleMany, AddMiddleMany, GiveMany
      DEF IInv, Progress
    <3> QED BY <1>4, <2>1, <2>3, <3>1, StepTypes DEF IInv
  <2> QED BY <2>1, <2>2, <2>3
<1>5. CASE UNCHANGED vars
  <2>1. UNCHANGED <<variant, num_queues, main, mem, pc, ii, jj, outcome>>
    BY <1>5 DEF vars
  <2>2. \A t \in Threads : (TurnInv(t) => TurnInv(t)') /\ (SyncInv(t) => SyncInv(t)')
    BY <2>1, Frame DEF TurnInv, SyncInv, ProgressInv, Counted, Busy
  <2>3. ManyInv => ManyInv'
    BY <2>1, <2>2, Frame DEF ManyInv, Busy
  <2>4. SingleInv => SingleInv'
    BY <2>1 DEF SingleInv, Busy, FirstValue
  <2>5. TypeInv => TypeInv'
    BY <2>1, Frame DEF TypeInv, FirstValue
  <2> QED BY <2>1, <2>3, <2>4, <2>5 DEF IInv
<1> QED
  BY <1>1, <1>2, <1>3, <1>4, <1>5 DEF Next, Stopped

(* The invariant holds throughout. *)
THEOREM TurnsInvariant == Spec => []IInv
<1> QED
  BY InitIInv, NextIInv, PTL DEF Spec

(* The turns of the two threads never overlap, in any of the tests, with   *)
(* any number of queues but one: not even when a relaxed operation of the  *)
(* add tests has read a stale index.                                       *)
THEOREM TurnsNeverOverlap == Spec => []TurnsExclusive
<1>1. IInv => TurnsExclusive
  <2> SUFFICES ASSUME IInv, num_queues # 1, Busy("even"), Busy("odd") PROVE FALSE
    BY DEF TurnsExclusive
  <2>1. main # "create" /\ outcome # "bad_index" /\ num_queues >= 2
    BY DEF IInv, TypeInv, Busy, Threads
  <2>2. \E t \in Threads : ~Busy(Other(t))
    BY <2>1 DEF IInv, TypeInv, ManyInv, TurnInv, Busy
  <2> QED BY <2>2 DEF Threads, Other
<1> QED
  BY <1>1, TurnsInvariant, PTL

(* The compare-and-swap tests never reject a runtime that implements the   *)
(* orders they use, unless it grants exactly one queue, however many turns *)
(* are taken.                                                              *)
THEOREM CasTestsAreSound == Spec => []CasOracleSound
<1>1. IInv => CasOracleSound
  BY DEF IInv, TypeInv, ManyInv, CasOracleSound, OracleSound, Adds, CasVariants, AddVariants
<1> QED
  BY <1>1, TurnsInvariant, PTL

(* A test that ends has counted every write index up to                    *)
(* termination_value - 1.                                                  *)
THEOREM CountsToTheEnd == Spec => []FinalValues
<1>1. IInv => FinalValues
  <2> SUFFICES ASSUME IInv, main = "end", NEW q \in Queues
               PROVE  Latest(mem, q) = TerminationValue - 1
    BY DEF FinalValues
  <2>1. /\ num_queues \in Nat /\ outcome \in {"running", "assert_failed"}
        /\ \A t \in Threads : pc[t] = "done" /\ ii[t] \in Nat
        /\ num_queues > 0
    BY DEF IInv, TypeInv, Queues, Threads
  <2>2. CASE num_queues = 1
    BY <2>1, <2>2 DEF IInv, SingleInv, Queues, Threads
  <2>3. CASE num_queues >= 2
    <3>1. PICK t \in Threads : TurnInv(t)
      BY <2>1, <2>3 DEF IInv, ManyInv
    <3> QED BY <2>1, <3>1, BoundAssumption DEF TurnInv, Busy
  <2> QED BY <2>1, <2>2, <2>3
<1> QED
  BY <1>1, TurnsInvariant, PTL
=============================================================================
