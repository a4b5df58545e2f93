------------------------ MODULE SignalOrderingProofs ------------------------
(***************************************************************************)
(* The signal ordering tests for any number of x signals and of rounds: a  *)
(* disciplined test follows its ideal run on the memory of RelAcq.  Hence  *)
(* no ASSERT of it fails, its token is exclusive, and the holder of the    *)
(* token has synchronised with the previous one.                           *)
(***************************************************************************)
EXTENDS IdealRun, TLAPS

(***************************************************************************)
(* The memory, for any threads and locations.                              *)
(***************************************************************************)
Views(Locs) == [Locs -> Nat \ {0}]
Messages(Locs) == [val : Int, rel : Views(Locs)]

(* Every location was created, and nobody has seen, and no message         *)
(* publishes, more than was written.                                       *)
Within(v, m, Locs) == \A l \in Locs : v[l] <= Newest(m, l)
Memory(m, Thr, Locs) ==
    /\ m \in [hist : [Locs -> Seq(Messages(Locs))], view : [Thr -> Views(Locs)]]
    /\ \A l \in Locs : Newest(m, l) >= 1
    /\ \A t \in Thr : Within(m.view[t], m, Locs)
    /\ \A l \in Locs : \A k \in 1..Newest(m, l) : Within(m.hist[l][k].rel, m, Locs)

(* The parts of a memory. *)
LEMMA MemoryIs ==
    ASSUME NEW Thr, NEW Locs, NEW m
    PROVE  Memory(m, Thr, Locs) <=>
             /\ m = [hist |-> m.hist, view |-> m.view]
             /\ m.hist \in [Locs -> Seq(Messages(Locs))]
             /\ m.view \in [Thr -> Views(Locs)]
             /\ \A l \in Locs : Newest(m, l) >= 1
             /\ \A t \in Thr : Within(m.view[t], m, Locs)
             /\ \A l \in Locs : \A k \in 1..Newest(m, l) : Within(m.hist[l][k].rel, m, Locs)
<1> DEFINE H == [Locs -> Seq(Messages(Locs))]
           V == [Thr -> Views(Locs)]
<1> HIDE DEF H, V
<1>1. m \in [hist : H, view : V] <=>
         /\ m = [hist |-> m.hist, view |-> m.view] /\ m.hist \in H /\ m.view \in V
  OBVIOUS
<1> QED
  BY <1>1 DEF Memory, H, V

(* Its messages, views and positions have their types. *)
LEMMA MessageIs ==
    ASSUME NEW Thr, NEW Locs, NEW m, Memory(m, Thr, Locs),
           NEW l \in Locs, NEW k \in 1..Newest(m, l)
    PROVE  /\ Newest(m, l) \in Nat \ {0} /\ Newest(m, l) \in 1..Newest(m, l)
           /\ m.hist[l][k].val \in Int /\ m.hist[l][k].rel \in Views(Locs)
           /\ Within(m.hist[l][k].rel, m, Locs)
<1>1. m.hist[l] \in Seq(Messages(Locs)) /\ Newest(m, l) >= 1
  BY MemoryIs
<1>2. m.hist[l][k] \in Messages(Locs) /\ Newest(m, l) \in Nat
  BY <1>1 DEF Newest
<1>3. Within(m.hist[l][k].rel, m, Locs)
  BY MemoryIs
<1> QED
  BY <1>1, <1>2, <1>3 DEF Messages

LEMMA MemoryTypes ==
    ASSUME NEW Thr, NEW Locs, NEW m, Memory(m, Thr, Locs), NEW l \in Locs
    PROVE  /\ Newest(m, l) \in Nat \ {0} /\ Newest(m, l) \in 1..Newest(m, l)
           /\ Latest(m, l) \in Int /\ m.hist[l][Newest(m, l)].rel \in Views(Locs)
           /\ \A t \in Thr : /\ m.view[t] \in Views(Locs) /\ Within(m.view[t], m, Locs)
                             /\ m.view[t][l] \in Nat \ {0} /\ m.view[t][l] <= Newest(m, l)
<1>1. Newest(m, l) \in Nat \ {0} /\ Newest(m, l) \in 1..Newest(m, l)
  BY MemoryIs DEF Newest
<1>2. Latest(m, l) \in Int /\ m.hist[l][Newest(m, l)].rel \in Views(Locs)
  BY <1>1, MessageIs DEF Latest
<1>3. ASSUME NEW t \in Thr
      PROVE  /\ m.view[t] \in Views(Locs) /\ Within(m.view[t], m, Locs)
             /\ m.view[t][l] \in Nat \ {0} /\ m.view[t][l] <= Newest(m, l)
  <2>1. m.view[t] \in Views(Locs) /\ Within(m.view[t], m, Locs)
    BY MemoryIs
  <2> QED BY <2>1 DEF Views, Within
<1> QED
  BY <1>1, <1>2, <1>3

(* Joining two views gives a view that has seen what either has. *)
LEMMA JoinIs ==
    ASSUME NEW Locs, NEW v \in Views(Locs), NEW w \in Views(Locs)
    PROVE  /\ Join(v, w) \in Views(Locs)
           /\ \A l \in Locs : /\ Join(v, w)[l] >= v[l] /\ Join(v, w)[l] >= w[l]
                              /\ Join(v, w)[l] = v[l] \/ Join(v, w)[l] = w[l]
BY DEF Join, Views

(* All threads start with the only message of every location. *)
LEMMA InitMemIs ==
    ASSUME NEW Thr, NEW Locs, NEW init \in [Locs -> Int],
           NEW m, m = InitMem(Thr, init)
    PROVE  /\ Memory(m, Thr, Locs)
           /\ \A l \in Locs : /\ Newest(m, l) = 1 /\ Latest(m, l) = init[l]
                              /\ \A n \in Locs : m.hist[l][1].rel[n] = 1
           /\ \A t \in Thr, l \in Locs : m.view[t][l] = 1
<1> DEFINE one == [k \in Locs |-> 1]
           msg(l) == [val |-> init[l], rel |-> one]
<1>1. one \in Views(Locs) /\ \A l \in Locs : one[l] = 1
  BY DEF Views
<1>2. m = [hist |-> [l \in Locs |-> <<msg(l)>>], view |-> [t \in Thr |-> one]]
  BY DEF InitMem
<1> HIDE DEF one
<1>3. ASSUME NEW l \in Locs
      PROVE  /\ m.hist[l] \in Seq(Messages(Locs)) /\ Len(m.hist[l]) = 1
             /\ m.hist[l][1].val = init[l] /\ m.hist[l][1].rel = one
  <2>1. msg(l) \in Messages(Locs) /\ msg(l).val = init[l] /\ msg(l).rel = one
    BY <1>1 DEF Messages
  <2>2. m.hist[l] = <<msg(l)>>
    BY <1>2
  <2> HIDE DEF msg
  <2> QED BY <2>1, <2>2
<1>4. m.view = [t \in Thr |-> one] /\ m.hist = [l \in Locs |-> <<msg(l)>>]
      /\ m = [hist |-> m.hist, view |-> m.view]
  BY <1>2
<1>5. m.view \in [Thr -> Views(Locs)] /\ m.hist \in [Locs -> Seq(Messages(Locs))]
  BY <1>1, <1>3, <1>4
<1>6. \A l \in Locs : Newest(m, l) = 1 /\ Latest(m, l) = init[l]
  BY <1>3 DEF Newest, Latest
<1>7. \A l \in Locs : \A n \in Locs : m.hist[l][1].rel[n] = 1
  BY <1>1, <1>3
<1>8. \A t \in Thr, l \in Locs : m.view[t][l] = 1
  BY <1>1, <1>4
<1>9. Memory(m, Thr, Locs)
  <2>1. \A l \in Locs : Newest(m, l) >= 1
    BY <1>6
  <2>2. \A t \in Thr : Within(m.view[t], m, Locs)
    BY <1>6, <1>8 DEF Within
  <2>3. \A l \in Locs : \A k \in 1..Newest(m, l) : Within(m.hist[l][k].rel, m, Locs)
    <3> SUFFICES ASSUME NEW l \in Locs, NEW k \in 1..Newest(m, l)
                 PROVE  Within(m.hist[l][k].rel, m, Locs)
      OBVIOUS
    <3>1. k = 1
      BY <1>6
    <3> QED BY <1>6, <1>7, <3>1 DEF Within
  <2> QED BY <1>4, <1>5, <2>1, <2>2, <2>3, MemoryIs
<1> QED
  BY <1>6, <1>7, <1>8, <1>9

(* A read leaves the messages and the other threads' views alone.  It      *)
(* forgets nothing, and if it acquires, its thread has then seen what the  *)
(* message publishes.                                                      *)
LEMMA ReadIs ==
    ASSUME NEW Thr, NEW Locs, NEW m, Memory(m, Thr, Locs),
           NEW t \in Thr, NEW l \in Locs, NEW k \in Readable(m, t, l), NEW o,
           NEW r, r = Read(m, t, l, k, o)
    PROVE  /\ Memory(r, Thr, Locs) /\ r.hist = m.hist
           /\ \A n \in Locs : Newest(r, n) = Newest(m, n) /\ Latest(r, n) = Latest(m, n)
           /\ \A u \in Thr \ {t} : r.view[u] = m.view[u]
           /\ \A n \in Locs : r.view[t][n] >= m.view[t][n]
           /\ r.view[t][l] >= k
           /\ Acquires(o) => \A n \in Locs : r.view[t][n] >= m.hist[l][k].rel[n]
<1> DEFINE v == [m.view[t] EXCEPT ![l] = k]
           rel == m.hist[l][k].rel
           w == ViewAfter(m, t, l, k, o)
<1>0. k \in 1..Newest(m, l) /\ k >= m.view[t][l]
  BY MemoryTypes DEF Readable
<1>1. /\ m.hist \in [Locs -> Seq(Messages(Locs))] /\ m.view \in [Thr -> Views(Locs)]
      /\ m = [hist |-> m.hist, view |-> m.view]
  BY MemoryIs
<1>2. rel \in Views(Locs) /\ Within(rel, m, Locs)
  BY <1>0, MessageIs
<1>3. /\ v \in Views(Locs) /\ v[l] = k /\ \A n \in Locs \ {l} : v[n] = m.view[t][n]
  BY <1>0, <1>1 DEF Views
<1>4. /\ Within(v, m, Locs) /\ \A n \in Locs : v[n] >= m.view[t][n]
  <2>1. \A n \in Locs : m.view[t][n] \in Nat /\ m.view[t][n] <= Newest(m, n)
    BY MemoryTypes
  <2> HIDE DEF v
  <2> QED BY <1>0, <1>3, <2>1 DEF Within
<1>5. /\ w \in Views(Locs) /\ Within(w, m, Locs)
      /\ \A n \in Locs : w[n] >= v[n]
      /\ Acquires(o) => \A n \in Locs : w[n] >= rel[n]
  <2>1. w = IF Acquires(o) THEN Join(v, rel) ELSE v
    BY DEF ViewAfter
  <2> HIDE DEF v, rel, w
  <2>2. CASE Acquires(o)
    BY <1>2, <1>3, <1>4, <2>1, <2>2, JoinIs DEF Within
  <2>3. CASE ~Acquires(o)
    <3>1. \A n \in Locs : v[n] \in Nat
      BY <1>3 DEF Views
    <3> QED BY <1>3, <1>4, <2>1, <2>3, <3>1
  <2> QED BY <2>2, <2>3
<1>6. r = [hist |-> m.hist, view |-> [m.view EXCEPT ![t] = w]]
  BY <1>1 DEF Read
<1> HIDE DEF v, rel, w
<1>7. r.hist = m.hist /\ r.view = [m.view EXCEPT ![t] = w]
      /\ r = [hist |-> r.hist, view |-> r.view]
  BY <1>6
<1>8. \A n \in Locs : Newest(r, n) = Newest(m, n) /\ Latest(r, n) = Latest(m, n)
  BY <1>7 DEF Newest, Latest
<1>9. r.view \in [Thr -> Views(Locs)] /\ r.view[t] = w
      /\ \A u \in Thr \ {t} : r.view[u] = m.view[u]
  BY <1>1, <1>5, <1>7
<1>10. Memory(r, Thr, Locs)
  <2>1. \A n \in Locs : Newest(r, n) >= 1
    BY <1>8, MemoryIs
  <2>2. \A x : Within(x, m, Locs) => Within(x, r, Locs)
    BY <1>8 DEF Within
  <2>3. \A u \in Thr : Within(r.view[u], r, Locs)
    BY <1>5, <1>9, <2>2, MemoryIs
  <2>4. \A n \in Locs : \A i \in 1..Newest(r, n) : Within(r.hist[n][i].rel, r, Locs)
    BY <1>7, <1>8, <2>2, MemoryIs
  <2> QED BY <1>1, <1>7, <1>9, <2>1, <2>3, <2>4, MemoryIs
<1>11. \A n \in Locs : r.view[t][n] >= m.view[t][n]
  <2> SUFFICES ASSUME NEW n \in Locs PROVE r.view[t][n] >= m.view[t][n]
    OBVIOUS
  <2>1. w[n] >= v[n] /\ v[n] >= m.view[t][n] /\ w[n] \in Nat /\ v[n] \in Nat /\ m.view[t][n] \in Nat
    BY <1>3, <1>4, <1>5, MemoryTypes DEF Views
  <2> QED BY <1>9, <2>1
<1>12. r.view[t][l] >= k
  BY <1>3, <1>5, <1>9
<1> QED
  BY <1>5, <1>7, <1>8, <1>9, <1>10, <1>11, <1>12 DEF rel

(* A write adds a message to one location, and its thread has seen it.     *)
(* The message publishes what it passes on and, if it releases, what its   *)
(* thread has seen.                                                        *)
Appended(m, r, Thr, Locs, t, l, val, o, seen, carried) ==
    /\ Memory(r, Thr, Locs)
    /\ Newest(r, l) = Newest(m, l) + 1 /\ Latest(r, l) = val
    /\ \A n \in Locs \ {l} : r.hist[n] = m.hist[n]
    /\ \A k \in 1..Newest(m, l) : r.hist[l][k] = m.hist[l][k]
    /\ \A u \in Thr \ {t} : r.view[u] = m.view[u]
    /\ r.view[t][l] = Newest(r, l)
    /\ \A n \in Locs \ {l} : /\ r.view[t][n] = seen[n]
                             /\ r.hist[l][Newest(r, l)].rel[n] >= carried[n]
                             /\ Releases(o) => r.hist[l][Newest(r, l)].rel[n] >= seen[n]

LEMMA AppendIs ==
    ASSUME NEW Thr, NEW Locs, NEW m, Memory(m, Thr, Locs),
           NEW t \in Thr, NEW l \in Locs, NEW val \in Int, NEW o,
           NEW seen \in Views(Locs), Within(seen, m, Locs),
           NEW carried \in Views(Locs), Within(carried, m, Locs),
           NEW r, r = Append1(m, t, l, val, o, seen, carried)
    PROVE  Appended(m, r, Thr, Locs, t, l, val, o, seen, carried)
<1> DEFINE pos == Newest(m, l) + 1
           own == [seen EXCEPT ![l] = pos]
           old == [carried EXCEPT ![l] = pos]
           rel == IF Releases(o) THEN Join(own, old) ELSE old
           msg == [val |-> val, rel |-> rel]
<1>1. /\ m.hist \in [Locs -> Seq(Messages(Locs))] /\ m.view \in [Thr -> Views(Locs)]
      /\ m = [hist |-> m.hist, view |-> m.view]
  BY MemoryIs
<1>2. pos \in Nat \ {0} /\ pos - 1 = Newest(m, l) /\ Newest(m, l) \in Nat
      /\ pos = Newest(m, l) + 1
  BY MemoryTypes
<1>3. r = [m EXCEPT !.view[t] = own, !.hist[l] = Append(@, msg)]
  BY DEF Append1
<1> HIDE DEF pos
<1>4. /\ own \in Views(Locs) /\ own[l] = pos /\ \A n \in Locs \ {l} : own[n] = seen[n]
      /\ old \in Views(Locs) /\ old[l] = pos /\ \A n \in Locs \ {l} : old[n] = carried[n]
  BY <1>2 DEF Views
<1> HIDE DEF own, old
<1>5. /\ rel \in Views(Locs) /\ rel[l] = pos
      /\ \A n \in Locs \ {l} : /\ rel[n] >= carried[n] /\ (Releases(o) => rel[n] >= seen[n])
                               /\ rel[n] = seen[n] \/ rel[n] = carried[n]
  <2>1. CASE Releases(o)
    <3>1. rel = Join(own, old)
      BY <2>1
    <3> HIDE DEF rel
    <3> QED BY <1>4, <2>1, <3>1, JoinIs
  <2>2. CASE ~Releases(o)
    <3>1. rel = old
      BY <2>2
    <3> HIDE DEF rel
    <3>2. \A n \in Locs : old[n] \in Nat
      BY <1>4 DEF Views
    <3> QED BY <1>4, <2>2, <3>1, <3>2
  <2> QED BY <2>1, <2>2
<1> HIDE DEF rel
<1>6. msg \in Messages(Locs) /\ msg.val = val /\ msg.rel = rel
  BY <1>5 DEF Messages
<1> HIDE DEF msg
<1>7. /\ r.hist = [m.hist EXCEPT ![l] = Append(m.hist[l], msg)]
      /\ r.view = [m.view EXCEPT ![t] = own]
      /\ r = [hist |-> r.hist, view |-> r.view]
  BY <1>1, <1>3
<1>8. /\ r.hist \in [Locs -> Seq(Messages(Locs))]
      /\ Len(r.hist[l]) = pos /\ r.hist[l][pos] = msg
      /\ \A k \in 1..Newest(m, l) : r.hist[l][k] = m.hist[l][k]
      /\ \A n \in Locs \ {l} : r.hist[n] = m.hist[n]
  <2>1. /\ Append(m.hist[l], msg) \in Seq(Messages(Locs))
        /\ Len(Append(m.hist[l], msg)) = pos
        /\ Append(m.hist[l], msg)[pos] = msg
        /\ \A k \in 1..Newest(m, l) : Append(m.hist[l], msg)[k] = m.hist[l][k]
    BY <1>1, <1>2, <1>6 DEF Newest
  <2> QED BY <1>1, <1>7, <2>1
<1>9. /\ r.view \in [Thr -> Views(Locs)] /\ r.view[t] = own
      /\ \A u \in Thr \ {t} : r.view[u] = m.view[u]
  BY <1>1, <1>4, <1>7
<1>10. Newest(r, l) = pos /\ Latest(r, l) = val
  BY <1>6, <1>8 DEF Newest, Latest
<1>11. \A n \in Locs \ {l} : Newest(r, n) = Newest(m, n)
  BY <1>8 DEF Newest
<1>12. \A n \in Locs : Newest(r, n) >= Newest(m, n) /\ Newest(m, n) \in Nat /\ Newest(m, n) >= 1
  BY <1>2, <1>10, <1>11, MemoryTypes
<1>13. \A v \in Views(Locs) : Within(v, m, Locs) => Within(v, r, Locs)
  <2> SUFFICES ASSUME NEW v \in Views(Locs), Within(v, m, Locs), NEW n \in Locs
               PROVE  v[n] <= Newest(r, n)
    BY DEF Within
  <2>1. v[n] \in Nat /\ v[n] <= Newest(m, n)
    BY DEF Within, Views
  <2>2. Newest(r, n) \in Nat
    BY <1>2, <1>10, <1>11, <1>12
  <2> QED BY <1>12, <2>1, <2>2
<1>14. \A v \in Views(Locs) :
          v[l] = pos /\ (\A n \in Locs \ {l} : v[n] <= Newest(m, n)) => Within(v, r, Locs)
  BY <1>2, <1>10, <1>11 DEF Within
<1>15. Within(own, r, Locs) /\ Within(rel, r, Locs)
  <2>1. \A n \in Locs \ {l} : own[n] <= Newest(m, n) /\ rel[n] <= Newest(m, n)
    BY <1>4, <1>5 DEF Within
  <2> QED BY <1>4, <1>5, <1>14, <2>1
<1>16. Memory(r, Thr, Locs)
  <2>1. \A n \in Locs : Newest(r, n) >= 1
    <3> SUFFICES ASSUME NEW n \in Locs PROVE Newest(r, n) >= 1
      OBVIOUS
    <3>1. CASE n = l
      BY <1>2, <1>10, <3>1
    <3>2. CASE n # l
      BY <1>11, <1>12, <3>2
    <3> QED BY <3>1, <3>2
  <2>2. \A u \in Thr : Within(r.view[u], r, Locs)
    <3> SUFFICES ASSUME NEW u \in Thr PROVE Within(r.view[u], r, Locs)
      OBVIOUS
    <3>1. m.view[u] \in Views(Locs) /\ Within(m.view[u], m, Locs)
      BY <1>1, MemoryIs
    <3> QED BY <1>9, <1>13, <1>15, <3>1
  <2>3. ASSUME NEW n \in Locs, NEW i \in 1..Newest(r, n)
        PROVE  Within(r.hist[n][i].rel, r, Locs)
    <3>1. CASE n = l /\ i = pos
      BY <1>6, <1>8, <1>15, <3>1
    <3>2. CASE ~(n = l /\ i = pos)
      <4>1. i \in 1..Newest(m, n) /\ r.hist[n][i] = m.hist[n][i]
        BY <1>2, <1>8, <1>10, <1>11, <3>2
      <4>2. m.hist[n][i].rel \in Views(Locs) /\ Within(m.hist[n][i].rel, m, Locs)
        BY <4>1, MessageIs
      <4> QED BY <1>13, <4>1, <4>2
    <3> QED BY <3>1, <3>2
  <2> QED BY <1>7, <1>8, <1>9, <2>1, <2>2, <2>3, MemoryIs
<1>17. r.view[t][l] = Newest(r, l)
  BY <1>4, <1>9, <1>10
<1>18. \A n \in Locs \ {l} : /\ r.view[t][n] = seen[n]
                             /\ r.hist[l][Newest(r, l)].rel[n] >= carried[n]
                             /\ Releases(o) => r.hist[l][Newest(r, l)].rel[n] >= seen[n]
  BY <1>4, <1>5, <1>6, <1>8, <1>9, <1>10
<1> QED
  BY <1>2, <1>8, <1>9, <1>10, <1>16, <1>17, <1>18 DEF Appended

(* What a store and a read-modify-write have in common: the other          *)
(* locations, messages and views stay, and the writer forgets nothing.     *)
WriteOf(m, r, Thr, Locs, t, l, val) ==
    /\ Memory(r, Thr, Locs)
    /\ Newest(r, l) = Newest(m, l) + 1 /\ Latest(r, l) = val
    /\ \A n \in Locs \ {l} : /\ r.hist[n] = m.hist[n]
                             /\ Newest(r, n) = Newest(m, n) /\ Latest(r, n) = Latest(m, n)
    /\ \A k \in 1..Newest(m, l) : r.hist[l][k] = m.hist[l][k]
    /\ \A u \in Thr \ {t} : r.view[u] = m.view[u]
    /\ r.view[t][l] = Newest(r, l)
    /\ \A n \in Locs \ {l} : r.view[t][n] >= m.view[t][n]

LEMMA StoreIs ==
    ASSUME NEW Thr, NEW Locs, NEW m, Memory(m, Thr, Locs),
           NEW t \in Thr, NEW l \in Locs, NEW val \in Int, NEW o,
           NEW r, r = Store(m, t, l, val, o)
    PROVE  /\ WriteOf(m, r, Thr, Locs, t, l, val)
           /\ Releases(o) => \A n \in Locs \ {l} :
                                r.hist[l][Newest(r, l)].rel[n] >= r.view[t][n]
<1> DEFINE one == [n \in Locs |-> 1]
<1>1. one \in Views(Locs) /\ Within(one, m, Locs)
  <2>1. \A n \in Locs : 1 <= Newest(m, n)
    BY MemoryTypes
  <2> QED BY <2>1 DEF Views, Within
<1>2. r = Append1(m, t, l, val, o, m.view[t], one)
  <2>1. DOMAIN m.hist = Locs
    BY MemoryIs
  <2> QED BY <2>1 DEF Store
<1>3. m.view[t] \in Views(Locs) /\ Within(m.view[t], m, Locs)
  BY MemoryTypes
<1> HIDE DEF one
<1>4. /\ Memory(r, Thr, Locs)
      /\ Newest(r, l) = Newest(m, l) + 1 /\ Latest(r, l) = val
      /\ \A n \in Locs \ {l} : r.hist[n] = m.hist[n]
      /\ \A k \in 1..Newest(m, l) : r.hist[l][k] = m.hist[l][k]
      /\ \A u \in Thr \ {t} : r.view[u] = m.view[u]
      /\ r.view[t][l] = Newest(r, l)
      /\ \A n \in Locs \ {l} : /\ r.view[t][n] = m.view[t][n]
                               /\ Releases(o) => r.hist[l][Newest(r, l)].rel[n] >= m.view[t][n]
  <2>1. Appended(m, r, Thr, Locs, t, l, val, o, m.view[t], one)
    BY <1>1, <1>2, <1>3, AppendIs
  <2> QED BY <2>1 DEF Appended
<1>5. \A n \in Locs \ {l} : /\ Newest(r, n) = Newest(m, n) /\ Latest(r, n) = Latest(m, n)
                            /\ r.view[t][n] >= m.view[t][n]
  <2>1. \A n \in Locs : m.view[t][n] \in Nat
    BY MemoryTypes
  <2> QED BY <1>4, <2>1 DEF Newest, Latest
<1> QED
  BY <1>4, <1>5 DEF WriteOf

LEMMA RmwIs ==
    ASSUME NEW Thr, NEW Locs, NEW m, Memory(m, Thr, Locs),
           NEW t \in Thr, NEW l \in Locs, NEW val \in Int, NEW o,
           NEW r, r = Rmw(m, t, l, val, o)
    PROVE  /\ WriteOf(m, r, Thr, Locs, t, l, val)
           /\ \A n \in Locs \ {l} :
                /\ r.hist[l][Newest(r, l)].rel[n] >= m.hist[l][Newest(m, l)].rel[n]
                /\ Acquires(o) => r.view[t][n] >= m.hist[l][Newest(m, l)].rel[n]
                /\ Releases(o) => r.hist[l][Newest(r, l)].rel[n] >= r.view[t][n]
<1> DEFINE k == Newest(m, l)
           q == Read(m, t, l, k, o)
           rel == m.hist[l][k].rel
           seen == ViewAfter(m, t, l, k, o)
<1>1. k \in Readable(m, t, l) /\ k \in 1..Newest(m, l)
  BY MemoryTypes DEF Readable
<1>2. rel \in Views(Locs) /\ Within(rel, m, Locs)
  BY <1>1, MessageIs
<1>3. /\ Memory(q, Thr, Locs) /\ q.view[t] = seen
      /\ \A n \in Locs : Newest(q, n) = Newest(m, n)
      /\ \A n \in Locs : q.view[t][n] >= m.view[t][n]
      /\ Acquires(o) => \A n \in Locs : q.view[t][n] >= rel[n]
  <2>1. q.view[t] = seen
    <3>1. m.view \in [Thr -> Views(Locs)] /\ m = [hist |-> m.hist, view |-> m.view]
      BY MemoryIs
    <3> HIDE DEF seen
    <3>2. q = [hist |-> m.hist, view |-> [m.view EXCEPT ![t] = seen]]
      BY <3>1 DEF Read, seen
    <3> QED BY <3>1, <3>2
  <2> HIDE DEF k, q
  <2> QED BY <1>1, <2>1, ReadIs DEF q
<1>4. seen \in Views(Locs) /\ Within(seen, m, Locs)
  <2>1. q.view[t] \in Views(Locs) /\ Within(q.view[t], q, Locs)
    BY <1>3, MemoryIs
  <2> QED BY <1>3, <2>1 DEF Within
<1>5. r = Append1(m, t, l, val, o, seen, rel)
  BY DEF Rmw
<1> HIDE DEF seen, rel, q
<1>6. /\ Memory(r, Thr, Locs)
      /\ Newest(r, l) = Newest(m, l) + 1 /\ Latest(r, l) = val
      /\ \A n \in Locs \ {l} : r.hist[n] = m.hist[n]
      /\ \A i \in 1..Newest(m, l) : r.hist[l][i] = m.hist[l][i]
      /\ \A u \in Thr \ {t} : r.view[u] = m.view[u]
      /\ r.view[t][l] = Newest(r, l)
      /\ \A n \in Locs \ {l} : /\ r.view[t][n] = seen[n]
                               /\ r.hist[l][Newest(r, l)].rel[n] >= rel[n]
                               /\ Releases(o) => r.hist[l][Newest(r, l)].rel[n] >= seen[n]
  <2>1. Appended(m, r, Thr, Locs, t, l, val, o, seen, rel)
    BY <1>2, <1>4, <1>5, AppendIs
  <2> QED BY <2>1 DEF Appended
<1>7. \A n \in Locs \ {l} : Newest(r, n) = Newest(m, n) /\ Latest(r, n) = Latest(m, n)
  BY <1>6 DEF Newest, Latest
<1>8. \A n \in Locs \ {l} : r.view[t][n] >= m.view[t][n]
  BY <1>3, <1>6
<1>9. WriteOf(m, r, Thr, Locs, t, l, val)
  BY <1>6, <1>7, <1>8 DEF WriteOf
<1> QED
  BY <1>3, <1>6, <1>9 DEF rel

(***************************************************************************)
(* A state of a disciplined test that follows a state of the ideal run.    *)
(***************************************************************************)
(* The types, and that no ASSERT has failed. *)
TypeInv ==
    /\ test \in Names
    /\ pc \in [Threads -> Nat] /\ ii \in [Threads -> Nat] /\ round \in [Threads -> Nat]
    /\ Memory(mem, Threads, Locations)
    /\ failed = FALSE

OnCourse(s, a) ==
    /\ TypeInv /\ Disciplined(test) /\ s = Suite[test]
    /\ a \in Ideal[test] /\ Follows(s, a)

(* What discipline says about the state. *)
LEMMA DisciplineIs ==
    ASSUME NEW s, NEW a, OnCourse(s, a)
    PROVE  /\ Threads = DOMAIN s.threads /\ {1, 2} \subseteq Threads
           /\ \A t \in Threads : Prog(t) = s.threads[t] /\ WellFormed(s.threads[t])
           /\ IdealTypes(s, a)
           /\ (\A t \in Threads : ~InEach(s, a, t)) => a.pre = a.val["x"]
           /\ \A t \in Threads : WaitsOutside(s, a, t)
           /\ \A t, u \in Threads : Able(s, a, t) /\ Able(s, a, u) => t = u
           /\ \A t \in Threads : Able(s, a, t) =>
                /\ AsExpected(s, a, t) /\ EndsWell(s, a, t)
                /\ IdealNext(s, a, t) \subseteq Ideal[test]
BY DEF OnCourse, Disciplined, Threads, Prog

(* The places of the signals. *)
LEMMA Places ==
    /\ \A g \in Signals : Place(g) \subseteq Locations
    /\ Place("x") = 1..NumX /\ Place("y") = {Y} /\ Place("z") = {Z}
    /\ Y \notin 1..NumX /\ Z \notin 1..NumX /\ Y # Z
    /\ \A l \in Locations : l \in 1..NumX \/ l = Y \/ l = Z
BY SignalOrderingAssumption DEF Place, Locations, Signals, Y, Z

(* The call of a thread that has not finished. *)
LEMMA AtCall ==
    ASSUME NEW s, NEW a, OnCourse(s, a), NEW t \in Threads, ~Finished(t)
    PROVE  /\ pc[t] = a.pos[t] /\ ~Ended(s, a, t) /\ Current(t) = CallOf(s, a, t)
           /\ a.pos[t] \in 1..End(Prog(t))
<1>1. pc[t] = a.pos[t]
  BY DEF OnCourse, Follows, SamePlace
<1>2. Prog(t) = s.threads[t] /\ WellFormed(s.threads[t]) /\ IdealTypes(s, a) /\ t \in DOMAIN s.threads
  BY DisciplineIs
<1>3. ~Ended(s, a, t)
  BY <1>1, <1>2 DEF Finished, Ended
<1>4. a.pos[t] \in 1..(End(s.threads[t]) + 1) /\ End(s.threads[t]) \in Nat
  BY <1>2 DEF IdealTypes, WellFormed
<1> QED
  BY <1>1, <1>2, <1>3, <1>4 DEF Current, CallOf, Ended

(* It acts on the place of its signal, whose newest value the ideal run    *)
(* has.                                                                    *)
LEMMA AtPlace ==
    ASSUME NEW s, NEW a, OnCourse(s, a), NEW t \in Threads, ~Finished(t),
           Current(t).sig \in Signals, Current(t).sig = "x" => InEach(s, a, t)
    PROVE  /\ Loc(t) \in Place(Current(t).sig) /\ Loc(t) \in Locations
           /\ Current(t).sig = "x" => Loc(t) = ii[t]
           /\ \A g \in Signals \ {Current(t).sig} : Loc(t) \notin Place(g)
           /\ Latest(mem, Loc(t)) = a.val[Current(t).sig]
<1>1. SamePlace(s, a) /\ SameValues(s, a)
  BY DEF OnCourse, Follows
<1>2. ii[t] \in 1..NumX
  BY <1>1 DEF SamePlace
<1>3. CASE Current(t).sig = "x"
  <2>1. Loc(t) = ii[t]
    BY <1>3 DEF Loc
  <2>2. Latest(mem, Loc(t)) = a.val["x"]
    BY <1>1, <1>2, <1>3, <2>1 DEF SameValues
  <2>3. \A g \in Signals \ {"x"} : Loc(t) \notin Place(g)
    <3>1. Loc(t) # Y /\ Loc(t) # Z
      BY <1>2, <2>1, Places
    <3> QED BY <3>1, Places DEF Signals
  <2>4. Loc(t) \in Place("x") /\ Loc(t) \in Locations
    BY <1>2, <2>1, Places DEF Signals
  <2> QED BY <1>3, <2>1, <2>2, <2>3, <2>4
<1>4. CASE Current(t).sig = "y"
  <2>1. Loc(t) = Y
    BY <1>4 DEF Loc
  <2>2. Latest(mem, Loc(t)) = a.val["y"]
    BY <1>1, <2>1 DEF SameValues
  <2> QED BY <1>4, <2>1, <2>2, Places DEF Signals
<1>5. CASE Current(t).sig = "z"
  <2>1. Loc(t) = Z
    BY <1>5 DEF Loc
  <2>2. Latest(mem, Loc(t)) = a.val["z"]
    BY <1>1, <2>1 DEF SameValues
  <2> QED BY <1>5, <2>1, <2>2, Places DEF Signals
<1> QED
  BY <1>3, <1>4, <1>5 DEF Signals

(* A thread that is not at a wait is able to go on. *)
LEMMA NoWaitIsAble ==
    ASSUME NEW s, NEW a, NEW t, ~Ended(s, a, t), ~Waits(s, a, t)
    PROVE  Able(s, a, t)
BY DEF Waits, Able

(***************************************************************************)
(* What a step does.                                                       *)
(***************************************************************************)
(* A thread that waits reads a message without the value it wants. *)
Idles(s, a, t) ==
    /\ Waits(s, a, t) /\ Current(t).sig \in {"y", "z"}
    /\ \E k \in Readable(mem, t, Loc(t)) :
          mem' = Read(mem, t, Loc(t), k, Current(t).ord)
    /\ UNCHANGED <<test, ii, round, failed>>
    /\ pc' = pc \/ pc' = [pc EXCEPT ![t] = End(Prog(t)) + 1]

(* A thread that is able to go on goes on, and its call does what it does  *)
(* in the ideal run.                                                       *)
Advances(s, a, t) ==
    /\ Able(s, a, t)
    /\ NextCall(t)
    /\ UNCHANGED <<test, failed>>
    /\ \/ /\ Current(t).op \in {"load", "wait"}
          /\ mem' = Read(mem, t, Loc(t), Newest(mem, Loc(t)), Current(t).ord)
       \/ /\ Current(t).op = "store"
          /\ mem' = Store(mem, t, Loc(t), NewValue(s, a, t), Current(t).ord)
       \/ /\ Current(t).op \notin {"load", "wait", "store"}
          /\ mem' = Rmw(mem, t, Loc(t), NewValue(s, a, t), Current(t).ord)

(* What a waiting thread reads, if it is what it wants, is the newest      *)
(* message, and the thread is able to go on.                               *)
LEMMA WantedIsNewest ==
    ASSUME NEW s, NEW a, OnCourse(s, a), NEW t \in Threads, ~Finished(t), Waits(s, a, t),
           NEW k \in Readable(mem, t, Loc(t)),
           mem.hist[Loc(t)][k].val = Wanted(Current(t))
    PROVE  k = Newest(mem, Loc(t)) /\ Able(s, a, t)
<1>1. Current(t) = CallOf(s, a, t) /\ ~Ended(s, a, t)
  BY AtCall
<1>2. Current(t).sig \in {"y", "z"}
  BY <1>1, DisciplineIs DEF WaitsOutside
<1>3. Loc(t) \in Place(Current(t).sig) /\ Latest(mem, Loc(t)) = a.val[Current(t).sig]
  BY <1>2, AtPlace DEF Signals
<1>4. k = Newest(mem, Loc(t))
  BY <1>1, <1>3 DEF OnCourse, Follows, NoStaleClaim
<1>5. a.val[Current(t).sig] = Wanted(Current(t))
  BY <1>3, <1>4 DEF Latest
<1> QED
  BY <1>1, <1>4, <1>5 DEF Able

(* Where the ideal run says that a thread knows a signal, a read returns   *)
(* the newest message.                                                     *)
LEMMA KnownIsNewest ==
    ASSUME NEW s, NEW a, OnCourse(s, a), NEW t \in Threads, NEW g \in Signals,
           <<t, g>> \in a.knows, NEW l \in Place(g), NEW k \in Readable(mem, t, l)
    PROVE  k = Newest(mem, l)
<1>1. mem.view[t][l] >= Newest(mem, l)
  BY DEF OnCourse, Follows, SameKnowledge
<1>2. l \in Locations
  BY Places
<1>3. mem.view[t][l] \in Nat /\ Newest(mem, l) \in Nat
  BY <1>2, MemoryTypes DEF OnCourse, TypeInv
<1> QED
  BY <1>1, <1>3 DEF Readable

LEMMA LoadStep ==
    ASSUME NEW s, NEW a, OnCourse(s, a), NEW t \in Threads, LoadCall(t)
    PROVE  Idles(s, a, t) \/ Advances(s, a, t)
<1> DEFINE c == Current(t)
<1>1. ~Finished(t) /\ c.op = "load" /\ UNCHANGED test
  BY DEF LoadCall, Calls
<1>2. c = CallOf(s, a, t) /\ ~Ended(s, a, t)
  BY <1>1, AtCall
<1>3. PICK k \in Readable(mem, t, Loc(t)) :
         mem' = Read(mem, t, Loc(t), k, c.ord) /\ Return(t, mem.hist[Loc(t)][k].val)
  BY DEF LoadCall, LoadOutcomes
<1> DEFINE v == mem.hist[Loc(t)][k].val
<1>4. CASE Waits(s, a, t)
  <2>1. c.then = "spin" /\ c.sig \in {"y", "z"} /\ Wanted(c) = c.want
    BY <1>1, <1>2, <1>4, DisciplineIs DEF WaitsOutside, Waits, Claims, Wanted
  <2>2. CASE v = c.want
    <3>1. k = Newest(mem, Loc(t)) /\ Able(s, a, t)
      BY <1>1, <1>4, <2>1, <2>2, WantedIsNewest
    <3>2. NextCall(t) /\ UNCHANGED failed
      BY <1>3, <2>1, <2>2 DEF Return
    <3> QED BY <1>1, <1>3, <3>1, <3>2 DEF Advances
  <2>3. CASE v # c.want
    <3>1. /\ pc' = pc \/ pc' = [pc EXCEPT ![t] = End(Prog(t)) + 1]
          /\ UNCHANGED <<ii, round, failed>>
      BY <1>3, <2>1, <2>3 DEF Return, Goto
    <3> QED BY <1>1, <1>3, <1>4, <2>1, <3>1 DEF Idles
  <2> QED BY <2>2, <2>3
<1>5. CASE ~Waits(s, a, t)
  <2>1. Able(s, a, t) /\ ~Claims(c)
    BY <1>2, <1>5, NoWaitIsAble DEF Waits
  <2>2. AsExpected(s, a, t)
    BY <2>1, DisciplineIs
  <2>3. /\ c.sig \in Signals /\ (c.sig = "x" => InEach(s, a, t))
        /\ <<t, c.sig>> \in a.knows /\ (c.then = "assert" => a.val[c.sig] = c.want)
    BY <1>1, <1>2, <2>1, <2>2 DEF AsExpected
  <2>4. Loc(t) \in Place(c.sig) /\ Latest(mem, Loc(t)) = a.val[c.sig]
    BY <1>1, <2>3, AtPlace
  <2>5. k = Newest(mem, Loc(t))
    BY <2>3, <2>4, KnownIsNewest
  <2>6. v = a.val[c.sig]
    BY <2>4, <2>5 DEF Latest
  <2>7. c.then # "spin"
    BY <2>1 DEF Claims
  <2>8. NextCall(t) /\ UNCHANGED failed
    BY <1>3, <2>3, <2>6, <2>7 DEF Return
  <2> QED BY <1>1, <1>3, <2>1, <2>5, <2>8 DEF Advances
<1> QED
  BY <1>4, <1>5

LEMMA WaitStep ==
    ASSUME NEW s, NEW a, OnCourse(s, a), NEW t \in Threads, WaitCall(t), ~EarlyWakes
    PROVE  Advances(s, a, t)
<1> DEFINE c == Current(t)
<1>1. ~Finished(t) /\ c.op = "wait" /\ UNCHANGED test
  BY DEF WaitCall, Calls
<1>2. c = CallOf(s, a, t) /\ ~Ended(s, a, t)
  BY <1>1, AtCall
<1>3. Waits(s, a, t) /\ Wanted(c) = c.val
  BY <1>1, <1>2 DEF Waits, Claims, Wanted
<1>4. c.then = "next"
  BY <1>1, <1>2, <1>3, DisciplineIs DEF WaitsOutside
<1>5. PICK k \in Readable(mem, t, Loc(t)) :
         /\ mem' = Read(mem, t, Loc(t), k, c.ord) /\ mem.hist[Loc(t)][k].val = c.val
         /\ Return(t, mem.hist[Loc(t)][k].val)
  BY DEF WaitCall, LoadOutcomes
<1>6. k = Newest(mem, Loc(t)) /\ Able(s, a, t)
  BY <1>1, <1>3, <1>5, WantedIsNewest
<1>7. NextCall(t) /\ UNCHANGED failed
  BY <1>4, <1>5 DEF Return
<1> QED
  BY <1>1, <1>5, <1>6, <1>7 DEF Advances

LEMMA CasStep ==
    ASSUME NEW s, NEW a, OnCourse(s, a), NEW t \in Threads, CasCall(t)
    PROVE  Idles(s, a, t) \/ Advances(s, a, t)
<1> DEFINE c == Current(t)
<1>1. ~Finished(t) /\ c.op = "cas" /\ UNCHANGED test
  BY DEF CasCall, Calls
<1>2. c = CallOf(s, a, t) /\ ~Ended(s, a, t)
  BY <1>1, AtCall
<1>3. NewValue(s, a, t) = c.val
  BY <1>1, <1>2 DEF NewValue, Writes, Written
<1>4. Waits(s, a, t) => /\ c.then = "spin" /\ c.sig \in {"y", "z"}
                        /\ c.want = c.old /\ Wanted(c) = c.want
  BY <1>1, <1>2, DisciplineIs DEF WaitsOutside, Waits, Claims, Wanted
<1>5. CASE /\ Latest(mem, Loc(t)) = c.old /\ Return(t, c.old)
           /\ mem' = Rmw(mem, t, Loc(t), c.val, c.ord)
  <2>1. Able(s, a, t)
    <3>1. CASE Waits(s, a, t)
      <4>1. Latest(mem, Loc(t)) = a.val[c.sig]
        BY <1>1, <1>4, <3>1, AtPlace DEF Signals
      <4> QED BY <1>2, <1>4, <1>5, <3>1, <4>1 DEF Able
    <3>2. CASE ~Waits(s, a, t)
      BY <1>2, <3>2, NoWaitIsAble
    <3> QED BY <3>1, <3>2
  <2>2. AsExpected(s, a, t)
    BY <2>1, DisciplineIs
  <2>3. /\ a.val[c.sig] = c.old
        /\ c.then = "assert" => a.val[c.sig] = c.want
    BY <1>1, <1>2, <2>2 DEF AsExpected
  <2>4. c.then = "spin" => c.want = c.old
    BY <1>2, <1>4 DEF Waits, Claims
  <2>5. NextCall(t) /\ UNCHANGED failed
    BY <1>5, <2>3, <2>4 DEF Return
  <2> QED BY <1>1, <1>3, <1>5, <2>1, <2>5 DEF Advances
<1>6. CASE \E k \in Readable(mem, t, Loc(t)) :
              /\ mem.hist[Loc(t)][k].val # c.old /\ Return(t, mem.hist[Loc(t)][k].val)
              /\ mem' = Read(mem, t, Loc(t), k, c.ord)
  <2> PICK k \in Readable(mem, t, Loc(t)) :
              /\ mem.hist[Loc(t)][k].val # c.old /\ Return(t, mem.hist[Loc(t)][k].val)
              /\ mem' = Read(mem, t, Loc(t), k, c.ord)
    BY <1>6
  <2>1. CASE Waits(s, a, t)
    <3>1. /\ pc' = pc \/ pc' = [pc EXCEPT ![t] = End(Prog(t)) + 1]
          /\ UNCHANGED <<ii, round, failed>>
      BY <1>4, <2>1 DEF Return, Goto
    <3> QED BY <1>1, <1>4, <2>1, <3>1 DEF Idles
  <2>2. CASE ~Waits(s, a, t)
    <3>1. Able(s, a, t) /\ ~Claims(c)
      BY <1>2, <2>2, NoWaitIsAble DEF Waits
    <3>2. AsExpected(s, a, t)
      BY <3>1, DisciplineIs
    <3>3. /\ c.sig \in Signals /\ (c.sig = "x" => InEach(s, a, t))
          /\ <<t, c.sig>> \in a.knows /\ a.val[c.sig] = c.old
      BY <1>1, <1>2, <3>1, <3>2 DEF AsExpected
    <3>4. Loc(t) \in Place(c.sig) /\ Latest(mem, Loc(t)) = a.val[c.sig]
      BY <1>1, <3>3, AtPlace
    <3>5. k = Newest(mem, Loc(t))
      BY <3>3, <3>4, KnownIsNewest
    <3> QED BY <3>3, <3>4, <3>5 DEF Latest
  <2> QED BY <2>1, <2>2
<1> QED
  <2>1. PICK out \in CasOutcomes(mem, t, Loc(t), c.old, c.val, c.ord) :
           mem' = out.mem /\ Return(t, out.ret)
    BY DEF CasCall
  <2>2. \/ /\ Latest(mem, Loc(t)) = c.old
           /\ out = [mem |-> Rmw(mem, t, Loc(t), c.val, c.ord), ret |-> c.old]
        \/ \E k \in Readable(mem, t, Loc(t)) :
              /\ mem.hist[Loc(t)][k].val # c.old
              /\ out = [mem |-> Read(mem, t, Loc(t), k, c.ord), ret |-> mem.hist[Loc(t)][k].val]
    BY <2>1 DEF CasOutcomes
  <2> HIDE DEF c
  <2> QED BY <1>5, <1>6, <2>1, <2>2

(* A call that writes is not a wait. *)
LEMMA StoreStep ==
    ASSUME NEW s, NEW a, OnCourse(s, a), NEW t \in Threads, StoreCall(t)
    PROVE  Advances(s, a, t)
<1> DEFINE c == Current(t)
<1>1. /\ ~Finished(t) /\ c.op = "store" /\ UNCHANGED test
      /\ mem' = Store(mem, t, Loc(t), c.val, c.ord) /\ Return(t, 0)
  BY DEF StoreCall, Calls
<1>2. c = CallOf(s, a, t) /\ ~Ended(s, a, t)
  BY <1>1, AtCall
<1>3. ~Waits(s, a, t)
  BY <1>1, <1>2, DisciplineIs DEF WaitsOutside
<1>4. Able(s, a, t) /\ c.then # "spin"
  BY <1>2, <1>3, NoWaitIsAble DEF Waits, Claims
<1>5. c.then # "assert"
  <2>1. AsExpected(s, a, t)
    BY <1>4, DisciplineIs
  <2> QED BY <1>1, <1>2, <2>1 DEF AsExpected
<1>6. NewValue(s, a, t) = c.val
  BY <1>1, <1>2 DEF NewValue, Writes, Written
<1>7. NextCall(t) /\ UNCHANGED failed
  BY <1>1, <1>4, <1>5 DEF Return
<1> QED
  BY <1>1, <1>4, <1>6, <1>7 DEF Advances

LEMMA RmwStep ==
    ASSUME NEW s, NEW a, OnCourse(s, a), NEW t \in Threads, RmwCall(t)
    PROVE  Advances(s, a, t)
<1> DEFINE c == Current(t)
<1>1. /\ ~Finished(t) /\ c.op \in {"exchange", "add", "subtract", "and", "or", "xor"}
      /\ UNCHANGED test
      /\ mem' = Rmw(mem, t, Loc(t), Combine(c.op, Latest(mem, Loc(t)), c.val), c.ord)
      /\ Return(t, Latest(mem, Loc(t)))
  BY DEF RmwCall, Calls
<1>2. c = CallOf(s, a, t) /\ ~Ended(s, a, t)
  BY <1>1, AtCall
<1>3. ~Waits(s, a, t)
  BY <1>1, <1>2, DisciplineIs DEF WaitsOutside
<1>4. Able(s, a, t) /\ c.then # "spin"
  BY <1>2, <1>3, NoWaitIsAble DEF Waits, Claims
<1>5. /\ c.sig \in Signals /\ (c.sig = "x" => InEach(s, a, t))
      /\ c.then = "assert" => a.val[c.sig] = c.want
  <2>1. AsExpected(s, a, t)
    BY <1>4, DisciplineIs
  <2> QED BY <1>2, <2>1 DEF AsExpected
<1>6. Latest(mem, Loc(t)) = a.val[c.sig]
  BY <1>1, <1>5, AtPlace
<1>7. NewValue(s, a, t) = Combine(c.op, Latest(mem, Loc(t)), c.val)
  BY <1>1, <1>2, <1>6 DEF NewValue, Writes, Written
<1>8. NextCall(t) /\ UNCHANGED failed
  BY <1>1, <1>4, <1>5, <1>6 DEF Return
<1> QED
  BY <1>1, <1>4, <1>7, <1>8 DEF Advances

LEMMA StepIs ==
    ASSUME NEW s, NEW a, OnCourse(s, a), NEW t \in Threads, Step(t), ~EarlyWakes
    PROVE  Idles(s, a, t) \/ Advances(s, a, t)
BY LoadStep, WaitStep, CasStep, StoreStep, RmwStep DEF Step

(***************************************************************************)
(* A thread that goes on waiting changes nothing the ideal run knows of.   *)
(***************************************************************************)
LEMMA IdleKeeps ==
    ASSUME NEW s, NEW a, OnCourse(s, a), NEW t \in Threads, ~Finished(t), Idles(s, a, t)
    PROVE  OnCourse(s, a)'
<1> DEFINE l == Loc(t)
<1>1. PICK k \in Readable(mem, t, l) : mem' = Read(mem, t, l, k, Current(t).ord)
  BY DEF Idles
<1>2. /\ Waits(s, a, t) /\ UNCHANGED <<test, ii, round, failed>>
      /\ pc' = pc \/ pc' = [pc EXCEPT ![t] = End(Prog(t)) + 1]
  BY DEF Idles
<1>3. /\ TypeInv /\ SamePlace(s, a) /\ SameValues(s, a) /\ SameKnowledge(a)
      /\ NoStaleClaim(s, a) /\ Memory(mem, Threads, Locations)
  BY DEF OnCourse, Follows, TypeInv
<1>4. l \in Locations
  BY AtPlace DEF Idles, Signals
<1>5. /\ Memory(mem', Threads, Locations) /\ mem'.hist = mem.hist
      /\ \A n \in Locations : Newest(mem', n) = Newest(mem, n) /\ Latest(mem', n) = Latest(mem, n)
      /\ \A u \in Threads \ {t} : mem'.view[u] = mem.view[u]
      /\ \A n \in Locations : mem'.view[t][n] >= mem.view[t][n]
  <2> HIDE DEF l
  <2> QED BY <1>1, <1>3, <1>4, ReadIs
<1>6. Threads' = Threads /\ \A u \in Threads : Prog(u)' = Prog(u)
  BY <1>2 DEF Threads, Prog
<1>7. WellFormed(s.threads[t]) /\ Prog(t) = s.threads[t] /\ Y \in Locations /\ Z \in Locations
      /\ 1..NumX \subseteq Locations
  BY DisciplineIs, Places DEF Signals
<1>8. pc' \in [Threads -> Nat] /\ \A u \in Threads \ {t} : pc'[u] = pc[u]
  BY <1>2, <1>3, <1>7 DEF TypeInv, WellFormed
<1>9. TypeInv'
  BY <1>2, <1>3, <1>5, <1>6, <1>8 DEF TypeInv
<1>10. SamePlace(s, a)'
  <2> SUFFICES ASSUME NEW u \in Threads
               PROVE  /\ pc'[u] = a.pos[u] \/ (pc'[u] > End(Prog(u)) /\ Waits(s, a, u))
                      /\ ii'[u] \in 1..NumX /\ (~InEach(s, a, u) => ii'[u] = 1)
    BY <1>6 DEF SamePlace, Finished
  <2>1. /\ pc[u] = a.pos[u] \/ (pc[u] > End(Prog(u)) /\ Waits(s, a, u))
        /\ ii[u] \in 1..NumX /\ (~InEach(s, a, u) => ii[u] = 1)
    BY <1>3 DEF SamePlace, Finished
  <2>2. pc'[u] = pc[u] \/ (u = t /\ pc'[u] = End(Prog(u)) + 1)
    BY <1>2, <1>3, <1>8 DEF TypeInv
  <2>3. End(Prog(t)) \in Nat
    BY <1>7 DEF WellFormed
  <2> QED BY <1>2, <2>1, <2>2, <2>3
<1>11. SameValues(s, a)'
  <2>1. Latest(mem', Y) = Latest(mem, Y) /\ Latest(mem', Z) = Latest(mem, Z)
        /\ \A x \in 1..NumX : Latest(mem', x) = Latest(mem, x)
    BY <1>5, <1>7
  <2> QED BY <1>2, <1>3, <1>6, <2>1 DEF SameValues
<1>12. \A u \in Threads, n \in Locations : mem'.view[u][n] >= mem.view[u][n]
  <2>1. \A u \in Threads, n \in Locations : mem.view[u][n] \in Nat
    BY <1>3, MemoryTypes
  <2> QED BY <1>5, <2>1
<1>13. SameKnowledge(a)'
  <2>1. ASSUME NEW u \in Threads, NEW g \in Signals, <<u, g>> \in a.knows, NEW n \in Place(g)
        PROVE  mem'.view[u][n] >= Newest(mem', n)
    <3>1. n \in Locations
      BY Places
    <3>2. mem.view[u][n] >= Newest(mem, n)
      BY <1>3, <2>1 DEF SameKnowledge
    <3>3. mem'.view[u][n] >= mem.view[u][n] /\ Newest(mem', n) = Newest(mem, n)
      BY <1>5, <1>12, <3>1
    <3>4. mem'.view[u][n] \in Nat /\ mem.view[u][n] \in Nat /\ Newest(mem, n) \in Nat
      BY <1>3, <1>5, <3>1, MemoryTypes
    <3> QED BY <3>2, <3>3, <3>4
  <2>2. ASSUME NEW g \in a.pub, NEW n \in Place(g), NEW x \in 1..NumX
        PROVE  mem'.hist[n][Newest(mem', n)].rel[x] >= Newest(mem', x)
    <3>1. g \in Signals
      BY DisciplineIs DEF IdealTypes, Signals
    <3>2. n \in Locations /\ x \in Locations
      BY <1>7, <3>1, Places
    <3> QED BY <1>3, <1>5, <3>2 DEF SameKnowledge
  <2> QED BY <1>6, <2>1, <2>2 DEF SameKnowledge
<1>14. NoStaleClaim(s, a)'
  <2> SUFFICES ASSUME NEW u \in Threads, Waits(s, a, u), NEW n \in Place(CallOf(s, a, u).sig),
                      NEW i \in Readable(mem', u, n),
                      mem'.hist[n][i].val = Wanted(CallOf(s, a, u))
               PROVE  i = Newest(mem', n)
    BY <1>6 DEF NoStaleClaim
  <2>1. CallOf(s, a, u).sig \in Signals
    BY DisciplineIs DEF WaitsOutside, Signals
  <2>2. n \in Locations
    BY <2>1, Places
  <2>3. i \in Readable(mem, u, n)
    <3>1. mem'.view[u][n] >= mem.view[u][n] /\ Newest(mem', n) = Newest(mem, n)
      BY <1>5, <1>12, <2>2
    <3>2. mem'.view[u][n] \in Nat /\ mem.view[u][n] \in Nat /\ Newest(mem, n) \in Nat
      BY <1>3, <1>5, <2>2, MemoryTypes
    <3> QED BY <3>1, <3>2 DEF Readable
  <2> QED BY <1>3, <1>5, <2>2, <2>3 DEF NoStaleClaim
<1> QED
  <2>1. Disciplined(test)' /\ (Suite[test])' = Suite[test] /\ (Ideal[test])' = Ideal[test]
    BY <1>2 DEF OnCourse
  <2> QED BY <1>9, <1>10, <1>11, <1>13, <1>14, <2>1 DEF OnCourse, Follows

(***************************************************************************)
(* A thread that goes on.                                                  *)
(***************************************************************************)
(* The effect of its call on the memory. *)
Effect(s, a, t, l) ==
    LET c == Current(t)
    IN  /\ Memory(mem', Threads, Locations)
        /\ Latest(mem', l) = NewValue(s, a, t)
        /\ mem'.view[t][l] >= Newest(mem', l)
        /\ \A u \in Threads \ {t} : mem'.view[u] = mem.view[u]
        /\ \A n \in Locations \ {l} :
              /\ Newest(mem', n) = Newest(mem, n) /\ Latest(mem', n) = Latest(mem, n)
              /\ mem'.hist[n] = mem.hist[n]
              /\ mem'.view[t][n] >= mem.view[t][n]
              /\ c.op # "store" /\ Acquires(c.ord) =>
                    mem'.view[t][n] >= mem.hist[l][Newest(mem, l)].rel[n]
        /\ ~Writes(c) => mem'.hist = mem.hist /\ Newest(mem', l) = Newest(mem, l)
        /\ Writes(c) =>
              /\ Newest(mem', l) = Newest(mem, l) + 1
              /\ \A k \in 1..Newest(mem, l) : mem'.hist[l][k] = mem.hist[l][k]
              /\ \A n \in Locations \ {l} :
                    /\ c.op # "store" =>
                          mem'.hist[l][Newest(mem', l)].rel[n]
                             >= mem.hist[l][Newest(mem, l)].rel[n]
                    /\ Releases(c.ord) =>
                          mem'.hist[l][Newest(mem', l)].rel[n] >= mem'.view[t][n]

LEMMA EffectIs ==
    ASSUME NEW s, NEW a, OnCourse(s, a), NEW t \in Threads, ~Finished(t), Advances(s, a, t),
           NEW l, l = Loc(t), l \in Locations, NewValue(s, a, t) \in Int,
           Latest(mem, l) = a.val[Current(t).sig]
    PROVE  Effect(s, a, t, l)
<1> DEFINE c == Current(t)
           v == NewValue(s, a, t)
<1>1. Memory(mem, Threads, Locations)
  BY DEF OnCourse, TypeInv
<1>2. c = CallOf(s, a, t)
  BY AtCall
<1>3. CASE /\ c.op \in {"load", "wait"}
           /\ mem' = Read(mem, t, l, Newest(mem, l), c.ord)
  <2>1. ~Writes(c) /\ c.op # "store"
    BY <1>3 DEF Writes
  <2>2. v = Latest(mem, l)
    BY <1>2, <2>1 DEF NewValue
  <2>3. Newest(mem, l) \in Readable(mem, t, l)
    BY <1>1, MemoryTypes DEF Readable
  <2> HIDE DEF c, v
  <2>4. /\ Memory(mem', Threads, Locations) /\ mem'.hist = mem.hist
        /\ \A n \in Locations : Newest(mem', n) = Newest(mem, n) /\ Latest(mem', n) = Latest(mem, n)
        /\ \A u \in Threads \ {t} : mem'.view[u] = mem.view[u]
        /\ \A n \in Locations : mem'.view[t][n] >= mem.view[t][n]
        /\ mem'.view[t][l] >= Newest(mem, l)
        /\ Acquires(c.ord) =>
              \A n \in Locations : mem'.view[t][n] >= mem.hist[l][Newest(mem, l)].rel[n]
    BY <1>1, <1>3, <2>3, ReadIs
  <2> QED BY <2>1, <2>2, <2>4 DEF Effect, c, v
<1>4. CASE c.op = "store" /\ mem' = Store(mem, t, l, v, c.ord)
  <2>1. Writes(c)
    BY <1>4 DEF Writes
  <2> HIDE DEF c, v
  <2>2. /\ WriteOf(mem, mem', Threads, Locations, t, l, v)
        /\ Releases(c.ord) => \A n \in Locations \ {l} :
                                 mem'.hist[l][Newest(mem', l)].rel[n] >= mem'.view[t][n]
    BY <1>1, <1>4, StoreIs DEF v
  <2>3. Newest(mem', l) \in Nat
    BY <2>2, MemoryTypes DEF WriteOf
  <2> QED BY <1>4, <2>1, <2>2, <2>3 DEF Effect, WriteOf, c, v
<1>5. CASE c.op \notin {"load", "wait", "store"} /\ mem' = Rmw(mem, t, l, v, c.ord)
  <2>1. Writes(c)
    BY <1>5 DEF Writes
  <2> HIDE DEF c, v
  <2>2. /\ WriteOf(mem, mem', Threads, Locations, t, l, v)
        /\ \A n \in Locations \ {l} :
             /\ mem'.hist[l][Newest(mem', l)].rel[n] >= mem.hist[l][Newest(mem, l)].rel[n]
             /\ Acquires(c.ord) => mem'.view[t][n] >= mem.hist[l][Newest(mem, l)].rel[n]
             /\ Releases(c.ord) => mem'.hist[l][Newest(mem', l)].rel[n] >= mem'.view[t][n]
    BY <1>1, <1>5, RmwIs DEF v
  <2>3. Newest(mem', l) \in Nat
    BY <2>2, MemoryTypes DEF WriteOf
  <2> QED BY <1>5, <2>1, <2>2, <2>3 DEF Effect, WriteOf, c, v
<1> QED
  BY <1>3, <1>4, <1>5 DEF Advances

(* Everything the rest of the proof needs about such a step. *)
Going(s, a, t) ==
    /\ OnCourse(s, a) /\ t \in Threads /\ Able(s, a, t) /\ test' = test
    /\ Current(t) = CallOf(s, a, t) /\ Current(t).sig \in Signals
    /\ Current(t).sig = "x" => Loc(t) = ii[t] /\ InEach(s, a, t)
    /\ InHold(s, a, t) => <<t, "x">> \in a.knows
    /\ Loc(t) \in Place(Current(t).sig) /\ Loc(t) \in Locations
    /\ \A g \in Signals \ {Current(t).sig} : Loc(t) \notin Place(g)
    /\ Memory(mem, Threads, Locations) /\ Effect(s, a, t, Loc(t))
    /\ Threads' = Threads /\ \A u \in Threads : Prog(u)' = Prog(u)

LEMMA GoingIs ==
    ASSUME NEW s, NEW a, OnCourse(s, a), NEW t \in Threads, ~Finished(t), Advances(s, a, t)
    PROVE  Going(s, a, t)
<1>1. Able(s, a, t) /\ UNCHANGED test
  BY DEF Advances
<1>2. AsExpected(s, a, t)
  BY <1>1, DisciplineIs
<1>3. Current(t) = CallOf(s, a, t)
  BY AtCall
<1>4. /\ Current(t).sig \in Signals /\ (Current(t).sig = "x" => InEach(s, a, t))
      /\ InHold(s, a, t) => <<t, "x">> \in a.knows
      /\ NewValue(s, a, t) \in Int
  BY <1>2, <1>3 DEF AsExpected
<1>5. /\ Loc(t) \in Place(Current(t).sig) /\ Loc(t) \in Locations
      /\ Current(t).sig = "x" => Loc(t) = ii[t]
      /\ \A g \in Signals \ {Current(t).sig} : Loc(t) \notin Place(g)
      /\ Latest(mem, Loc(t)) = a.val[Current(t).sig]
  BY <1>4, AtPlace
<1>6. Effect(s, a, t, Loc(t))
  BY <1>4, <1>5, EffectIs
<1>7. Threads' = Threads /\ \A u \in Threads : Prog(u)' = Prog(u)
  BY <1>1 DEF Threads, Prog
<1> QED
  BY <1>1, <1>3, <1>4, <1>5, <1>6, <1>7 DEF Going, OnCourse, TypeInv

(* The newest values after the call. *)
LEMMA GoingValues ==
    ASSUME NEW s, NEW a, NEW t, Going(s, a, t), ~Finished(t)
    PROVE  /\ Latest(mem', Y) = NewVal(s, a, t)["y"] /\ Latest(mem', Z) = NewVal(s, a, t)["z"]
           /\ NewVal(s, a, t) \in [Signals -> Int]
           /\ \A x \in 1..NumX :
                 Latest(mem', x) = IF Current(t).sig = "x" /\ x = ii[t]
                                     THEN NewVal(s, a, t)["x"] ELSE Latest(mem, x)
           /\ Current(t).sig # "x" => NewVal(s, a, t)["x"] = a.val["x"]
<1> DEFINE c == Current(t)
           l == Loc(t)
           w == NewVal(s, a, t)
<1>1. /\ c = CallOf(s, a, t) /\ c.sig \in Signals /\ OnCourse(s, a) /\ t \in Threads
      /\ l \in Place(c.sig) /\ l \in Locations /\ \A g \in Signals \ {c.sig} : l \notin Place(g)
      /\ c.sig = "x" => l = ii[t]
      /\ Latest(mem', l) = NewValue(s, a, t)
      /\ \A n \in Locations \ {l} : Latest(mem', n) = Latest(mem, n)
      /\ Memory(mem', Threads, Locations)
  BY DEF Going, Effect
<1>2. a.val \in [Signals -> Int]
  BY <1>1, DisciplineIs DEF IdealTypes
<1>3. w = [a.val EXCEPT ![c.sig] = NewValue(s, a, t)]
  BY <1>1 DEF NewVal
<1>4. NewValue(s, a, t) \in Int
  BY <1>1, MemoryTypes
<1>5. /\ w \in [Signals -> Int] /\ w[c.sig] = NewValue(s, a, t)
      /\ \A g \in Signals \ {c.sig} : w[g] = a.val[g]
  <2> HIDE DEF c
  <2> QED BY <1>1, <1>2, <1>3, <1>4
<1>6. Latest(mem, Y) = a.val["y"] /\ Latest(mem, Z) = a.val["z"]
  BY <1>1 DEF OnCourse, Follows, SameValues
<1>7. /\ Y \in Locations /\ Z \in Locations /\ \A x \in 1..NumX : x \in Locations
  BY Places DEF Signals
<1> HIDE DEF c, l, w
<1>8. Latest(mem', Y) = w["y"]
  <2>1. CASE c.sig = "y"
    <3>1. l = Y
      BY <1>1, <2>1, Places
    <3> QED BY <1>1, <1>5, <2>1, <3>1
  <2>2. CASE c.sig # "y"
    <3>1. Y # l /\ w["y"] = a.val["y"]
      BY <1>1, <1>5, <2>2, Places DEF Signals
    <3> QED BY <1>1, <1>6, <1>7, <3>1
  <2> QED BY <2>1, <2>2
<1>9. Latest(mem', Z) = w["z"]
  <2>1. CASE c.sig = "z"
    <3>1. l = Z
      BY <1>1, <2>1, Places
    <3> QED BY <1>1, <1>5, <2>1, <3>1
  <2>2. CASE c.sig # "z"
    <3>1. Z # l /\ w["z"] = a.val["z"]
      BY <1>1, <1>5, <2>2, Places DEF Signals
    <3> QED BY <1>1, <1>6, <1>7, <3>1
  <2> QED BY <2>1, <2>2
<1>10. ASSUME NEW x \in 1..NumX
       PROVE  Latest(mem', x) = IF c.sig = "x" /\ x = ii[t] THEN w["x"] ELSE Latest(mem, x)
  <2>1. CASE c.sig = "x" /\ x = ii[t]
    BY <1>1, <1>5, <2>1
  <2>2. CASE c.sig = "x" /\ x # ii[t]
    BY <1>1, <1>7, <2>2
  <2>3. CASE c.sig # "x"
    <3>1. x # l
      BY <1>1, <2>3, Places DEF Signals
    <3> QED BY <1>1, <1>7, <2>3, <3>1
  <2> QED BY <2>1, <2>2, <2>3
<1>11. c.sig # "x" => w["x"] = a.val["x"]
  BY <1>5 DEF Signals
<1> QED
  BY <1>5, <1>8, <1>9, <1>10, <1>11 DEF c, w

(* What the threads know and the messages publish after the call. *)
KnowledgeAfter(s, a, t) ==
    /\ \A u \in Threads : \A g \in Signals : <<u, g>> \in NewKnows(s, a, t) =>
          \A n \in Place(g) : mem'.view[u][n] >= Newest(mem', n)
    /\ \A g \in NewPub(s, a, t) : \A n \in Place(g) : \A x \in 1..NumX :
          mem'.hist[n][Newest(mem', n)].rel[x] >= Newest(mem', x)

(* A location other than that of the call keeps its messages; a thread     *)
(* that had seen its newest one still has.                                 *)
LEMMA StillKnows ==
    ASSUME NEW s, NEW a, NEW t, Going(s, a, t), NEW u \in Threads, NEW g \in Signals,
           <<u, g>> \in a.knows, NEW n \in Place(g),
           n # Loc(t) \/ ~Writes(Current(t))
    PROVE  mem'.view[u][n] >= Newest(mem', n)
<1>1. n \in Locations /\ Loc(t) \in Locations /\ t \in Threads
  BY Places DEF Going
<1>2. mem.view[u][n] >= Newest(mem, n)
  BY DEF Going, OnCourse, Follows, SameKnowledge
<1>3. /\ mem'.view[u][n] \in Nat /\ mem.view[u][n] \in Nat
      /\ Newest(mem, n) \in Nat /\ Newest(mem', n) \in Nat
  BY <1>1, MemoryTypes DEF Going, Effect
<1>4. CASE n = Loc(t) /\ u = t
  BY <1>4 DEF Going, Effect
<1>5. CASE n # Loc(t) /\ u = t
  <2>1. Newest(mem', n) = Newest(mem, n) /\ mem'.view[t][n] >= mem.view[t][n]
    BY <1>1, <1>5 DEF Going, Effect
  <2> QED BY <1>2, <1>3, <1>5, <2>1
<1>6. CASE u # t
  <2>1. mem'.view[u] = mem.view[u]
    BY <1>6 DEF Going, Effect
  <2>2. Newest(mem', n) = Newest(mem, n)
    BY <1>1 DEF Going, Effect
  <2> QED BY <1>2, <2>1, <2>2
<1> QED
  BY <1>4, <1>5, <1>6

LEMMA GoingKnowledge ==
    ASSUME NEW s, NEW a, NEW t, Going(s, a, t)
    PROVE  KnowledgeAfter(s, a, t)
<1> DEFINE c == Current(t)
           l == Loc(t)
<1>1. /\ c = CallOf(s, a, t) /\ c.sig \in Signals /\ OnCourse(s, a) /\ t \in Threads
      /\ l \in Place(c.sig) /\ l \in Locations /\ \A g \in Signals \ {c.sig} : l \notin Place(g)
      /\ c.sig = "x" => l = ii[t] /\ InEach(s, a, t)
      /\ InHold(s, a, t) => <<t, "x">> \in a.knows
      /\ mem'.view[t][l] >= Newest(mem', l)
      /\ Memory(mem, Threads, Locations) /\ Memory(mem', Threads, Locations)
  BY DEF Going, Effect
<1>2. /\ c.sig = "x" => <<t, "x">> \in a.knows
      /\ a.pub \subseteq {"y", "z"} /\ Threads = DOMAIN s.threads
  <2>1. WellFormed(s.threads[t]) /\ IdealTypes(s, a) /\ Threads = DOMAIN s.threads
    BY <1>1, DisciplineIs
  <2>2. InEach(s, a, t) => InHold(s, a, t)
    BY <1>1, <2>1 DEF InEach, InHold, WellFormed, IdealTypes
  <2> QED BY <1>1, <2>1, <2>2 DEF IdealTypes
<1>3. \A g \in {"y", "z"} : \A n \in Place(g) : n \in Locations /\ n \notin 1..NumX
  BY Places DEF Signals
<1>4. 1..NumX \subseteq Locations
  BY Places DEF Signals
<1>5. \A g \in a.pub : \A n \in Place(g) : \A x \in 1..NumX :
          mem.hist[n][Newest(mem, n)].rel[x] >= Newest(mem, x)
  BY <1>1 DEF OnCourse, Follows, SameKnowledge
<1>6. c.sig \in {"y", "z"} => Place(c.sig) = {l}
  BY <1>1, Places
<1>7. c.sig # "x" => \A x \in 1..NumX : x # l /\ Newest(mem', x) = Newest(mem, x)
  <2> SUFFICES ASSUME c.sig # "x", NEW x \in 1..NumX
               PROVE  x # l /\ Newest(mem', x) = Newest(mem, x)
    OBVIOUS
  <2>1. x # l
    BY <1>1, Places DEF Signals
  <2> QED BY <1>4, <2>1 DEF Going, Effect
<1> HIDE DEF c, l
<1>8. ASSUME NEW u \in Threads, NEW g \in Signals, <<u, g>> \in NewKnows(s, a, t),
             NEW n \in Place(g)
      PROVE  mem'.view[u][n] >= Newest(mem', n)
  <2>1. IF Writes(c) /\ g = c.sig THEN u = t ELSE Knows(s, a, t, u, g)
    BY <1>1, <1>8 DEF NewKnows
  <2>2. CASE n = l /\ u = t
    BY <1>1, <2>2
  <2>3. CASE Writes(c) /\ g = c.sig /\ n # l
    <3>1. g = "x" /\ u = t
      BY <1>1, <1>6, <2>1, <2>3 DEF Signals
    <3> QED BY <1>1, <1>2, <2>3, <3>1, StillKnows DEF l
  <2>4. CASE ~(Writes(c) /\ g = c.sig) /\ <<u, g>> \in a.knows
    <3>1. n # l \/ ~Writes(c)
      BY <1>1, <2>4
    <3> QED BY <2>4, <3>1, StillKnows DEF c, l
  <2>5. CASE ~(Writes(c) /\ g = c.sig) /\ <<u, g>> \notin a.knows /\ ~(n = l /\ u = t)
    <3>1. u = t /\ g \in Learns(s, a, t)
      BY <2>1, <2>5 DEF Knows
    <3>2. g = "x" /\ c.op # "store" /\ Acquires(c.ord) /\ c.sig \in a.pub
      BY <1>1, <1>2, <1>6, <2>5, <3>1 DEF Learns, Signals
    <3>3. n \in 1..NumX /\ n \in Locations /\ n # l /\ Newest(mem', n) = Newest(mem, n)
      BY <1>2, <1>4, <1>7, <3>2, Places
    <3>4. mem'.view[t][n] >= mem.hist[l][Newest(mem, l)].rel[n]
      BY <3>2, <3>3 DEF Going, Effect, c, l
    <3>5. mem.hist[l][Newest(mem, l)].rel[n] >= Newest(mem, n)
      BY <1>1, <1>5, <3>2, <3>3
    <3>6. /\ mem'.view[t][n] \in Nat /\ Newest(mem, n) \in Nat
          /\ mem.hist[l][Newest(mem, l)].rel[n] \in Nat
      BY <1>1, <3>3, MemoryTypes DEF Views
    <3> QED BY <3>1, <3>3, <3>4, <3>5, <3>6
  <2> QED
    BY <2>1, <2>2, <2>3, <2>4, <2>5
<1>9. ASSUME NEW g \in NewPub(s, a, t), NEW n \in Place(g), NEW x \in 1..NumX
      PROVE  mem'.hist[n][Newest(mem', n)].rel[x] >= Newest(mem', x)
  <2>1. /\ g \in {"y", "z"} /\ n \in Locations /\ x \in Locations /\ n # x
        /\ IF Writes(c) /\ c.sig = g
             THEN \/ c.op # "store" /\ g \in a.pub
                  \/ Releases(c.ord) /\ Knows(s, a, t, t, "x")
             ELSE g \in a.pub /\ ~(Writes(c) /\ c.sig = "x")
    BY <1>1, <1>3, <1>4 DEF NewPub
  <2>2. CASE Writes(c) /\ c.sig = g
    <3>1. n = l /\ x # l /\ Newest(mem', x) = Newest(mem, x)
      BY <1>6, <1>7, <2>1, <2>2
    <3>2. CASE c.op # "store" /\ g \in a.pub
      <4>1. mem'.hist[l][Newest(mem', l)].rel[x] >= mem.hist[l][Newest(mem, l)].rel[x]
        BY <2>1, <2>2, <3>1, <3>2 DEF Going, Effect, c, l
      <4>2. mem.hist[l][Newest(mem, l)].rel[x] >= Newest(mem, x)
        BY <1>5, <3>1, <3>2
      <4>3. /\ mem'.hist[l][Newest(mem', l)].rel[x] \in Nat /\ Newest(mem, x) \in Nat
            /\ mem.hist[l][Newest(mem, l)].rel[x] \in Nat
        BY <1>1, <2>1, MemoryTypes DEF Views
      <4> QED BY <3>1, <4>1, <4>2, <4>3
    <3>3. CASE Releases(c.ord) /\ Knows(s, a, t, t, "x")
      <4>1. <<t, "x">> \in NewKnows(s, a, t)
        <5>1. <<t, "x">> \in (DOMAIN s.threads) \X Signals
          BY <1>1, <1>2 DEF Signals
        <5>2. c.sig # "x"
          BY <2>1, <2>2
        <5> QED BY <1>1, <3>3, <5>1, <5>2 DEF NewKnows
      <4>2. mem'.view[t][x] >= Newest(mem', x)
        BY <1>1, <1>8, <4>1, Places DEF Signals
      <4>3. mem'.hist[l][Newest(mem', l)].rel[x] >= mem'.view[t][x]
        BY <2>1, <2>2, <3>1, <3>3 DEF Going, Effect, c, l
      <4>4. /\ mem'.hist[l][Newest(mem', l)].rel[x] \in Nat /\ Newest(mem', x) \in Nat
            /\ mem'.view[t][x] \in Nat
        BY <1>1, <2>1, MemoryTypes DEF Views
      <4> QED BY <3>1, <4>2, <4>3, <4>4
    <3> QED BY <2>1, <2>2, <3>2, <3>3
  <2>3. CASE ~(Writes(c) /\ c.sig = g)
    <3>1. mem'.hist[n] = mem.hist[n] /\ Newest(mem', n) = Newest(mem, n)
      <4>1. CASE Writes(c)
        <5>1. n # l
          BY <1>1, <2>1, <2>3, <4>1 DEF Signals
        <5> QED BY <2>1, <5>1 DEF Going, Effect, l
      <4>2. CASE ~Writes(c)
        <5>1. mem'.hist = mem.hist
          BY <4>2 DEF Going, Effect, c
        <5> QED BY <5>1 DEF Newest
      <4> QED BY <4>1, <4>2
    <3>2. Newest(mem', x) = Newest(mem, x)
      <4>1. CASE Writes(c)
        BY <1>7, <2>1, <2>3, <4>1
      <4>2. CASE ~Writes(c)
        <5>1. mem'.hist = mem.hist
          BY <4>2 DEF Going, Effect, c
        <5> QED BY <5>1 DEF Newest
      <4> QED BY <4>1, <4>2
    <3> QED BY <1>5, <2>1, <2>3, <3>1, <3>2
  <2> QED BY <2>2, <2>3
<1> QED
  BY <1>8, <1>9 DEF KnowledgeAfter

(* The other threads still cannot find in an old message what they wait    *)
(* for: the newest message becomes an old one, but nobody else was able.   *)
LEMMA GoingClaims ==
    ASSUME NEW s, NEW a, NEW t, Going(s, a, t),
           NEW u \in Threads, u # t, Waits(s, a, u),
           NEW n \in Place(CallOf(s, a, u).sig), NEW i \in Readable(mem', u, n),
           mem'.hist[n][i].val = Wanted(CallOf(s, a, u))
    PROVE  i = Newest(mem', n)
<1> DEFINE c == Current(t)
           l == Loc(t)
           d == CallOf(s, a, u)
<1>1. /\ OnCourse(s, a) /\ t \in Threads /\ Able(s, a, t) /\ l \in Locations
      /\ mem'.view[u] = mem.view[u]
      /\ Memory(mem, Threads, Locations) /\ Memory(mem', Threads, Locations)
  BY DEF Going, Effect
<1>2. d.sig \in {"y", "z"}
  BY <1>1, DisciplineIs DEF WaitsOutside
<1>3. n \in Locations
  BY <1>2, Places DEF Signals
<1>4. /\ Newest(mem, n) \in Nat /\ Newest(mem', n) \in Nat /\ mem.view[u][n] \in Nat \ {0}
  BY <1>1, <1>3, MemoryTypes
<1>5. i \in mem.view[u][n] .. Newest(mem', n)
  BY <1>1 DEF Readable
<1>6. \/ Newest(mem', n) = Newest(mem, n) /\ mem'.hist[n] = mem.hist[n]
      \/ /\ Newest(mem', n) = Newest(mem, n) + 1
         /\ \A k \in 1..Newest(mem, n) : mem'.hist[n][k] = mem.hist[n][k]
  <2>1. CASE n # l
    BY <1>3, <2>1 DEF Going, Effect
  <2>2. CASE n = l
    BY <2>2 DEF Going, Effect
  <2> QED BY <2>1, <2>2
<1>7. CASE i > Newest(mem, n)
  BY <1>4, <1>5, <1>6, <1>7
<1>8. CASE i <= Newest(mem, n)
  <2>1. i \in Readable(mem, u, n) /\ mem'.hist[n][i] = mem.hist[n][i]
    BY <1>4, <1>5, <1>6, <1>8 DEF Readable
  <2>2. i = Newest(mem, n)
    BY <1>1, <2>1 DEF OnCourse, Follows, NoStaleClaim
  <2>3. Latest(mem, n) = Wanted(d)
    BY <2>1, <2>2 DEF Latest
  <2>4. Latest(mem, n) = a.val[d.sig]
    <3>1. Latest(mem, Y) = a.val["y"] /\ Latest(mem, Z) = a.val["z"]
      BY <1>1 DEF OnCourse, Follows, SameValues
    <3> QED BY <1>2, <3>1, Places
  <2>5. Able(s, a, u)
    BY <2>3, <2>4 DEF Able, Waits
  <2> QED BY <1>1, <2>5, DisciplineIs
<1> QED
  BY <1>4, <1>5, <1>7, <1>8

(* Only the thread that is able to go on works on the x signals. *)
LEMMA AloneInEach ==
    ASSUME NEW s, NEW a, OnCourse(s, a), NEW t \in Threads, Able(s, a, t),
           NEW u \in Threads, InEach(s, a, u)
    PROVE  u = t
<1>1. WellFormed(s.threads[u]) /\ IdealTypes(s, a) /\ WaitsOutside(s, a, u)
      /\ Threads = DOMAIN s.threads
  BY DisciplineIs
<1>2. InHold(s, a, u) /\ ~Ended(s, a, u)
  BY <1>1 DEF InEach, InHold, Ended, WellFormed, IdealTypes
<1>3. ~Waits(s, a, u)
  BY <1>1, <1>2 DEF WaitsOutside
<1> QED
  BY <1>2, <1>3, NoWaitIsAble, DisciplineIs

(* The values of the x signals as the ideal run has them, for a thread     *)
(* that has come to signal j.                                              *)
XValues(s, b, t, j) ==
    \A x \in 1..NumX :
        IF InEach(s, b, t)
          THEN /\ x < j => Latest(mem', x) \in b.done
               /\ x = j => Latest(mem', x) = b.val["x"]
               /\ x > j => Latest(mem', x) = b.pre
          ELSE Latest(mem', x) = b.val["x"]

(* If the thread is where a next state of the ideal run has it and the     *)
(* values agree, the test is on course.                                    *)
LEMMA MovedKeeps ==
    ASSUME NEW s, NEW a, NEW t, Going(s, a, t), ~Finished(t),
           NEW q \in Nat, NEW val, NEW pre, NEW done,
           NEW b, b = Moved(s, a, t, q, val, pre, done), b \in IdealNext(s, a, t),
           NEW j \in 1..NumX, pc' = [pc EXCEPT ![t] = q], ii' = [ii EXCEPT ![t] = j],
           round' \in [Threads -> Nat], failed' = failed,
           ~InEach(s, b, t) => j = 1, XValues(s, b, t, j),
           val["y"] = NewVal(s, a, t)["y"], val["z"] = NewVal(s, a, t)["z"]
    PROVE  OnCourse(s, b)'
<1>1. /\ OnCourse(s, a) /\ t \in Threads /\ Able(s, a, t) /\ test' = test
      /\ Threads' = Threads /\ \A u \in Threads : Prog(u)' = Prog(u)
      /\ Memory(mem', Threads, Locations)
  BY DEF Going, Effect
<1>2. /\ TypeInv /\ SamePlace(s, a)
      /\ pc \in [Threads -> Nat] /\ ii \in [Threads -> Nat]
  BY <1>1 DEF OnCourse, Follows, TypeInv
<1>3. /\ b.pos = [a.pos EXCEPT ![t] = q] /\ b.val = val /\ b.pre = pre /\ b.done = done
      /\ b.knows = NewKnows(s, a, t) /\ b.pub = NewPub(s, a, t)
  BY DEF Moved
<1>4. IdealTypes(s, a) /\ Threads = DOMAIN s.threads /\ EndsWell(s, a, t)
      /\ IdealNext(s, a, t) \subseteq Ideal[test]
  BY <1>1, DisciplineIs
<1>5. b.pos[t] = q /\ \A u \in Threads \ {t} : b.pos[u] = a.pos[u]
  BY <1>1, <1>3, <1>4 DEF IdealTypes
<1>6. \A u \in Threads \ {t} : /\ Waits(s, b, u) = Waits(s, a, u)
                               /\ CallOf(s, b, u) = CallOf(s, a, u)
                               /\ InEach(s, b, u) = InEach(s, a, u)
  BY <1>5 DEF Waits, Ended, CallOf, InEach
<1>7. TypeInv'
  BY <1>1, <1>2 DEF TypeInv
<1>8. SamePlace(s, b)'
  <2> SUFFICES ASSUME NEW u \in Threads
               PROVE  /\ pc'[u] = b.pos[u] \/ (pc'[u] > End(Prog(u)) /\ Waits(s, b, u))
                      /\ ii'[u] \in 1..NumX /\ (~InEach(s, b, u) => ii'[u] = 1)
    BY <1>1 DEF SamePlace, Finished
  <2>1. CASE u = t
    BY <1>2, <1>5, <2>1
  <2>2. CASE u # t
    <3>1. /\ pc[u] = a.pos[u] \/ (pc[u] > End(Prog(u)) /\ Waits(s, a, u))
          /\ ii[u] \in 1..NumX /\ (~InEach(s, a, u) => ii[u] = 1)
      BY <1>2 DEF SamePlace, Finished
    <3>2. pc'[u] = pc[u] /\ ii'[u] = ii[u]
      BY <1>2, <2>2
    <3> QED BY <1>5, <1>6, <2>2, <3>1, <3>2
  <2> QED BY <2>1, <2>2
<1>9. SameValues(s, b)'
  <2>1. Latest(mem', Y) = b.val["y"] /\ Latest(mem', Z) = b.val["z"]
    BY <1>3, GoingValues
  <2>2. \A u \in Threads : InEach(s, b, u) => u = t
    BY <1>1, <1>6, AloneInEach
  <2>3. ii'[t] = j
    BY <1>1, <1>2
  <2>4. ASSUME NEW x \in 1..NumX
        PROVE  /\ (\A u \in Threads : ~InEach(s, b, u)) => Latest(mem', x) = b.val["x"]
               /\ \A u \in Threads : InEach(s, b, u) =>
                     /\ x < ii'[u] => Latest(mem', x) \in b.done
                     /\ x = ii'[u] => Latest(mem', x) = b.val["x"]
                     /\ x > ii'[u] => Latest(mem', x) = b.pre
    BY <1>1, <2>2, <2>3 DEF XValues
  <2> QED BY <1>1, <2>1, <2>4 DEF SameValues
<1>10. /\ \A u \in Threads : \A g \in Signals : <<u, g>> \in b.knows =>
             \A n \in Place(g) : mem'.view[u][n] >= Newest(mem', n)
       /\ \A g \in b.pub : \A n \in Place(g) : \A x \in 1..NumX :
             mem'.hist[n][Newest(mem', n)].rel[x] >= Newest(mem', x)
  BY <1>3, GoingKnowledge DEF KnowledgeAfter
<1>11. SameKnowledge(b)'
  BY <1>1, <1>10 DEF SameKnowledge
<1>12. NoStaleClaim(s, b)'
  <2> SUFFICES ASSUME NEW u \in Threads, Waits(s, b, u), NEW n \in Place(CallOf(s, b, u).sig),
                      NEW i \in Readable(mem', u, n),
                      mem'.hist[n][i].val = Wanted(CallOf(s, b, u))
               PROVE  i = Newest(mem', n)
    BY <1>1 DEF NoStaleClaim
  <2>1. CASE u = t
    <3>1. <<t, CallOf(s, b, t).sig>> \in b.knows
      BY <1>4, <2>1 DEF EndsWell
    <3>2. CallOf(s, b, t).sig \in Signals
      BY <1>3, <3>1 DEF NewKnows
    <3>3. mem'.view[t][n] >= Newest(mem', n) /\ n \in Locations
      BY <1>1, <1>10, <2>1, <3>1, <3>2, Places
    <3>4. mem'.view[t][n] \in Nat /\ Newest(mem', n) \in Nat
      BY <1>1, <3>3, MemoryTypes
    <3> QED BY <2>1, <3>3, <3>4 DEF Readable
  <2>2. CASE u # t
    BY <1>6, <2>2, GoingClaims
  <2> QED BY <2>1, <2>2
<1> QED
  <2>1. /\ Disciplined(test)' /\ (Suite[test])' = Suite[test] /\ (Ideal[test])' = Ideal[test]
        /\ s = Suite[test]
    BY <1>1 DEF OnCourse
  <2> QED BY <1>4, <1>7, <1>8, <1>9, <1>11, <1>12, <2>1 DEF OnCourse, Follows

(* The x signals before the call. *)
LEMMA XBefore ==
    ASSUME NEW s, NEW a, OnCourse(s, a), NEW t \in Threads, Able(s, a, t)
    PROVE  /\ ii[t] \in 1..NumX /\ (~InEach(s, a, t) => ii[t] = 1)
           /\ InEach(s, a, t) =>
                \A x \in 1..NumX : /\ x < ii[t] => Latest(mem, x) \in a.done
                                   /\ x = ii[t] => Latest(mem, x) = a.val["x"]
                                   /\ x > ii[t] => Latest(mem, x) = a.pre
           /\ ~InEach(s, a, t) =>
                /\ a.pre = a.val["x"]
                /\ \A x \in 1..NumX : Latest(mem, x) = a.val["x"]
<1>1. SamePlace(s, a) /\ SameValues(s, a)
  BY DEF OnCourse, Follows
<1>2. ~InEach(s, a, t) => \A u \in Threads : ~InEach(s, a, u)
  BY AloneInEach
<1>3. ~InEach(s, a, t) => a.pre = a.val["x"]
  BY <1>2, DisciplineIs
<1> QED
  BY <1>1, <1>2, <1>3 DEF SamePlace, SameValues

(* The position after the call is one of those the ideal run allows. *)
LEMMA NextPosition ==
    ASSUME NEW s, NEW a, NEW t, Going(s, a, t), ~Finished(t), ~MoreX(t), NextCall(t)
    PROVE  \E q \in Onward(s.threads[t], a.pos[t]) :
             /\ q \in Nat /\ pc' = [pc EXCEPT ![t] = q] /\ round' \in [Threads -> Nat]
             /\ LastOfEach(s.threads[t], a.pos[t]) => ii' = [ii EXCEPT ![t] = 1]
             /\ ~LastOfEach(s.threads[t], a.pos[t]) =>
                   \/ /\ a.pos[t] = LoopEnd(s.threads[t]) /\ ii' = [ii EXCEPT ![t] = 1]
                   \/ q = a.pos[t] + 1 /\ ii' = [ii EXCEPT ![t] = ii[t]]
<1> DEFINE p == s.threads[t]
<1>1. OnCourse(s, a) /\ t \in Threads
  BY DEF Going
<1>2. Prog(t) = p /\ pc[t] = a.pos[t] /\ a.pos[t] \in 1..End(Prog(t)) /\ a.pos[t] \in Nat
  BY <1>1, AtCall, DisciplineIs
<1>3. round \in [Threads -> Nat] /\ ii \in [Threads -> Nat]
  BY <1>1 DEF OnCourse, TypeInv
<1>4. CASE NextRound(t)
  <2> DEFINE q == IF p.forever \/ round[t] + 1 < NumIter THEN 1 ELSE a.pos[t] + 1
  <2>1. /\ a.pos[t] = LoopEnd(p) /\ pc' = [pc EXCEPT ![t] = q] /\ ii' = [ii EXCEPT ![t] = 1]
        /\ round' = [round EXCEPT ![t] = round[t] + 1]
    BY <1>2, <1>4 DEF NextRound, Goto
  <2>2. q \in Onward(p, a.pos[t]) /\ q \in Nat
    BY <1>2, <2>1 DEF Onward
  <2>3. round' \in [Threads -> Nat]
    BY <1>1, <1>3, <2>1
  <2> QED BY <2>1, <2>2, <2>3
<1>5. CASE NextInRound(t)
  <2> DEFINE q == a.pos[t] + 1
  <2>1. /\ a.pos[t] # LoopEnd(p) /\ pc' = [pc EXCEPT ![t] = q] /\ round' = round
        /\ ii' = [ii EXCEPT ![t] = IF LastOfEach(p, a.pos[t]) THEN 1 ELSE ii[t]]
    BY <1>2, <1>5 DEF NextInRound, Goto
  <2>2. q \in Onward(p, a.pos[t]) /\ q \in Nat
    BY <1>2, <2>1 DEF Onward
  <2> QED BY <1>3, <2>1, <2>2
<1> QED
  BY <1>4, <1>5 DEF NextCall, NextX

LEMMA AdvanceKeeps ==
    ASSUME NEW s, NEW a, OnCourse(s, a), NEW t \in Threads, ~Finished(t), Advances(s, a, t)
    PROVE  \E b \in Ideal[test] : OnCourse(s, b)'
<1> DEFINE p == s.threads[t]
           w == NewVal(s, a, t)
<1>1. Going(s, a, t) /\ Able(s, a, t) /\ NextCall(t) /\ failed' = failed
  BY GoingIs DEF Advances
<1>2. /\ Prog(t) = p /\ WellFormed(p) /\ EndsWell(s, a, t)
      /\ IdealNext(s, a, t) \subseteq Ideal[test]
  BY <1>1, DisciplineIs
<1>3. pc[t] = a.pos[t] /\ a.pos[t] \in 1..End(p)
  BY <1>2, AtCall
<1>4. /\ w \in [Signals -> Int]
      /\ \A x \in 1..NumX : Latest(mem', x) = IF Current(t).sig = "x" /\ x = ii[t]
                                                THEN w["x"] ELSE Latest(mem, x)
      /\ Current(t).sig # "x" => w["x"] = a.val["x"]
  BY <1>1, GoingValues
<1>5. /\ ii[t] \in 1..NumX /\ (~InEach(s, a, t) => ii[t] = 1)
      /\ InEach(s, a, t) =>
           \A x \in 1..NumX : /\ x < ii[t] => Latest(mem, x) \in a.done
                              /\ x = ii[t] => Latest(mem, x) = a.val["x"]
                              /\ x > ii[t] => Latest(mem, x) = a.pre
      /\ ~InEach(s, a, t) => /\ a.pre = a.val["x"]
                             /\ \A x \in 1..NumX : Latest(mem, x) = a.val["x"]
  BY <1>1, XBefore
<1>6. NumX \in Nat \ {0}
  BY SignalOrderingAssumption
<1>7. {TakeEnd(p), EachEnd(p), LoopEnd(p), End(p)} \subseteq Nat /\ EachEnd(p) <= LoopEnd(p)
  BY <1>2 DEF WellFormed
<1>8. round \in [Threads -> Nat] /\ a.pos \in [Threads -> Nat]
  BY DisciplineIs DEF OnCourse, TypeInv, IdealTypes
<1>9. InEach(s, a, t) =>
        \A x \in 1..NumX : /\ x < ii[t] => Latest(mem', x) \in a.done
                           /\ x = ii[t] => Latest(mem', x) = w["x"]
                           /\ x > ii[t] => Latest(mem', x) = a.pre
  BY <1>4, <1>5
<1> HIDE DEF p, w
<1>10. CASE LastOfEach(p, a.pos[t])
  <2>1. InEach(s, a, t) /\ a.done \subseteq {w["x"]} /\ TakeEnd(p) + 1 \in TakeEnd(p) + 1 .. EachEnd(p)
    BY <1>2, <1>3, <1>7, <1>10 DEF InEach, LastOfEach, EndsWell, p, w
  <2>2. CASE MoreX(t)
    <3> DEFINE q == TakeEnd(p) + 1
               val == [w EXCEPT !["x"] = a.pre]
               b == Moved(s, a, t, q, val, a.pre, {w["x"]})
               j == ii[t] + 1
    <3>1. /\ pc' = [pc EXCEPT ![t] = q] /\ ii' = [ii EXCEPT ![t] = j] /\ round' = round
          /\ ii[t] < NumX
      BY <1>1, <1>2, <2>2 DEF NextCall, NextX, NextRound, NextInRound, Goto, MoreX
    <3>2. b \in IdealNext(s, a, t)
      BY <1>10 DEF IdealNext, p, w
    <3>3. j \in 1..NumX /\ q \in Nat
      BY <1>5, <1>6, <1>7, <3>1
    <3>4. /\ b.pos = [a.pos EXCEPT ![t] = q] /\ b.val = val /\ b.pre = a.pre /\ b.done = {w["x"]}
      BY DEF Moved
    <3>5. InEach(s, b, t)
      BY <1>8, <2>1, <3>4 DEF InEach, p
    <3>6. val["x"] = a.pre /\ val["y"] = w["y"] /\ val["z"] = w["z"]
      BY <1>4 DEF Signals
    <3> HIDE DEF b, val
    <3>7. XValues(s, b, t, j)
      <4> SUFFICES ASSUME NEW x \in 1..NumX
                   PROVE  /\ x < j => Latest(mem', x) = w["x"]
                          /\ x = j => Latest(mem', x) = a.pre
                          /\ x > j => Latest(mem', x) = a.pre
        BY <3>4, <3>5, <3>6 DEF XValues
      <4>1. CASE x < ii[t]
        BY <1>5, <1>9, <2>1, <4>1
      <4>2. CASE x = ii[t]
        BY <1>5, <1>9, <2>1, <4>2
      <4>3. CASE x > ii[t]
        BY <1>5, <1>9, <2>1, <4>3
      <4> QED BY <1>5, <4>1, <4>2, <4>3
    <3>8. OnCourse(s, b)'
      BY <1>1, <1>8, <3>1, <3>2, <3>3, <3>5, <3>6, <3>7, MovedKeeps DEF b, w
    <3> QED BY <1>2, <3>2, <3>8
  <2>3. CASE ~MoreX(t)
    <3>1. PICK q \in Onward(p, a.pos[t]) :
             /\ q \in Nat /\ pc' = [pc EXCEPT ![t] = q] /\ round' \in [Threads -> Nat]
             /\ ii' = [ii EXCEPT ![t] = 1]
      BY <1>1, <1>10, <2>3, NextPosition DEF p
    <3> DEFINE b == Moved(s, a, t, q, w, w["x"], {})
    <3>2. b \in IdealNext(s, a, t)
      BY <1>10, <3>1 DEF IdealNext, p, w
    <3>3. b.val = w /\ b.pre = w["x"]
      BY DEF Moved
    <3>4. ii[t] = NumX
      BY <1>2, <1>3, <1>5, <1>6, <1>10, <2>3 DEF MoreX
    <3> HIDE DEF b
    <3>5. \A x \in 1..NumX : Latest(mem', x) = w["x"]
      BY <1>5, <1>6, <1>9, <2>1, <3>4
    <3>6. XValues(s, b, t, 1)
      BY <3>3, <3>5 DEF XValues
    <3>7. 1 \in 1..NumX
      BY <1>6
    <3>8. OnCourse(s, b)'
      BY <1>1, <3>1, <3>2, <3>6, <3>7, MovedKeeps DEF b, w
    <3> QED BY <1>2, <3>2, <3>8
  <2> QED BY <2>2, <2>3
<1>11. CASE ~LastOfEach(p, a.pos[t])
  <2>1. ~MoreX(t)
    BY <1>2, <1>3, <1>11 DEF MoreX
  <2>2. PICK q \in Onward(p, a.pos[t]) :
           /\ q \in Nat /\ pc' = [pc EXCEPT ![t] = q] /\ round' \in [Threads -> Nat]
           /\ \/ a.pos[t] = LoopEnd(p) /\ ii' = [ii EXCEPT ![t] = 1]
              \/ q = a.pos[t] + 1 /\ ii' = [ii EXCEPT ![t] = ii[t]]
    BY <1>1, <1>11, <2>1, NextPosition DEF p
  <2> DEFINE b == Moved(s, a, t, q, w, a.pre, a.done)
  <2>3. b \in IdealNext(s, a, t)
    BY <1>11, <2>2 DEF IdealNext, p, w
  <2>4. b.pos = [a.pos EXCEPT ![t] = q] /\ b.val = w /\ b.pre = a.pre /\ b.done = a.done
    BY DEF Moved
  <2> HIDE DEF b
  <2>5. CASE InEach(s, a, t)
    <3>1. a.pos[t] \in TakeEnd(p) + 1 .. EachEnd(p) - 1
      BY <1>3, <1>7, <1>11, <2>5 DEF InEach, LastOfEach, p
    <3>2. q = a.pos[t] + 1 /\ ii' = [ii EXCEPT ![t] = ii[t]]
      BY <1>7, <2>2, <3>1
    <3>3. InEach(s, b, t)
      BY <1>7, <1>8, <2>4, <3>1, <3>2 DEF InEach, p
    <3>4. XValues(s, b, t, ii[t])
      BY <1>9, <2>4, <2>5, <3>3 DEF XValues
    <3>5. OnCourse(s, b)'
      BY <1>1, <1>5, <2>2, <2>3, <3>2, <3>3, <3>4, MovedKeeps DEF b, w
    <3> QED BY <1>2, <2>3, <3>5
  <2>6. CASE ~InEach(s, a, t)
    <3>1. ii' = [ii EXCEPT ![t] = 1] /\ 1 \in 1..NumX
      BY <1>5, <1>6, <2>2, <2>6
    <3>2. Current(t).sig # "x"
      BY <1>1, <2>6 DEF Going
    <3>3. w["x"] = a.val["x"] /\ a.pre = w["x"] /\ \A x \in 1..NumX : Latest(mem', x) = w["x"]
      BY <1>4, <1>5, <2>6, <3>2
    <3>4. XValues(s, b, t, 1)
      BY <2>4, <3>3 DEF XValues
    <3>5. OnCourse(s, b)'
      BY <1>1, <2>2, <2>3, <3>1, <3>4, MovedKeeps DEF b, w
    <3> QED BY <1>2, <2>3, <3>5
  <2> QED BY <2>5, <2>6
<1> QED
  BY <1>10, <1>11

(***************************************************************************)
(* The theorems.                                                           *)
(***************************************************************************)
(* The inductive invariant: the test follows a state of its ideal run. *)
Inv == \E a \in Ideal[test] : OnCourse(Suite[test], a)

LEMMA InitOnCourse ==
    ASSUME Init, Disciplined(test)
    PROVE  Inv
<1> DEFINE s == Suite[test]
           a == IdealInit(s)
           val == [g \in Signals |-> CASE g = "x" -> s.x [] g = "y" -> s.y [] g = "z" -> s.z]
           init == [l \in Locations |-> InitialValue(s, l)]
<1>1. /\ a \in Ideal[test] /\ IdealTypes(s, a) /\ Threads = DOMAIN s.threads
      /\ \A t \in Threads : Prog(t) = s.threads[t] /\ WellFormed(s.threads[t])
      /\ \A t \in Threads : WaitsOutside(s, a, t)
  BY DEF Disciplined, Threads, Prog
<1>2. /\ a.pos = [t \in Threads |-> 1] /\ a.val = val /\ a.pre = s.x
      /\ a.knows = Threads \X Signals /\ a.pub = {"y", "z"}
  BY <1>1 DEF IdealInit
<1>3. val["x"] = s.x /\ val["y"] = s.y /\ val["z"] = s.z
  BY DEF Signals
<1>4. s.x \in Int /\ s.y \in Int /\ s.z \in Int
  <2>1. val \in [Signals -> Int]
    BY <1>1, <1>2 DEF IdealTypes
  <2> HIDE DEF val
  <2> QED BY <1>3, <2>1 DEF Signals
<1>5. /\ init \in [Locations -> Int] /\ init[Y] = s.y /\ init[Z] = s.z
      /\ \A x \in 1..NumX : init[x] = s.x
  <2>1. /\ InitialValue(s, Y) = s.y /\ InitialValue(s, Z) = s.z
        /\ \A x \in 1..NumX : InitialValue(s, x) = s.x
    BY Places DEF InitialValue
  <2>2. \A l \in Locations : InitialValue(s, l) \in Int
    BY <1>4, <2>1, Places
  <2> QED BY <2>1, <2>2, Places DEF Signals
<1> HIDE DEF init
<1>6. /\ mem = InitMem(Threads, init) /\ test \in Names /\ failed = FALSE
      /\ pc = [t \in Threads |-> 1] /\ ii = [t \in Threads |-> 1] /\ round = [t \in Threads |-> 0]
  BY DEF Init, init
<1>7. /\ Memory(mem, Threads, Locations)
      /\ \A l \in Locations : /\ Newest(mem, l) = 1 /\ Latest(mem, l) = init[l]
                              /\ \A n \in Locations : mem.hist[l][1].rel[n] = 1
      /\ \A t \in Threads, l \in Locations : mem.view[t][l] = 1
  BY <1>5, <1>6, InitMemIs
<1>8. TypeInv
  BY <1>6, <1>7 DEF TypeInv
<1>9. Y \in Locations /\ Z \in Locations /\ 1..NumX \subseteq Locations
  BY Places DEF Signals
<1> HIDE DEF a, s, val
<1>10. SamePlace(s, a)
  <2>1. \A t \in Threads : pc[t] = a.pos[t] /\ ii[t] = 1
    BY <1>2, <1>6
  <2>2. 1 \in 1..NumX
    BY SignalOrderingAssumption
  <2> QED BY <2>1, <2>2 DEF SamePlace
<1>11. SameValues(s, a)
  <2>1. /\ Latest(mem, Y) = a.val["y"] /\ Latest(mem, Z) = a.val["z"]
        /\ \A x \in 1..NumX : Latest(mem, x) = a.val["x"]
    BY <1>2, <1>3, <1>5, <1>7, <1>9
  <2>2. a.pre = a.val["x"] /\ \A t \in Threads : ii[t] = 1
    BY <1>2, <1>3, <1>6
  <2> QED BY <2>1, <2>2 DEF SameValues
<1>12. SameKnowledge(a)
  <2>1. \A t \in Threads : \A g \in Signals : \A l \in Place(g) : mem.view[t][l] >= Newest(mem, l)
    BY <1>7, Places
  <2>2. ASSUME NEW g \in a.pub, NEW l \in Place(g), NEW x \in 1..NumX
        PROVE  mem.hist[l][Newest(mem, l)].rel[x] >= Newest(mem, x)
    <3>1. l \in Locations /\ x \in Locations
      BY <1>2, <1>9, Places DEF Signals
    <3> QED BY <1>7, <3>1
  <2> QED BY <2>1, <2>2 DEF SameKnowledge
<1>13. NoStaleClaim(s, a)
  <2> SUFFICES ASSUME NEW t \in Threads, Waits(s, a, t), NEW l \in Place(CallOf(s, a, t).sig),
                      NEW k \in Readable(mem, t, l)
               PROVE  k = Newest(mem, l)
    BY DEF NoStaleClaim
  <2>1. l \in Locations
    BY <1>1, Places DEF WaitsOutside, Signals
  <2> QED BY <1>7, <2>1 DEF Readable
<1>14. s = Suite[test]
  BY DEF s
<1> QED
  BY <1>1, <1>8, <1>10, <1>11, <1>12, <1>13, <1>14 DEF Inv, OnCourse, Follows

LEMMA NextOnCourse ==
    ASSUME Inv, [Next]_vars, ~EarlyWakes
    PROVE  Inv'
<1>1. CASE UNCHANGED vars
  BY <1>1 DEF Inv, vars, OnCourse, TypeInv, Follows, SamePlace, SameValues, SameKnowledge,
              NoStaleClaim, Threads, Prog, Finished
<1>2. CASE \E t \in Threads : Step(t)
  <2>1. PICK a \in Ideal[test] : OnCourse(Suite[test], a)
    BY DEF Inv
  <2>2. PICK t \in Threads : Step(t)
    BY <1>2
  <2>3. ~Finished(t) /\ UNCHANGED test
    BY <2>2 DEF Step, LoadCall, StoreCall, CasCall, RmwCall, WaitCall, Calls
  <2> DEFINE s == Suite[test]
  <2>4. Idles(s, a, t) \/ Advances(s, a, t)
    BY <2>1, <2>2, StepIs
  <2>5. (Ideal[test])' = Ideal[test] /\ (Suite[test])' = Suite[test]
    BY <2>3
  <2>6. \E b \in Ideal[test] : \E z : z = s /\ OnCourse(z, b)'
    <3>1. PICK z : z = s
      OBVIOUS
    <3>2. OnCourse(z, a) /\ (Idles(z, a, t) \/ Advances(z, a, t))
      BY <2>1, <2>4, <3>1
    <3>3. \E b \in Ideal[test] : OnCourse(z, b)'
      BY <2>3, <3>2, IdleKeeps, AdvanceKeeps
    <3> QED BY <3>1, <3>3
  <2> QED BY <2>5, <2>6 DEF Inv
<1>3. CASE Terminated
  BY <1>1, <1>3 DEF Terminated
<1> QED
  BY <1>1, <1>2, <1>3 DEF Next

LEMMA InvAlways ==
    ASSUME \A n \in Names : Disciplined(n), ~EarlyWakes
    PROVE  Spec => []Inv
<1>1. Init => Inv
  BY InitOnCourse DEF Init
<1>2. Inv /\ [Next]_vars => Inv'
  BY NextOnCourse
<1> QED
  BY <1>1, <1>2, PTL DEF Spec

(* A test whose program is disciplined follows its ideal run, for every    *)
(* number of x signals and of rounds, whatever stale values the relaxed    *)
(* accesses return.  The run checks that 26 of the 29 programs are         *)
(* disciplined; waits are assumed not to end early.                        *)
THEOREM TestsFollowIdealRun ==
    ASSUME \A n \in Names : Disciplined(n), ~EarlyWakes
    PROVE  Spec => []FollowsIdealRun
<1>1. Inv => FollowsIdealRun
  BY DEF Inv, OnCourse, FollowsIdealRun
<1> QED
  BY <1>1, InvAlways, PTL

(* Such a test never fails a conforming runtime. *)
THEOREM DisciplinedTestsAreSound ==
    ASSUME \A n \in Names : Disciplined(n), ~EarlyWakes
    PROVE  Spec => []OracleSound
<1>1. Inv => OracleSound
  BY DEF Inv, OnCourse, TypeInv, OracleSound
<1> QED
  BY <1>1, InvAlways, PTL

(* A thread that holds the token is able to go on, and knows the x signals. *)
LEMMA HolderIs ==
    ASSUME NEW s, NEW a, OnCourse(s, a), NEW t \in Threads, Holds(t)
    PROVE  Able(s, a, t) /\ <<t, "x">> \in a.knows
<1>1. /\ Prog(t) = s.threads[t] /\ WellFormed(s.threads[t]) /\ WaitsOutside(s, a, t)
      /\ pc \in [Threads -> Nat]
  BY DisciplineIs DEF OnCourse, TypeInv
<1>2. ~Finished(t)
  BY <1>1 DEF Holds, Finished, WellFormed
<1>3. pc[t] = a.pos[t] /\ ~Ended(s, a, t)
  BY <1>2, AtCall
<1>4. InHold(s, a, t)
  BY <1>1, <1>3 DEF Holds, InHold
<1>5. Able(s, a, t)
  BY <1>1, <1>3, <1>4, NoWaitIsAble DEF WaitsOutside
<1> QED
  BY <1>4, <1>5, DisciplineIs DEF AsExpected

(* The token of such a test is exclusive: two threads never work on the x  *)
(* signals at the same time.                                               *)
THEOREM TokensAreExclusive ==
    ASSUME \A n \in Names : Disciplined(n), ~EarlyWakes
    PROVE  Spec => []TokenExclusive
<1>1. Inv => TokenExclusive
  <2> SUFFICES ASSUME Inv, Holds(1), Holds(2) PROVE FALSE
    BY DEF TokenExclusive
  <2>1. PICK a \in Ideal[test] : OnCourse(Suite[test], a)
    BY DEF Inv
  <2>2. 1 \in Threads /\ 2 \in Threads
    BY <2>1, DisciplineIs
  <2>3. Able(Suite[test], a, 1) /\ Able(Suite[test], a, 2)
    BY <2>1, <2>2, HolderIs
  <2> QED BY <2>1, <2>2, <2>3, DisciplineIs
<1> QED
  BY <1>1, InvAlways, PTL

(* The holder of the token has seen the newest write to every x: the       *)
(* control signals have ordered it after every earlier holder.             *)
THEOREM HoldersAreSynchronised ==
    ASSUME \A n \in Names : Disciplined(n), ~EarlyWakes
    PROVE  Spec => []HolderSynchronised
<1>1. Inv => HolderSynchronised
  <2> SUFFICES ASSUME Inv, NEW t \in {1, 2}, Holds(t), NEW x \in 1..NumX
               PROVE  mem.view[t][x] = Newest(mem, x)
    BY DEF HolderSynchronised
  <2>1. PICK a \in Ideal[test] : OnCourse(Suite[test], a)
    BY DEF Inv
  <2>2. t \in Threads
    BY <2>1, DisciplineIs
  <2>3. <<t, "x">> \in a.knows
    BY <2>1, <2>2, HolderIs
  <2>4. x \in Place("x") /\ x \in Locations /\ "x" \in Signals
    BY Places DEF Signals
  <2>5. mem.view[t][x] >= Newest(mem, x)
    BY <2>1, <2>2, <2>3, <2>4 DEF OnCourse, Follows, SameKnowledge
  <2>6. mem.view[t][x] \in Nat /\ Newest(mem, x) \in Nat /\ mem.view[t][x] <= Newest(mem, x)
    BY <2>1, <2>2, <2>4, MemoryTypes DEF OnCourse, TypeInv
  <2> QED BY <2>5, <2>6
<1> QED
  BY <1>1, InvAlways, PTL
=============================================================================
