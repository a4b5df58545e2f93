------------------------------ MODULE IdealRun ------------------------------
(***************************************************************************)
(* What the author of an ordering test has in mind: one thread at a time   *)
(* is able to go on, all others wait for values that are not there, every  *)
(* access returns the newest value, and the thread that is able knows as   *)
(* much of the memory as its accesses need.  The ideal run of a test is    *)
(* computed from its program alone, for any number of x signals and of     *)
(* rounds.  A test is disciplined if its ideal run keeps these promises;   *)
(* a disciplined test follows its ideal run on the memory of RelAcq.       *)
(***************************************************************************)
EXTENDS SignalOrdering

Signals == {"x", "y", "z"}

(* A state of the ideal run of test s:                                     *)
(*   pos    the next call of each thread                                   *)
(*   val    the values of y, of z and of the x signal being worked on, or  *)
(*          of all x when none is                                          *)
(*   pre    the value of the x signals after that one                      *)
(*   done   the value of those before it (none: the empty set)             *)
(*   knows  <<t, g>>: thread t has seen the newest message of signal g     *)
(*   pub    the control signals whose newest message publishes the newest  *)
(*          message of every x                                             *)
IdealInit(s) ==
    [pos |-> [t \in DOMAIN s.threads |-> 1],
     val |-> [g \in Signals |-> CASE g = "x" -> s.x [] g = "y" -> s.y [] g = "z" -> s.z],
     pre |-> s.x,
     done |-> {},
     knows |-> (DOMAIN s.threads) \X Signals,
     pub |-> {"y", "z"}]

CallOf(s, a, t) == CallAt(s.threads[t], a.pos[t])
Ended(s, a, t) == a.pos[t] > End(s.threads[t])

(* A thread waits with a spin or with hsa_signal_wait. *)
Claims(c) == c.then = "spin" \/ c.op = "wait"
Wanted(c) == IF c.op = "wait" THEN c.val ELSE c.want
Waits(s, a, t) == ~Ended(s, a, t) /\ Claims(CallOf(s, a, t))

(* A thread is able to go on unless it waits for a value that is not there. *)
Able(s, a, t) ==
    /\ ~Ended(s, a, t)
    /\ LET c == CallOf(s, a, t) IN Claims(c) => a.val[c.sig] = Wanted(c)

(* The value the signal of t's call has after the call. *)
Writes(c) == c.op \notin {"load", "wait"}
Written(c, old) == IF c.op \in {"store", "cas"} THEN c.val ELSE Combine(c.op, old, c.val)
NewValue(s, a, t) ==
    LET c == CallOf(s, a, t)
    IN  IF Writes(c) THEN Written(c, a.val[c.sig]) ELSE a.val[c.sig]
NewVal(s, a, t) == [a.val EXCEPT ![CallOf(s, a, t).sig] = NewValue(s, a, t)]

(* What t learns from the newest message of that signal; a store reads     *)
(* nothing.  A write is known to nobody else.                              *)
Learns(s, a, t) ==
    LET c == CallOf(s, a, t)
    IN  {g \in {c.sig} : c.op # "store"}
        \cup {g \in {"x"} : c.op # "store" /\ Acquires(c.ord) /\ c.sig \in a.pub}
Knows(s, a, t, u, g) == <<u, g>> \in a.knows \/ (u = t /\ g \in Learns(s, a, t))
NewKnows(s, a, t) ==
    LET c == CallOf(s, a, t)
    IN  {k \in (DOMAIN s.threads) \X Signals :
            IF Writes(c) /\ k[2] = c.sig THEN k[1] = t ELSE Knows(s, a, t, k[1], k[2])}

(* A write to x is not published yet; a write to a control signal          *)
(* publishes what its thread knows, if it releases, and what the message   *)
(* it replaces published, unless it is a store.                            *)
NewPub(s, a, t) ==
    LET c == CallOf(s, a, t)
    IN  {g \in {"y", "z"} :
            IF Writes(c) /\ c.sig = g
              THEN \/ c.op # "store" /\ g \in a.pub
                   \/ Releases(c.ord) /\ Knows(s, a, t, t, "x")
              ELSE g \in a.pub /\ ~(Writes(c) /\ c.sig = "x")}

(* The calls that may come after call n of program p in its loop. *)
Onward(p, n) ==
    {q \in {1, n + 1} : IF n = LoopEnd(p) THEN q = 1 \/ ~p.forever ELSE q = n + 1}

(* The states of the ideal run after a call of t: with the next x signal,  *)
(* or after the last one, or elsewhere.                                    *)
Moved(s, a, t, q, val, pre, done) ==
    [pos |-> [a.pos EXCEPT ![t] = q], val |-> val, pre |-> pre, done |-> done,
     knows |-> NewKnows(s, a, t), pub |-> NewPub(s, a, t)]

IdealNext(s, a, t) ==
    LET p == s.threads[t]
        val == NewVal(s, a, t)
    IN  IF LastOfEach(p, a.pos[t])
          THEN {Moved(s, a, t, TakeEnd(p) + 1, [val EXCEPT !["x"] = a.pre], a.pre, {val["x"]})}
               \cup {Moved(s, a, t, q, val, val["x"], {}) : q \in Onward(p, a.pos[t])}
          ELSE {Moved(s, a, t, q, val, a.pre, a.done) : q \in Onward(p, a.pos[t])}

(* The ideal run, as the set of its states. *)
Horizon == 100
IdealStates(s) ==
    LET upto[n \in Nat] ==
          IF n = 0 THEN {IdealInit(s)}
          ELSE LET before == upto[n - 1]
               IN  before \cup UNION {UNION {IdealNext(s, a, t) :
                                               t \in {t \in DOMAIN s.threads : Able(s, a, t)}} :
                                         a \in before}
    IN  upto[Horizon]
Ideal == [n \in Names |-> IdealStates(Suite[n])]

-----------------------------------------------------------------------------
(* The discipline. *)

InEach(s, a, t) == a.pos[t] \in TakeEnd(s.threads[t]) + 1 .. EachEnd(s.threads[t])
InHold(s, a, t) == a.pos[t] \in TakeEnd(s.threads[t]) + 1 .. LoopEnd(s.threads[t])

(* The parts of a program come one after the other. *)
WellFormed(p) ==
    /\ {TakeEnd(p), EachEnd(p), LoopEnd(p), End(p)} \subseteq Nat
    /\ TakeEnd(p) <= EachEnd(p) /\ EachEnd(p) <= LoopEnd(p) /\ LoopEnd(p) <= End(p)
    /\ End(p) >= 1

(* A state of the ideal run has its types. *)
IdealTypes(s, a) ==
    /\ a.pos \in [DOMAIN s.threads -> Nat]
    /\ \A t \in DOMAIN s.threads : a.pos[t] \in 1..(End(s.threads[t]) + 1)
    /\ a.val \in [Signals -> Int]
    /\ a.knows \subseteq (DOMAIN s.threads) \X Signals
    /\ a.pub \subseteq {"y", "z"}

(* A thread waits for a control signal, outside of its turn. *)
WaitsOutside(s, a, t) ==
    Waits(s, a, t) =>
        LET c == CallOf(s, a, t)
        IN  /\ c.sig \in {"y", "z"}
            /\ c.op \in {"load", "cas", "wait"}
            /\ c.op = "wait" => c.then = "next"
            /\ c.op = "cas" => c.want = c.old
            /\ ~InHold(s, a, t)

(* The call of a thread that is able to go on returns what the test        *)
(* expects.  Where it could return an older value, the thread has seen the *)
(* newest one; in its turn it has seen the newest value of every x.        *)
AsExpected(s, a, t) ==
    LET c == CallOf(s, a, t)
        known == <<t, c.sig>> \in a.knows
        value == a.val[c.sig]
    IN  /\ c.sig \in Signals
        /\ c.sig = "x" => InEach(s, a, t)
        /\ InHold(s, a, t) => <<t, "x">> \in a.knows
        /\ c.then = "assert" => value = c.want /\ c.op # "store"
        /\ c.op = "cas" => value = c.old
        /\ NewValue(s, a, t) \in Int
        /\ c.op \in {"load", "cas"} => known \/ Claims(c)

(* A thread that starts to wait has seen the newest value of what it waits *)
(* for, and the x signals worked on one by one come out the same.          *)
EndsWell(s, a, t) ==
    /\ LastOfEach(s.threads[t], a.pos[t]) => a.done \subseteq {NewVal(s, a, t)["x"]}
    /\ \A b \in IdealNext(s, a, t) :
          Waits(s, b, t) => <<t, CallOf(s, b, t).sig>> \in b.knows

Disciplined(n) ==
    LET s == Suite[n]
        Thr == DOMAIN s.threads
    IN  /\ {1, 2} \subseteq Thr
        /\ \A t \in Thr : WellFormed(s.threads[t])
        /\ IdealInit(s) \in Ideal[n]
        /\ \A a \in Ideal[n] :
              /\ IdealTypes(s, a)
              /\ (\A t \in Thr : ~InEach(s, a, t)) => a.pre = a.val["x"]
              /\ \A t \in Thr : WaitsOutside(s, a, t)
              /\ \A t, u \in Thr : Able(s, a, t) /\ Able(s, a, u) => t = u
              /\ \A t \in Thr : Able(s, a, t) =>
                    /\ AsExpected(s, a, t)
                    /\ EndsWell(s, a, t)
                    /\ IdealNext(s, a, t) \subseteq Ideal[n]

-----------------------------------------------------------------------------
(* A state of the test follows a state of the ideal run. *)

Place(g) == CASE g = "x" -> 1..NumX [] g = "y" -> {Y} [] g = "z" -> {Z}

(* The threads are where the ideal run has them, except for those that     *)
(* were told to quit while they waited.                                    *)
SamePlace(s, a) ==
    \A t \in Threads :
        /\ pc[t] = a.pos[t] \/ (Finished(t) /\ Waits(s, a, t))
        /\ ii[t] \in 1..NumX /\ (~InEach(s, a, t) => ii[t] = 1)

(* The newest messages have its values. *)
SameValues(s, a) ==
    /\ Latest(mem, Y) = a.val["y"] /\ Latest(mem, Z) = a.val["z"]
    /\ \A x \in 1..NumX :
          /\ (\A t \in Threads : ~InEach(s, a, t)) => Latest(mem, x) = a.val["x"]
          /\ \A t \in Threads : InEach(s, a, t) =>
                /\ x < ii[t] => Latest(mem, x) \in a.done
                /\ x = ii[t] => Latest(mem, x) = a.val["x"]
                /\ x > ii[t] => Latest(mem, x) = a.pre

(* The threads know, and the messages publish, what it says. *)
SameKnowledge(a) ==
    /\ \A t \in Threads : \A g \in Signals : <<t, g>> \in a.knows =>
          \A l \in Place(g) : mem.view[t][l] >= Newest(mem, l)
    /\ \A g \in a.pub : \A l \in Place(g) : \A x \in 1..NumX :
          mem.hist[l][Newest(mem, l)].rel[x] >= Newest(mem, x)

(* A thread that waits cannot find the value it wants in an old message. *)
NoStaleClaim(s, a) ==
    \A t \in Threads : Waits(s, a, t) =>
        LET c == CallOf(s, a, t)
        IN  \A l \in Place(c.sig) : \A k \in Readable(mem, t, l) :
                mem.hist[l][k].val = Wanted(c) => k = Newest(mem, l)

Follows(s, a) ==
    SamePlace(s, a) /\ SameValues(s, a) /\ SameKnowledge(a) /\ NoStaleClaim(s, a)

(* Every test is disciplined and follows its ideal run: whatever the       *)
(* relaxed accesses may return, the threads are where one thread at a time *)
(* would have taken them, the newest values are the ones it would have     *)
(* left, and nobody can take an old message for the token.                 *)
FollowsIdealRun ==
    /\ Disciplined(test)
    /\ \E a \in Ideal[test] : Follows(Suite[test], a)
=============================================================================
