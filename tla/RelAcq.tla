------------------------------- MODULE RelAcq -------------------------------
(***************************************************************************)
(* The memory the signal and queue-index operations of the HSA runtime act *)
(* on, as the conformance tests use it (external: the runtime under test   *)
(* is not part of this repository).                                        *)
(*                                                                         *)
(* It is the usual view-based reading of release/acquire atomics.  Every   *)
(* location keeps the sequence of the messages written to it, in coherence *)
(* order; every thread has a view: for each location the position of the   *)
(* newest message it is known to have seen.  A load may return any message *)
(* at or after its thread's view; a read-modify-write always acts on the   *)
(* newest one.  A releasing write publishes its thread's view in the       *)
(* message; an acquiring read joins the message's view into its own.  A    *)
(* read-modify-write passes the view of the message it replaces on, so     *)
(* that it continues a release sequence; a plain store does not.           *)
(*                                                                         *)
(* A store is placed last in coherence order.  C11 also lets it fall       *)
(* before a message its thread has not seen; a thread that has             *)
(* synchronised with the last writer has no such freedom, so the           *)
(* simplification only matters after a test has already lost its ordering. *)
(* The operations of a thread take effect in program order: a load never   *)
(* returns a value that is written later (no load buffering).              *)
(***************************************************************************)
EXTENDS Naturals, Sequences

Orders == {"relaxed", "acquire", "release", "acq_rel"}

Acquires(o) == o \in {"acquire", "acq_rel"}
Releases(o) == o \in {"release", "acq_rel"}

Join(v, w) == [l \in DOMAIN v |-> IF v[l] >= w[l] THEN v[l] ELSE w[l]]

(* All threads start after every location has been created. *)
InitMem(threads, init) ==
    [hist |-> [l \in DOMAIN init |->
                  <<[val |-> init[l], rel |-> [m \in DOMAIN init |-> 1]]>>],
     view |-> [t \in threads |-> [l \in DOMAIN init |-> 1]]]

Newest(mem, l) == Len(mem.hist[l])
Latest(mem, l) == mem.hist[l][Newest(mem, l)].val

(* The messages a load of l by thread t may return. *)
Readable(mem, t, l) == mem.view[t][l] .. Newest(mem, l)

(* The view of t after it has read message k of l with order o. *)
ViewAfter(mem, t, l, k, o) ==
    LET v == [mem.view[t] EXCEPT ![l] = k]
    IN  IF Acquires(o) THEN Join(v, mem.hist[l][k].rel) ELSE v

Read(mem, t, l, k, o) ==
    [mem EXCEPT !.view[t] = ViewAfter(mem, t, l, k, o)]

(* Append the message [val, rel], where seen is the writer's view before   *)
(* the write and carried the view the message passes on in any case.       *)
Append1(mem, t, l, val, o, seen, carried) ==
    LET pos == Newest(mem, l) + 1
        own == [seen EXCEPT ![l] = pos]
        old == [carried EXCEPT ![l] = pos]
    IN  [mem EXCEPT !.view[t] = own,
                    !.hist[l] = Append(@, [val |-> val,
                                           rel |-> IF Releases(o)
                                                     THEN Join(own, old)
                                                     ELSE old])]

Store(mem, t, l, val, o) ==
    Append1(mem, t, l, val, o, mem.view[t], [m \in DOMAIN mem.hist |-> 1])

Rmw(mem, t, l, val, o) ==
    LET k == Newest(mem, l)
    IN  Append1(mem, t, l, val, o, ViewAfter(mem, t, l, k, o), mem.hist[l][k].rel)

(* What compare-and-swap may do: replace the newest message if it holds    *)
(* old, or act as a load of any readable message that does not.            *)
CasOutcomes(mem, t, l, old, val, o) ==
    (IF Latest(mem, l) = old
       THEN {[mem |-> Rmw(mem, t, l, val, o), ret |-> old]} ELSE {})
    \cup {[mem |-> Read(mem, t, l, k, o), ret |-> mem.hist[l][k].val] :
             k \in {k \in Readable(mem, t, l) : mem.hist[l][k].val # old}}

LoadOutcomes(mem, t, l, o) ==
    {[mem |-> Read(mem, t, l, k, o), ret |-> mem.hist[l][k].val] :
        k \in Readable(mem, t, l)}
=============================================================================
